------------------------- MODULE LocationJerkProofs -------------------------
(***************************************************************************)
(* Proofs about LocationJerk: type correctness; that the condition on the  *)
(* ETag protects every upload whose bytes and ETag are of one version; and *)
(* that, as long as no upload overwrites a version it has not read, every  *)
(* checkpointed item is stored, and at most once more than there were      *)
(* faults.                                                                 *)
(***************************************************************************)
EXTENDS LocationJerk, FiniteSetTheorems, TLAPS

USE ConstantsAssumption

\* What a writer at step l with the locals j knows of a blob b.
WriterOK(l, j, b) ==
  /\ l \in Label
  /\ j \in Job
  /\ l \notin {"etag", "upload"} => j.etag = 0 /\ j.read = 0
  /\ l \in {"download", "etag"} => b.etag # 0
  /\ l = "etag" => j.etag = 0 /\ j.read # 0
  /\ l = "upload" => (j.etag = 0 <=> j.read = 0)
  /\ j.read <= b.etag
  /\ j.read # 0 /\ j.read = b.etag => j.data = b.content

StoreOK ==
  /\ blob \in [etag : Nat, content : Content]
  /\ owner \in [Partition -> Worker \cup {NoWorker}]
  /\ checkpoint \in [Partition -> Nat]
  /\ pos \in [Worker -> Nat]
  /\ faults \in 0..MaxFaults
  /\ edits \in 0..MaxEdits
  /\ discarded \subseteq Item
  /\ deleted \subseteq Item
  /\ \A p \in Partition : checkpoint[p] <= Len(Messages[p])
  /\ \A w \in Worker : pos[w] <= Len(Messages[PartOf[w]])

\* The inductive invariant.
IInv ==
  /\ StoreOK
  /\ pc \in [Writer -> Label]
  /\ job \in [Writer -> Job]
  /\ \A w \in Writer : WriterOK(pc[w], job[w], blob)

-----------------------------------------------------------------------------
(* Lemmas about the operators.                                             *)

LEMMA Implied == IInv => TypeOK /\ VersionKnown
BY DEF IInv, StoreOK, WriterOK, TypeOK, VersionKnown

LEMMA Empty ==
  ASSUME IInv
  PROVE  /\ Nothing \in Content /\ NoJob \in Job
         /\ \A l \in Label \ {"download", "etag"} : WriterOK(l, NoJob, blob)
BY DEF IInv, StoreOK, Nothing, Content, NoJob, Job, WriterOK

\* Steps that leave the blob alone: the writer that moves keeps the invariant
\* if the step it comes to and the locals it takes there fit.
LEMMA MoveInv ==
  ASSUME IInv, StoreOK', blob' = blob,
         NEW w \in Writer, NEW l, NEW j, WriterOK(l, j, blob), Set(w, l, j)
  PROVE  IInv'
<1>1. l \in Label /\ j \in Job
  BY DEF WriterOK
<1>2. pc' \in [Writer -> Label] /\ job' \in [Writer -> Job]
  BY <1>1 DEF Set, IInv
<1>3. ASSUME NEW v \in Writer PROVE WriterOK(pc'[v], job'[v], blob')
  <2>1. CASE v = w
    <3>1. pc'[v] = l /\ job'[v] = j
      BY <2>1 DEF Set, IInv
    <3> QED
      BY <3>1
  <2>2. CASE v # w
    <3>1. pc'[v] = pc[v] /\ job'[v] = job[v]
      BY <2>2 DEF Set, IInv
    <3> QED
      BY <3>1 DEF IInv
  <2> QED
    BY <2>1, <2>2
<1> QED
  BY <1>2, <1>3 DEF IInv

\* The upload gives the blob a version nobody has read.
LEMMA UploadInv ==
  ASSUME IInv, StoreOK', NEW w \in Writer, NEW l \in {"checkpoint", "idle"},
         blob'.etag = blob.etag + 1, Set(w, l, NoJob)
  PROVE  IInv'
<1>1. NoJob \in Job /\ l \in Label
  BY Empty DEF Label
<1>2. pc' \in [Writer -> Label] /\ job' \in [Writer -> Job]
  BY <1>1 DEF Set, IInv
<1>3. ASSUME NEW v \in Writer PROVE WriterOK(pc'[v], job'[v], blob')
  <2>0. blob.etag \in Nat
    BY DEF IInv, StoreOK
  <2>1. CASE v = w
    <3>1. pc'[v] = l /\ job'[v] = NoJob
      BY <2>1 DEF Set, IInv
    <3> QED
      BY <1>1, <2>0, <3>1 DEF WriterOK, NoJob
  <2>2. CASE v # w
    <3>1. pc'[v] = pc[v] /\ job'[v] = job[v] /\ job[v].read \in Nat
      BY <2>2 DEF Set, IInv, Job
    <3>2. WriterOK(pc[v], job[v], blob)
      BY DEF IInv
    <3> QED
      BY <2>0, <3>1, <3>2 DEF WriterOK
  <2> QED
    BY <2>1, <2>2
<1> QED
  BY <1>2, <1>3 DEF IInv

LEMMA Lens == \A p \in Partition : Len(Messages[p]) \in Nat
OBVIOUS

LEMMA ItemsTyped ==
  ASSUME IInv, NEW w \in Worker, pos[w] < Len(Messages[PartOf[w]])
  PROVE  ItemsOf(Messages[PartOf[w]][pos[w] + 1]) \subseteq Item
<1>1. PICK p \in Partition, n \in Nat : p = PartOf[w] /\ n = pos[w]
  BY DEF IInv, StoreOK
<1>2. n + 1 \in 1..Len(Messages[p])
  BY <1>1, Lens
<1>3. Messages[p] \in Seq(Seq(Item))
  OBVIOUS
<1>4. PICK m : m = Messages[p][n + 1]
  OBVIOUS
<1>5. m \in Seq(Item)
  BY <1>2, <1>3, <1>4
<1> QED
  BY <1>1, <1>4, <1>5 DEF ItemsOf

LEMMA TakenSubset == ASSUME NEW m, NEW S PROVE Taken(m, S) \subseteq ItemsOf(m)
BY DEF Taken, ItemsOf

LEMMA MergedType == ASSUME NEW j \in Job PROVE Merged(j) \in Content
BY DEF Merged, Content, Job

-----------------------------------------------------------------------------
(* One lemma per action: it preserves IInv.                                *)

LEMMA InitInv == Init => IInv
<1> SUFFICES ASSUME Init PROVE IInv
  OBVIOUS
<1>1. Nothing \in Content /\ NoJob \in Job
  BY DEF Nothing, Content, NoJob, Job
<1>2. StoreOK
  BY <1>1, Lens DEF Init, StoreOK
<1>3. pc \in [Writer -> Label] /\ job \in [Writer -> Job]
  BY <1>1 DEF Init, Label
<1>4. \A w \in Writer : WriterOK(pc[w], job[w], blob)
  BY <1>1, <1>3 DEF Init, WriterOK, NoJob
<1> QED
  BY <1>2, <1>3, <1>4 DEF IInv

LEMMA OpenInv == ASSUME IInv, NEW w \in Worker, Open(w) PROVE IInv'
<1>1. StoreOK'
  BY DEF Open, IInv, StoreOK
<1>2. WriterOK("waiting", NoJob, blob)
  BY Empty DEF Label
<1> QED
  BY <1>1, <1>2, MoveInv DEF Open, Writer

LEMMA LoseLeaseInv == ASSUME IInv, NEW p \in Partition, LoseLease(p) PROVE IInv'
<1>1. StoreOK'
  BY DEF LoseLease, Fault, IInv, StoreOK
<1> QED
  BY <1>1 DEF LoseLease, IInv

LEMMA CloseInv == ASSUME IInv, NEW w \in Worker, Close(w) PROVE IInv'
<1>1. StoreOK'
  BY DEF Close, IInv, StoreOK
<1>2. WriterOK("closed", NoJob, blob)
  BY Empty DEF Label
<1> QED
  BY <1>1, <1>2, MoveInv DEF Close, Writer

LEMMA CrashInv == ASSUME IInv, NEW w \in Worker, Crash(w) PROVE IInv'
<1>1. StoreOK'
  BY DEF Crash, Fault, IInv, StoreOK
<1>2. WriterOK("closed", NoJob, blob)
  BY Empty DEF Label
<1> QED
  BY <1>1, <1>2, MoveInv DEF Crash, Writer

LEMMA TakeInv == ASSUME IInv, NEW w \in Worker, Take(w) PROVE IInv'
<1>1. PICK m, taken : /\ m = Messages[PartOf[w]][pos[w] + 1]
                      /\ taken = Taken(m, job[w].batch)
                      /\ Set(w, "batch", [job[w] EXCEPT !.batch = @ \cup taken])
                      /\ discarded' = discarded \cup (ItemsOf(m) \ taken)
  BY DEF Take
<1>2. ItemsOf(m) \subseteq Item /\ taken \subseteq Item
  BY <1>1, ItemsTyped, TakenSubset DEF Take
<1>3. StoreOK'
  <2>1. PICK p \in Partition, n \in Nat : p = PartOf[w] /\ n = pos[w]
    BY DEF IInv, StoreOK
  <2>2. pos' \in [Worker -> Nat] /\ \A v \in Worker : pos'[v] <= Len(Messages[PartOf[v]])
    BY Lens DEF Take, IInv, StoreOK
  <2> QED
    BY <1>1, <1>2, <2>2 DEF Take, IInv, StoreOK
<1>4. pc[w] \in {"waiting", "batch"} /\ WriterOK(pc[w], job[w], blob) /\ job[w] \in Job
  BY DEF Take, IInv, Writer
<1>5. PICK j : j = [job[w] EXCEPT !.batch = @ \cup taken]
  OBVIOUS
<1>6. j \in Job /\ j.etag = job[w].etag /\ j.read = job[w].read /\ j.data = job[w].data
  BY <1>2, <1>4, <1>5 DEF Job
<1>7. WriterOK("batch", j, blob)
  BY <1>4, <1>6 DEF WriterOK, Label
<1> QED
  BY <1>1, <1>3, <1>5, <1>7, MoveInv DEF Take, Writer

LEMMA SaveInv == ASSUME IInv, NEW w \in Worker, Save(w) PROVE IInv'
<1>1. StoreOK'
  BY DEF Save, IInv, StoreOK
<1>2. WriterOK("batch", job[w], blob)
  BY DEF Save, IInv, Writer
<1>3. PICK l \in {"checkpoint", "exists"} : Set(w, l, job[w])
  BY DEF Save
<1>4. WriterOK(l, job[w], blob)
  BY <1>2 DEF WriterOK, Label, Reading
<1> QED
  BY <1>1, <1>3, <1>4, MoveInv DEF Save, Writer

LEMMA CheckpointInv == ASSUME IInv, NEW w \in Worker, Checkpoint(w) PROVE IInv'
<1>1. StoreOK'
  <2>1. PICK p \in Partition, n \in Nat : p = PartOf[w] /\ n = pos[w] /\ n <= Len(Messages[p])
    BY DEF IInv, StoreOK
  <2>2. checkpoint' = checkpoint \/ checkpoint' = [checkpoint EXCEPT ![p] = n]
    BY <2>1 DEF Checkpoint
  <2>3. /\ checkpoint' \in [Partition -> Nat]
        /\ \A q \in Partition : checkpoint'[q] <= Len(Messages[q])
    BY <2>1, <2>2 DEF IInv, StoreOK
  <2> QED
    BY <2>3 DEF Checkpoint, Fault, IInv, StoreOK
<1>2. WriterOK("waiting", NoJob, blob)
  BY Empty DEF Label
<1> QED
  BY <1>1, <1>2, MoveInv DEF Checkpoint, Writer

LEMMA DeleteInv == ASSUME IInv, NEW e \in Editor, Delete(e) PROVE IInv'
<1>1. StoreOK'
  BY DEF Delete, IInv, StoreOK
<1>2. PICK L \in SUBSET Location : Set(e, "exists", [NoJob EXCEPT !.drop = L])
  BY DEF Delete
<1>3. PICK j : j = [NoJob EXCEPT !.drop = L]
  OBVIOUS
<1>4. j \in Job /\ j.etag = 0 /\ j.read = 0
  BY <1>3, Empty DEF Job, NoJob
<1>5. WriterOK("exists", j, blob)
  BY <1>4 DEF WriterOK, Label, Reading, IInv, StoreOK
<1> QED
  BY <1>1, <1>2, <1>3, <1>5, MoveInv DEF Delete, Writer

\* A save that throws, its faults counted or not.
LEMMA ThrowInv ==
  ASSUME IInv, NEW w \in Writer, Throw(w), faults' \in 0..MaxFaults
  PROVE  IInv'
<1>1. job[w] \in Job
  BY DEF IInv
<1>2. StoreOK'
  BY <1>1 DEF Throw, IInv, StoreOK, Job
<1>3. PICK l \in {"checkpoint", "idle"} : Set(w, l, NoJob)
  BY DEF Throw
<1>4. WriterOK(l, NoJob, blob)
  BY Empty DEF Label
<1> QED
  BY <1>2, <1>3, <1>4, MoveInv DEF Throw

\* A request that only reads.
LEMMA ReadInv ==
  ASSUME IInv, NEW w \in Writer, NEW l, NEW j, Read(w, l, j), WriterOK(l, j, blob)
  PROVE  IInv'
<1>1. StoreOK'
  BY DEF Read, IInv, StoreOK
<1> QED
  BY <1>1, MoveInv DEF Read

LEMMA ExistsInv == ASSUME IInv, NEW w \in Writer, Exists(w) PROVE IInv'
<1>1. WriterOK("exists", job[w], blob) /\ job[w] \in Job
  BY DEF Exists, IInv
<1>2. CASE blob.etag = 0
  <2>1. WriterOK("upload", job[w], blob)
    BY <1>1 DEF WriterOK, Label
  <2> QED
    BY <1>2, <2>1, ReadInv DEF Exists
<1>3. CASE blob.etag # 0
  <2>1. PICK j : j = [job[w] EXCEPT !.data = blob.content]
    OBVIOUS
  <2>2. j \in Job /\ j.etag = job[w].etag /\ j.read = job[w].read
    BY <1>1, <2>1 DEF Job, IInv, StoreOK
  <2>3. WriterOK("download", j, blob)
    BY <1>1, <1>3, <2>2 DEF WriterOK, Label, Reading
  <2> QED
    BY <1>3, <2>1, <2>3, ReadInv DEF Exists
<1> QED
  BY <1>2, <1>3

LEMMA DownloadInv == ASSUME IInv, NEW w \in Writer, Download(w) PROVE IInv'
<1>1. WriterOK("download", job[w], blob) /\ job[w] \in Job
  BY DEF Download, IInv
<1>2. PICK j : j = [job[w] EXCEPT !.data = blob.content, !.read = blob.etag]
  OBVIOUS
<1>3. blob.content \in Content /\ blob.etag \in Nat
  BY DEF IInv, StoreOK
<1>4. j \in Job /\ j.etag = job[w].etag /\ j.read = blob.etag /\ j.data = blob.content
  BY <1>1, <1>2, <1>3 DEF Job
<1>5. WriterOK("etag", j, blob)
  BY <1>1, <1>3, <1>4 DEF WriterOK, Label, Reading
<1>6. CASE Read(w, "etag", j)
  BY <1>5, <1>6, ReadInv
<1>7. CASE Throw(w) /\ UNCHANGED faults
  BY <1>7, ThrowInv DEF IInv, StoreOK
<1> QED
  BY <1>2, <1>6, <1>7 DEF Download

LEMMA FetchEtagInv == ASSUME IInv, NEW w \in Writer, FetchEtag(w) PROVE IInv'
<1>1. WriterOK("etag", job[w], blob) /\ job[w] \in Job /\ blob.etag \in Nat
  BY DEF FetchEtag, IInv, StoreOK
<1>2. PICK j : j = [job[w] EXCEPT !.etag = blob.etag]
  OBVIOUS
<1>3. j \in Job /\ j.etag = blob.etag /\ j.read = job[w].read /\ j.data = job[w].data
  BY <1>1, <1>2 DEF Job
<1>4. WriterOK("upload", j, blob)
  BY <1>1, <1>3 DEF WriterOK, Label
<1> QED
  BY <1>2, <1>4, ReadInv DEF FetchEtag

LEMMA UploadStepInv == ASSUME IInv, NEW w \in Writer, Upload(w) PROVE IInv'
<1>1. CASE Throw(w) /\ (UNCHANGED faults \/ Fault("save"))
  BY <1>1, ThrowInv DEF IInv, StoreOK, Fault
<1>2. CASE ~(Throw(w) /\ (UNCHANGED faults \/ Fault("save")))
  <2>1. PICK j \in Job : j = job[w]
    BY DEF IInv
  <2>2. /\ blob' = [etag |-> blob.etag + 1, content |-> Merged(j)]
        /\ deleted' = deleted \cup {i \in Item : Loc[i] \in j.drop}
        /\ UNCHANGED <<owner, checkpoint, pos, faults, edits, discarded>>
    BY <1>2, <2>1 DEF Upload
  <2>3. PICK l \in {"checkpoint", "idle"} : Set(w, l, NoJob)
    BY <1>2 DEF Upload
  <2>4. StoreOK'
    BY <2>2, MergedType DEF IInv, StoreOK
  <2> QED
    BY <2>2, <2>3, <2>4, UploadInv
<1> QED
  BY <1>1, <1>2

LEMMA NextInv == IInv /\ [Next]_vars => IInv'
<1> SUFFICES ASSUME IInv, [Next]_vars PROVE IInv'
  OBVIOUS
<1>1. ASSUME NEW p \in Partition, LoseLease(p) PROVE IInv'
  BY <1>1, LoseLeaseInv
<1>2. ASSUME NEW w \in Worker, Work(w) PROVE IInv'
  BY <1>2, OpenInv, TakeInv, SaveInv, CheckpointInv, CloseInv DEF Work
<1>3. ASSUME NEW w \in Worker, Crash(w) PROVE IInv'
  BY <1>3, CrashInv
<1>4. ASSUME NEW e \in Editor, Delete(e) PROVE IInv'
  BY <1>4, DeleteInv
<1>5. ASSUME NEW w \in Writer, Store(w) PROVE IInv'
  BY <1>5, ExistsInv, DownloadInv, FetchEtagInv, UploadStepInv DEF Store
<1>6. CASE UNCHANGED vars
  BY <1>6 DEF vars, IInv, StoreOK
<1> QED
  BY <1>1, <1>2, <1>3, <1>4, <1>5, <1>6 DEF Next

-----------------------------------------------------------------------------
(* The theorems.                                                           *)

LEMMA Invariant == Spec => []IInv
<1> QED
  BY InitInv, NextInv, PTL DEF Spec

\* Types; no checkpoint or worker is past the end of its partition, and an
\* upload goes without a condition exactly when no blob was read.
THEOREM TypeCorrect == Spec => []TypeOK
BY Invariant, Implied, PTL

\* For any number of workers, users and faults, a version a writer downloaded
\* has the content it downloaded: an ETag stands for one content.
THEOREM Versions == Spec => []VersionKnown
BY Invariant, Implied, PTL

\* One step of ConsistentMerge.
Merge ==
  \A w \in Writer :
    pc[w] = "upload" /\ pc'[w] # "upload" /\ blob' # blob
      /\ job[w].read # 0 /\ job[w].read = job[w].etag =>
    \A i \in Item : Loc[i] \notin job[w].drop => blob'.content[i] >= blob.content[i]

LEMMA MergeStep == IInv /\ [Next]_vars => Merge
<1> SUFFICES ASSUME IInv, [Next]_vars, NEW w \in Writer,
                    pc[w] = "upload", pc'[w] # "upload", blob' # blob,
                    job[w].read # 0, job[w].read = job[w].etag,
                    NEW i \in Item, Loc[i] \notin job[w].drop
             PROVE  blob'.content[i] >= blob.content[i]
  BY DEF Merge
<1>1. PICK v \in Writer : Upload(v) /\ ~Throw(v)
  BY DEF Next, vars, LoseLease, Work, Open, Take, Save, Checkpoint, Close, Crash, Delete,
         Store, Exists, Download, FetchEtag, Read, Throw, Writer
<1>2. v = w
  <2>1. PICK l : Set(v, l, NoJob)
    BY <1>1 DEF Upload
  <2> QED
    BY <2>1 DEF Set, IInv
<1>3. PICK j \in Job : j = job[w]
  BY DEF IInv
<1>4. Matches(j.etag) /\ blob' = [etag |-> blob.etag + 1, content |-> Merged(j)]
  BY <1>1, <1>2, <1>3 DEF Upload
<1>5. j.read = blob.etag
  BY <1>3, <1>4 DEF Matches
<1>6. j.data = blob.content
  BY <1>3, <1>5 DEF IInv, WriterOK
<1>7. Merged(j)[i] >= j.data[i]
  BY <1>3 DEF Merged, Job, Content
<1> QED
  BY <1>4, <1>6, <1>7

\* An upload on the version it read loses nothing another writer stored.
THEOREM MergesAreConsistent == Spec => ConsistentMerge
<1>1. IInv /\ [Next]_vars => [Merge]_vars
  BY MergeStep
<1> QED
  BY <1>1, Invariant, PTL DEF Spec, ConsistentMerge, Merge

-----------------------------------------------------------------------------
(* What is checkpointed is stored.                                         *)

\* The race the code leaves open: the ETag is asked for after the bytes
\* (LocationJerkRepository.cs:169), and without a blob there is none to ask
\* for.  A blind upload is one that its condition lets through although the blob
\* is not what was downloaded.
NoBlindUpload ==
  \A w \in Writer :
    pc[w] = "upload" /\ Matches(job[w].etag) => job[w].read = blob.etag

\* What a writer at step l has in its locals j.
LocalOK(w, l, j) ==
  /\ l # "download" /\ j.read = 0 => j.data = Nothing
  /\ l \in {"closed", "waiting", "checkpoint", "idle"} => j.batch = {}
  /\ w \notin Worker => j.batch = {}
  /\ \A i \in j.batch : Kind[i] # "noDevice"

\* A lease is held by a worker of the partition that is open.
Leases ==
  \A p \in Partition, w \in Worker : owner[p] = w => PartOf[w] = p /\ pc[w] # "closed"

Held ==
  /\ Leases
  /\ blob.etag = 0 => blob.content = Nothing
  /\ \A w \in Writer : LocalOK(w, pc[w], job[w])

LEMMA InitHeld == Init => Held
<1> SUFFICES ASSUME Init PROVE Held
  OBVIOUS
<1>1. \A w \in Writer : LocalOK(w, pc[w], job[w])
  BY DEF Init, LocalOK, NoJob
<1> QED
  BY <1>1 DEF Init, Held, Leases

LEMMA HeldMove ==
  ASSUME IInv, Held, blob' = blob,
         NEW w \in Writer, NEW l, NEW j, Set(w, l, j), LocalOK(w, l, j),
         \A p \in Partition, v \in Worker :
           owner'[p] = v => owner[p] = v \/ (v = w /\ PartOf[w] = p),
         l = "closed" => \A p \in Partition : owner'[p] # w
  PROVE  Held'
<1>1. \A v \in Writer : pc'[v] = (IF v = w THEN l ELSE pc[v]) /\ job'[v] = (IF v = w THEN j ELSE job[v])
  BY DEF Set, IInv
<1>2. ASSUME NEW p \in Partition, NEW v \in Worker, owner'[p] = v
      PROVE  PartOf[v] = p /\ pc'[v] # "closed"
  <2>1. CASE owner[p] = v
    BY <1>1, <1>2, <2>1 DEF Held, Leases, Writer
  <2>2. CASE v = w /\ PartOf[w] = p
    BY <1>1, <1>2, <2>2
  <2> QED
    BY <1>2, <2>1, <2>2
<1> QED
  BY <1>1, <1>2 DEF Held, Leases, LocalOK

\* What an item of a batch is not.
LEMMA TakenKind ==
  ASSUME NEW m \in Seq(Item), NEW S, NEW i \in Taken(m, S)
  PROVE  Kind[i] # "noDevice"
<1>1. PICK k \in DOMAIN m : /\ i = m[k]
                            /\ \A n \in 1..k : ~Throws(m[n], S \cup {m[l] : l \in 1..(n - 1)})
  BY DEF Taken
<1>2. k \in 1..k
  BY <1>1
<1> QED
  BY <1>1, <1>2 DEF Throws

\* The message a worker takes next.
LEMMA NextMessage ==
  ASSUME IInv, NEW w \in Worker, Take(w)
  PROVE  \E p \in Partition, n \in Nat, m \in Seq(Item), taken \in SUBSET Item :
           /\ p = PartOf[w] /\ n = pos[w] /\ n + 1 \in DOMAIN Messages[p]
           /\ m = Messages[p][n + 1]
           /\ taken = Taken(m, job[w].batch)
           /\ taken \subseteq ItemsOf(m) /\ ItemsOf(m) \subseteq Item
           /\ pos' = [pos EXCEPT ![w] = n + 1]
           /\ Set(w, "batch", [job[w] EXCEPT !.batch = @ \cup taken])
           /\ discarded' = discarded \cup (ItemsOf(m) \ taken)
<1>1. PICK p \in Partition, n \in Nat : p = PartOf[w] /\ n = pos[w]
  BY DEF IInv, StoreOK
<1>2. n + 1 \in 1..Len(Messages[p]) /\ Messages[p] \in Seq(Seq(Item))
  BY <1>1, Lens DEF Take
<1>3. PICK m : m = Messages[p][n + 1]
  OBVIOUS
<1>4. m \in Seq(Item)
  BY <1>2, <1>3
<1>5. PICK taken : taken = Taken(m, job[w].batch)
  OBVIOUS
<1>6. taken \subseteq ItemsOf(m) /\ ItemsOf(m) \subseteq Item
  BY <1>4, <1>5, TakenSubset DEF ItemsOf
<1>7. n + 1 \in DOMAIN Messages[p]
  BY <1>2
<1>8. /\ pos' = [pos EXCEPT ![w] = n + 1]
      /\ Set(w, "batch", [job[w] EXCEPT !.batch = @ \cup taken])
      /\ discarded' = discarded \cup (ItemsOf(m) \ taken)
  BY <1>1, <1>3, <1>5 DEF Take
<1> QED
  BY <1>1, <1>3, <1>4, <1>5, <1>6, <1>7, <1>8

\* A successful upload.
Stores(w, j, l) ==
  /\ j = job[w] /\ j \in Job
  /\ pc[w] = "upload" /\ ~Unsound(j) /\ Matches(j.etag)
  /\ blob' = [etag |-> blob.etag + 1, content |-> Merged(j)]
  /\ deleted' = deleted \cup {i \in Item : Loc[i] \in j.drop}
  /\ l \in {"checkpoint", "idle"} /\ Set(w, l, NoJob)
  /\ UNCHANGED <<owner, checkpoint, pos, faults, edits, discarded>>

LEMMA UploadSteps ==
  ASSUME IInv, NEW w \in Writer, Upload(w)
  PROVE  \/ Throw(w) /\ (UNCHANGED faults \/ Fault("save"))
         \/ \E j, l : Stores(w, j, l)
<1>1. job[w] \in Job
  BY DEF IInv
<1>2. CASE ~(Throw(w) /\ (UNCHANGED faults \/ Fault("save")))
  <2>1. PICK l \in {"checkpoint", "idle"} : Set(w, l, NoJob)
    BY <1>2 DEF Upload
  <2>2. Stores(w, job[w], l)
    BY <1>1, <1>2, <2>1 DEF Upload, Stores
  <2> QED
    BY <2>2
<1> QED
  BY <1>2

\* An upload that is not blind merges into what is stored.
LEMMA UploadData ==
  ASSUME IInv, Held, NoBlindUpload, NEW w \in Writer, NEW j, NEW l, Stores(w, j, l)
  PROVE  j.data = blob.content
<1>1. j.read = blob.etag /\ WriterOK(pc[w], j, blob) /\ LocalOK(w, pc[w], j)
  BY DEF NoBlindUpload, Stores, IInv, Held
<1> QED
  BY <1>1 DEF WriterOK, LocalOK, Held, Stores

LEMMA HeldStep == IInv /\ Held /\ [Next]_vars => Held'
<1> SUFFICES ASSUME IInv, Held, [Next]_vars PROVE Held'
  OBVIOUS
<1>0. \A w \in Writer, l \in Label : LocalOK(w, l, NoJob)
  BY DEF LocalOK, NoJob
<1>1. CASE UNCHANGED vars
  BY <1>1 DEF vars, Held, Leases, LocalOK
<1>2. ASSUME NEW p \in Partition, LoseLease(p) PROVE Held'
  <2>1. UNCHANGED <<blob, pc, job>> /\ owner' = [owner EXCEPT ![p] = NoWorker]
    BY <1>2 DEF LoseLease
  <2>2. Leases'
    BY <2>1 DEF Held, Leases, IInv, StoreOK
  <2> QED
    BY <2>1, <2>2 DEF Held
<1>3. ASSUME NEW w \in Worker, Open(w) PROVE Held'
  <2>1. LocalOK(w, "waiting", NoJob)
    BY <1>0 DEF Writer, Label
  <2>2. \A p \in Partition, v \in Worker :
           owner'[p] = v => owner[p] = v \/ (v = w /\ PartOf[w] = p)
    BY <1>3 DEF Open, IInv, StoreOK
  <2> QED
    BY <1>3, <2>1, <2>2, HeldMove DEF Open, Writer
<1>4. ASSUME NEW w \in Worker, Take(w) PROVE Held'
  <2>1. PICK m \in Seq(Item), taken \in SUBSET Item :
          /\ taken = Taken(m, job[w].batch)
          /\ Set(w, "batch", [job[w] EXCEPT !.batch = @ \cup taken])
    BY <1>4, NextMessage
  <2>2. PICK j : j = [job[w] EXCEPT !.batch = @ \cup taken]
    OBVIOUS
  <2>3. job[w] \in Job /\ LocalOK(w, pc[w], job[w]) /\ pc[w] # "download"
    BY <1>4 DEF IInv, Held, Take, Writer
  <2>4. /\ j.data = job[w].data /\ j.read = job[w].read
        /\ j.batch = job[w].batch \cup taken
    BY <2>2, <2>3 DEF Job
  <2>5. \A i \in taken : Kind[i] # "noDevice"
    BY <2>1, TakenKind
  <2>6. LocalOK(w, "batch", j)
    BY <2>3, <2>4, <2>5 DEF LocalOK
  <2> QED
    BY <1>4, <2>1, <2>2, <2>6, HeldMove DEF Take, Writer
<1>5. ASSUME NEW w \in Worker, Save(w) PROVE Held'
  <2>1. PICK l \in {"checkpoint", "exists"} :
          Set(w, l, job[w]) /\ (l = "checkpoint" => job[w].batch = {})
    BY <1>5 DEF Save
  <2>2. LocalOK(w, "batch", job[w])
    BY <1>5 DEF Save, Held, Writer
  <2>3. LocalOK(w, l, job[w])
    BY <2>1, <2>2 DEF LocalOK
  <2> QED
    BY <1>5, <2>1, <2>3, HeldMove DEF Save, Writer
<1>6. ASSUME NEW w \in Worker, Checkpoint(w) PROVE Held'
  <2>1. LocalOK(w, "waiting", NoJob)
    BY <1>0 DEF Writer, Label
  <2> QED
    BY <1>6, <2>1, HeldMove DEF Checkpoint, Writer
<1>7. ASSUME NEW w \in Worker, Close(w) PROVE Held'
  <2>1. LocalOK(w, "closed", NoJob)
    BY <1>0 DEF Writer, Label
  <2>2. \A p \in Partition : owner'[p] # w
    BY <1>7 DEF Close, Held, Leases
  <2> QED
    BY <1>7, <2>1, <2>2, HeldMove DEF Close, Writer
<1>8. ASSUME NEW w \in Worker, Crash(w) PROVE Held'
  <2>1. LocalOK(w, "closed", NoJob)
    BY <1>0 DEF Writer, Label
  <2>2. \A p \in Partition : owner'[p] # w /\ owner'[p] \in {owner[p], NoWorker}
    BY <1>8 DEF Crash, Held, Leases, IInv, StoreOK
  <2> QED
    BY <1>8, <2>1, <2>2, HeldMove DEF Crash, Writer
<1>9. ASSUME NEW e \in Editor, Delete(e) PROVE Held'
  <2>1. PICK L : Set(e, "exists", [NoJob EXCEPT !.drop = L])
    BY <1>9 DEF Delete
  <2>2. PICK j : j = [NoJob EXCEPT !.drop = L]
    OBVIOUS
  <2>3. LocalOK(e, "exists", j)
    BY <2>2 DEF LocalOK, NoJob
  <2> QED
    BY <1>9, <2>1, <2>2, <2>3, HeldMove DEF Delete, Writer
<1>10. ASSUME NEW w \in Writer, Throw(w) PROVE Held'
  <2>1. PICK l \in {"checkpoint", "idle"} : Set(w, l, NoJob)
    BY <1>10 DEF Throw
  <2>2. LocalOK(w, l, NoJob)
    BY <1>0 DEF Label
  <2> QED
    BY <1>10, <2>1, <2>2, HeldMove DEF Throw
<1>11. ASSUME NEW w \in Writer, Exists(w) PROVE Held'
  <2>1. LocalOK(w, "exists", job[w]) /\ job[w] \in Job
    BY <1>11 DEF Exists, Held, IInv
  <2>2. CASE blob.etag = 0
    <3>1. LocalOK(w, "upload", job[w])
      BY <2>1 DEF LocalOK
    <3> QED
      BY <1>11, <2>2, <3>1, HeldMove DEF Exists, Read
  <2>3. CASE blob.etag # 0
    <3>1. PICK j : j = [job[w] EXCEPT !.data = blob.content]
      OBVIOUS
    <3>2. j.batch = job[w].batch
      BY <2>1, <3>1 DEF Job
    <3>3. LocalOK(w, "download", j)
      BY <2>1, <3>2 DEF LocalOK
    <3> QED
      BY <1>11, <2>3, <3>1, <3>3, HeldMove DEF Exists, Read
  <2> QED
    BY <2>2, <2>3
<1>12. ASSUME NEW w \in Writer, Download(w) PROVE Held'
  <2>1. LocalOK(w, "download", job[w]) /\ job[w] \in Job /\ blob.etag # 0
    BY <1>12 DEF Download, Held, IInv, WriterOK
  <2>2. PICK j : j = [job[w] EXCEPT !.data = blob.content, !.read = blob.etag]
    OBVIOUS
  <2>3. j.batch = job[w].batch /\ j.read = blob.etag
    BY <2>1, <2>2 DEF Job
  <2>4. LocalOK(w, "etag", j)
    BY <2>1, <2>3 DEF LocalOK
  <2>5. CASE Read(w, "etag", j)
    BY <2>4, <2>5, HeldMove DEF Read
  <2> QED
    BY <1>10, <1>12, <2>2, <2>5 DEF Download
<1>13. ASSUME NEW w \in Writer, FetchEtag(w) PROVE Held'
  <2>1. LocalOK(w, "etag", job[w]) /\ job[w] \in Job
    BY <1>13 DEF FetchEtag, Held, IInv
  <2>2. PICK j : j = [job[w] EXCEPT !.etag = blob.etag]
    OBVIOUS
  <2>3. j.batch = job[w].batch /\ j.read = job[w].read /\ j.data = job[w].data
    BY <2>1, <2>2 DEF Job
  <2>4. LocalOK(w, "upload", j)
    BY <2>1, <2>3 DEF LocalOK
  <2> QED
    BY <1>13, <2>2, <2>4, HeldMove DEF FetchEtag, Read
<1>14. ASSUME NEW w \in Writer, NEW j, NEW l, Stores(w, j, l) PROVE Held'
  <2>1. LocalOK(w, l, NoJob)
    BY <1>0, <1>14 DEF Stores, Label
  <2>2. \A v \in Writer : pc'[v] = (IF v = w THEN l ELSE pc[v]) /\ job'[v] = (IF v = w THEN NoJob ELSE job[v])
    BY <1>14 DEF Stores, Set, IInv
  <2>3. Leases'
    BY <1>14, <2>2 DEF Stores, Held, Leases, Writer
  <2>4. blob'.etag # 0
    BY <1>14 DEF Stores, IInv, StoreOK
  <2> QED
    BY <2>1, <2>2, <2>3, <2>4 DEF Held, LocalOK
<1> QED
  BY <1>1, <1>2, <1>3, <1>4, <1>5, <1>6, <1>7, <1>8, <1>9, <1>10, <1>11, <1>12, <1>13,
     <1>14, UploadSteps DEF Next, Work, Store

\* The items of the first n messages of a partition.
UpTo(p, n) == UNION {ItemsOf(Messages[p][k]) : k \in 1..n}

\* An item is stored, or was given up, or there is nothing of it to store.
Kept(i) ==
  \/ blob.content[i] > 0
  \/ i \in discarded
  \/ i \in deleted
  \/ Kind[i] = "noJerks" /\ Known(Loc[i], blob.content)

\* The owner of a partition has brought into the blob, or has in its batch, what
\* it has received.
Brought(w) ==
  owner[PartOf[w]] = w =>
    \A i \in UpTo(PartOf[w], pos[w]) : Kept(i) \/ i \in job[w].batch

\* The inductive invariant behind CheckpointedStored.
KeptInv ==
  /\ \A p \in Partition : \A i \in UpTo(p, checkpoint[p]) : Kept(i)
  /\ \A w \in Worker : Brought(w)

\* Every message of every partition is an event of its own.
DistinctMessages ==
  \A p, q \in Partition : \A m \in DOMAIN Messages[p], n \in DOMAIN Messages[q] :
    ItemsOf(Messages[p][m]) \cap ItemsOf(Messages[q][n]) # {} => p = q /\ m = n

\* Item i is in a message of p after the nth.
Ahead(p, n, i) == \E k \in DOMAIN Messages[p] : k > n /\ i \in ItemsOf(Messages[p][k])

\* The last message of p that was delivered to its owner, or that no owner will
\* be given again.
Delivered(p) == IF owner[p] = NoWorker THEN checkpoint[p] ELSE pos[owner[p]]

\* Whether i is still to be delivered, and the workers that will merge it: they
\* have it in their batch, or will find it in the batch they were given before
\* they lost the lease.
Due(i) == IF \E p \in Partition : Ahead(p, Delivered(p), i) THEN 1 ELSE 0
Merging(i) ==
  {w \in Worker : \/ i \in job[w].batch
                  \/ pc[w] = "batch" /\ owner[PartOf[w]] # w /\ Ahead(PartOf[w], pos[w], i)}

\* The inductive invariant behind StoredOncePerDelivery: each fault causes one
\* more delivery.
CountInv ==
  \A i \in Item :
    /\ IsFiniteSet(Merging(i))
    /\ blob.content[i] + Cardinality(Merging(i)) + Due(i) <= 1 + faults

LEMMA UpToItems ==
  ASSUME NEW p \in Partition, NEW n \in Nat, n <= Len(Messages[p])
  PROVE  UpTo(p, n) \subseteq Item
<1> SUFFICES ASSUME NEW k \in 1..n PROVE ItemsOf(Messages[p][k]) \subseteq Item
  BY DEF UpTo
<1>1. Messages[p] \in Seq(Seq(Item)) /\ k \in 1..Len(Messages[p])
  BY Lens
<1>2. PICK m : m = Messages[p][k]
  OBVIOUS
<1>3. m \in Seq(Item)
  BY <1>1, <1>2
<1> QED
  BY <1>2, <1>3 DEF ItemsOf

LEMMA UpToNext ==
  ASSUME NEW p \in Partition, NEW n \in Nat
  PROVE  UpTo(p, n + 1) \subseteq UpTo(p, n) \cup ItemsOf(Messages[p][n + 1])
<1>1. 1..(n + 1) \subseteq 1..n \cup {n + 1}
  OBVIOUS
<1> QED
  BY <1>1 DEF UpTo

-----------------------------------------------------------------------------
(* KeptInv is inductive as long as no upload is blind.                     *)

\* What a successful upload keeps, and what it adds of its batch.
LEMMA StoresKept ==
  ASSUME IInv, Held, NoBlindUpload, NEW w \in Writer, NEW j, NEW l, Stores(w, j, l),
         NEW i \in Item, Kept(i) \/ i \in j.batch
  PROVE  Kept(i)'
<1>1. /\ j.data = blob.content /\ j \in Job /\ ~Unsound(j)
      /\ blob'.content = Merged(j) /\ discarded' = discarded
      /\ deleted' = deleted \cup {k \in Item : Loc[k] \in j.drop}
  BY UploadData DEF Stores
<1>2. \A k \in Item : j.data[k] \in Nat
  BY <1>1 DEF Job, Content
<1>3. \A k \in Item : blob'.content[k] = IF Loc[k] \in j.drop THEN 0
                        ELSE j.data[k] + (IF k \in Good(j.batch) THEN 1 ELSE 0)
  BY <1>1 DEF Merged
<1>4. CASE Loc[i] \in j.drop
  BY <1>1, <1>4 DEF Kept
<1>5. CASE Loc[i] \notin j.drop
  <2>1. CASE j.data[i] > 0
    BY <1>2, <1>3, <1>5, <2>1 DEF Kept
  <2>2. CASE i \in discarded \/ i \in deleted
    BY <1>1, <2>2 DEF Kept
  <2>3. CASE Kind[i] = "noJerks" /\ Known(Loc[i], j.data)
    <3>1. PICK k \in Item : Loc[k] = Loc[i] /\ j.data[k] > 0
      BY <2>3 DEF Known
    <3>2. blob'.content[k] > 0
      BY <1>2, <1>3, <1>5, <3>1
    <3> QED
      BY <2>3, <3>1, <3>2 DEF Kept, Known
  <2>4. CASE i \in j.batch
    <3>1. Kind[i] # "blank" /\ (Kind[i] = "noJerks" => Known(Loc[i], j.data))
      BY <1>1, <2>4 DEF Unsound
    <3>2. Kind[i] # "noDevice"
      BY <2>4 DEF Stores, Held, LocalOK
    <3>3. CASE Kind[i] = "good"
      <4>1. i \in Good(j.batch)
        BY <2>4, <3>3 DEF Good
      <4> QED
        BY <1>2, <1>3, <1>5, <4>1 DEF Kept
    <3> QED
      BY <2>3, <3>1, <3>2, <3>3
  <2> QED
    BY <1>1, <2>1, <2>2, <2>3, <2>4 DEF Kept
<1> QED
  BY <1>4, <1>5

\* No step takes back what is kept.
LEMMA KeptStays ==
  ASSUME IInv, Held, NoBlindUpload, [Next]_vars, NEW i \in Item, Kept(i)
  PROVE  Kept(i)'
<1>1. CASE blob' = blob /\ deleted' = deleted /\ discarded \subseteq discarded'
  BY <1>1 DEF Kept
<1>2. CASE \E w \in Writer : \E j, l : Stores(w, j, l)
  BY <1>2, StoresKept
<1>3. ASSUME NEW w \in Writer, Upload(w)
      PROVE  \/ \E j, l : Stores(w, j, l)
             \/ blob' = blob /\ deleted' = deleted /\ discarded \subseteq discarded'
  BY <1>3, UploadSteps DEF Throw
<1>4. ASSUME NEW w \in Writer, Exists(w) \/ Download(w) \/ FetchEtag(w)
      PROVE  blob' = blob /\ deleted' = deleted /\ discarded \subseteq discarded'
  BY <1>4 DEF Exists, Download, FetchEtag, Read, Throw
<1>5. ASSUME NEW w \in Worker, Work(w) \/ Crash(w)
      PROVE  blob' = blob /\ deleted' = deleted /\ discarded \subseteq discarded'
  BY <1>5 DEF Work, Open, Take, Save, Checkpoint, Close, Crash
<1> QED
  BY <1>1, <1>2, <1>3, <1>4, <1>5 DEF Next, Store, LoseLease, Delete, vars

\* A writer that moves without receiving anything claims what it did before,
\* unless it drops items of its batch that are not kept.
LEMMA MoveKept ==
  ASSUME IInv, KeptInv, UNCHANGED <<owner, checkpoint, pos>>,
         \A i \in Item : Kept(i) => Kept(i)',
         NEW w \in Writer, NEW l, NEW j, Set(w, l, j),
         \A i \in Item : i \in job[w].batch => i \in j.batch \/ Kept(i)'
  PROVE  KeptInv'
<1>1. \A v \in Writer : job'[v] = IF v = w THEN j ELSE job[v]
  BY DEF Set, IInv
<1>2. ASSUME NEW p \in Partition, NEW i \in UpTo(p, checkpoint'[p]) PROVE Kept(i)'
  <2>1. Kept(i)
    BY <1>2 DEF KeptInv
  <2>2. i \in Item
    BY <1>2, UpToItems DEF IInv, StoreOK
  <2> QED
    BY <2>1, <2>2
<1>3. ASSUME NEW v \in Worker, owner'[PartOf[v]] = v, NEW i \in UpTo(PartOf[v], pos'[v])
      PROVE  Kept(i)' \/ i \in job'[v].batch
  <2>1. Kept(i) \/ i \in job[v].batch
    BY <1>3 DEF KeptInv, Brought
  <2>2. i \in Item
    BY <1>3, UpToItems DEF IInv, StoreOK
  <2> QED
    BY <1>1, <2>1, <2>2 DEF Writer
<1> QED
  BY <1>2, <1>3 DEF KeptInv, Brought, UpTo

LEMMA InitKept == Init => KeptInv
<1> SUFFICES ASSUME Init PROVE KeptInv
  OBVIOUS
<1>1. \A p : UpTo(p, 0) = {}
  BY DEF UpTo
<1> QED
  BY <1>1 DEF Init, KeptInv, Brought

LEMMA KeptStep ==
  ASSUME IInv, Held, NoBlindUpload, KeptInv, [Next]_vars
  PROVE  KeptInv'
<1>0. \A i \in Item : Kept(i) => Kept(i)'
  BY KeptStays
<1>a. ASSUME NEW p \in Partition PROVE UpTo(p, checkpoint[p]) \subseteq Item
  BY UpToItems DEF IInv, StoreOK
<1>b. ASSUME NEW w \in Worker PROVE UpTo(PartOf[w], pos[w]) \subseteq Item
  BY UpToItems DEF IInv, StoreOK
<1>c. ASSUME NEW p \in Partition, NEW i \in UpTo(p, checkpoint[p]) PROVE Kept(i)'
  BY <1>0, <1>a DEF KeptInv
\* A worker whose lease, position and batch are as they were.
<1>d. ASSUME NEW v \in Worker, owner[PartOf[v]] = v, pos'[v] = pos[v],
             job'[v].batch = job[v].batch, NEW i \in UpTo(PartOf[v], pos'[v])
      PROVE  Kept(i)' \/ i \in job'[v].batch
  BY <1>0, <1>b, <1>d DEF KeptInv, Brought
<1>1. CASE UNCHANGED vars
  BY <1>1, <1>c, <1>d DEF vars, KeptInv, Brought
<1>2. ASSUME NEW p \in Partition, LoseLease(p) PROVE KeptInv'
  <2>1. \A v \in Worker : owner'[PartOf[v]] = v => owner[PartOf[v]] = v
    BY <1>2 DEF LoseLease, IInv, StoreOK
  <2> QED
    BY <1>2, <1>c, <1>d, <2>1 DEF LoseLease, KeptInv, Brought
<1>3. ASSUME NEW w \in Worker, Open(w) PROVE KeptInv'
  <2>1. \A v \in Worker \ {w} : /\ owner'[PartOf[v]] = v => owner[PartOf[v]] = v
                                /\ pos'[v] = pos[v] /\ job'[v] = job[v]
    BY <1>3 DEF Open, Set, IInv, StoreOK, Writer
  <2>2. pos'[w] = checkpoint[PartOf[w]] /\ PartOf[w] \in Partition
    BY <1>3 DEF Open, IInv, StoreOK
  <2> QED
    BY <1>3, <1>c, <1>d, <2>1, <2>2 DEF Open, KeptInv, Brought
<1>4. ASSUME NEW w \in Worker, Take(w) PROVE KeptInv'
  <2>1. PICK p \in Partition, n \in Nat, m \in Seq(Item), taken \in SUBSET Item :
          /\ p = PartOf[w] /\ n = pos[w] /\ n + 1 \in DOMAIN Messages[p]
          /\ m = Messages[p][n + 1]
          /\ taken = Taken(m, job[w].batch)
          /\ taken \subseteq ItemsOf(m) /\ ItemsOf(m) \subseteq Item
          /\ pos' = [pos EXCEPT ![w] = n + 1]
          /\ Set(w, "batch", [job[w] EXCEPT !.batch = @ \cup taken])
          /\ discarded' = discarded \cup (ItemsOf(m) \ taken)
    BY <1>4, NextMessage
  <2>2. job[w] \in Job
    BY DEF IInv, Writer
  <2>3. job'[w].batch = job[w].batch \cup taken /\ pos'[w] = n + 1
    BY <2>1, <2>2 DEF Set, IInv, StoreOK, Writer, Job
  <2>4. \A v \in Worker \ {w} : pos'[v] = pos[v] /\ job'[v] = job[v]
    BY <2>1 DEF Set, IInv, StoreOK, Writer
  <2>5. ASSUME owner[p] = w, NEW i \in UpTo(p, n + 1)
        PROVE  Kept(i)' \/ i \in job'[w].batch
    <3>1. CASE i \in UpTo(p, n)
      <4>1. Kept(i) \/ i \in job[w].batch
        BY <2>1, <2>5, <3>1 DEF KeptInv, Brought
      <4> QED
        BY <1>0, <1>b, <2>1, <2>3, <3>1, <4>1
    <3>2. CASE i \in ItemsOf(m)
      BY <2>1, <2>3, <3>2 DEF Kept
    <3> QED
      BY <2>1, <3>1, <3>2, UpToNext
  <2>6. owner' = owner /\ checkpoint' = checkpoint
    BY <1>4 DEF Take
  <2> QED
    BY <1>c, <1>d, <2>1, <2>3, <2>4, <2>5, <2>6 DEF KeptInv, Brought
<1>5. ASSUME NEW w \in Worker, Checkpoint(w) PROVE KeptInv'
  <2>1. LocalOK(w, "checkpoint", job[w])
    BY <1>5 DEF Checkpoint, Held, Writer
  <2>2. job[w].batch = {}
    BY <2>1 DEF LocalOK
  <2>3. CASE checkpoint' = checkpoint
    BY <1>0, <1>5, <2>2, <2>3, MoveKept DEF Checkpoint, Writer
  <2>4. CASE owner[PartOf[w]] = w /\ checkpoint' = [checkpoint EXCEPT ![PartOf[w]] = pos[w]]
    <3>1. \A i \in UpTo(PartOf[w], pos[w]) : Kept(i)'
      BY <1>0, <1>b, <2>2, <2>4 DEF KeptInv, Brought
    <3>2. \A p \in Partition : checkpoint'[p] = IF p = PartOf[w] THEN pos[w] ELSE checkpoint[p]
      BY <2>4 DEF IInv, StoreOK
    <3>3. \A v \in Worker \ {w} : job'[v] = job[v]
      BY <1>5 DEF Checkpoint, Set, IInv, Writer
    <3> QED
      BY <1>5, <1>c, <1>d, <3>1, <3>2, <3>3 DEF Checkpoint, KeptInv, Brought
  <2> QED
    BY <1>5, <2>3, <2>4 DEF Checkpoint
<1>6. ASSUME NEW w \in Worker, Save(w) PROVE KeptInv'
  <2>1. PICK l : Set(w, l, job[w])
    BY <1>6 DEF Save
  <2> QED
    BY <1>0, <1>6, <2>1, MoveKept DEF Save, Writer
<1>7. ASSUME NEW w \in Worker, Close(w) PROVE KeptInv'
  <2>1. LocalOK(w, "waiting", job[w])
    BY <1>7 DEF Close, Held, Writer
  <2> QED
    BY <1>0, <1>7, <2>1, MoveKept DEF Close, LocalOK, Writer
<1>8. ASSUME NEW w \in Worker, Crash(w) PROVE KeptInv'
  <2>1. \A v \in Worker \ {w} : /\ owner'[PartOf[v]] = v => owner[PartOf[v]] = v
                                /\ pos'[v] = pos[v] /\ job'[v] = job[v]
    BY <1>8 DEF Crash, Set, IInv, StoreOK, Writer
  <2>2. owner'[PartOf[w]] # w
    BY <1>8 DEF Crash, IInv, StoreOK
  <2> QED
    BY <1>8, <1>c, <1>d, <2>1, <2>2 DEF Crash, KeptInv, Brought
<1>9. ASSUME NEW e \in Editor, Delete(e) PROVE KeptInv'
  <2>1. PICK j : Set(e, "exists", j)
    BY <1>9 DEF Delete
  <2>2. LocalOK(e, "idle", job[e])
    BY <1>9 DEF Delete, Held, Writer
  <2> QED
    BY <1>0, <1>9, <2>1, <2>2, MoveKept DEF Delete, LocalOK, Writer
<1>10. ASSUME NEW w \in Writer, Throw(w) PROVE KeptInv'
  <2>1. PICK l : Set(w, l, NoJob)
    BY <1>10 DEF Throw
  <2>2. \A i \in job[w].batch : Kept(i)'
    BY <1>10 DEF Throw, Kept
  <2> QED
    BY <1>0, <1>10, <2>1, <2>2, MoveKept DEF Throw
<1>11. ASSUME NEW w \in Writer, NEW l, NEW j, Read(w, l, j), j.batch = job[w].batch
       PROVE  KeptInv'
  BY <1>0, <1>11, MoveKept DEF Read
<1>12. ASSUME NEW w \in Writer, Exists(w) \/ Download(w) \/ FetchEtag(w) PROVE KeptInv'
  <2>1. PICK k \in Job : k = job[w]
    BY DEF IInv
  <2>2. /\ [k EXCEPT !.data = blob.content].batch = k.batch
        /\ [k EXCEPT !.data = blob.content, !.read = blob.etag].batch = k.batch
        /\ [k EXCEPT !.etag = blob.etag].batch = k.batch
    BY DEF Job
  <2> QED
    BY <1>10, <1>11, <1>12, <2>1, <2>2 DEF Exists, Download, FetchEtag
<1>13. ASSUME NEW w \in Writer, NEW j, NEW l, Stores(w, j, l) PROVE KeptInv'
  <2>1. \A i \in Item : i \in job[w].batch => Kept(i)'
    BY <1>13, StoresKept DEF Stores
  <2> QED
    BY <1>0, <1>13, <2>1, MoveKept DEF Stores
<1> QED
  BY <1>1, <1>2, <1>3, <1>4, <1>5, <1>6, <1>7, <1>8, <1>9, <1>10, <1>12, <1>13, UploadSteps
  DEF Next, Work, Store

\* Whatever workers, users, lost leases, crashes and failures there are, an item
\* of a message that will not be delivered again is stored, or was given up with
\* an exception or deleted by a user, as long as no upload overwrites a version it
\* has not read.
THEOREM StoredUnlessBlind == Spec /\ []NoBlindUpload => []CheckpointedStored
<1>1. Init => IInv /\ Held /\ KeptInv
  BY InitInv, InitHeld, InitKept
<1>2. IInv /\ Held /\ KeptInv /\ NoBlindUpload /\ [Next]_vars => (IInv /\ Held /\ KeptInv)'
  BY NextInv, HeldStep, KeptStep
<1>3. KeptInv => CheckpointedStored
  BY DEF KeptInv, Kept, CheckpointedStored, Checkpointed, Settled, UpTo
<1> QED
  BY <1>1, <1>2, <1>3, PTL DEF Spec

-----------------------------------------------------------------------------
(* CountInv is inductive as long as no upload is blind.                    *)

LEMMA InitCount == Init => CountInv
<1> SUFFICES ASSUME Init, NEW i \in Item
             PROVE  /\ IsFiniteSet(Merging(i))
                    /\ blob.content[i] + Cardinality(Merging(i)) + Due(i) <= 1 + faults
  BY DEF CountInv
<1>1. Merging(i) = {}
  BY DEF Init, Merging, NoJob, Writer
<1>2. blob.content[i] = 0 /\ faults = 0
  BY DEF Init, Nothing
<1>3. Due(i) \in {0, 1}
  BY DEF Due
<1> QED
  BY <1>1, <1>2, <1>3, FS_EmptySet

\* What a step may do to the count of one item.
Counted(i, w) ==
  \/ /\ Merging(i)' \subseteq Merging(i)
     /\ blob'.content[i] + Due(i)' + faults <= blob.content[i] + Due(i) + faults'
  \/ /\ Merging(i)' \subseteq Merging(i) \cup {w}
     /\ blob'.content[i] + Due(i)' + 1 + faults <= blob.content[i] + Due(i) + faults'
  \/ /\ w \in Merging(i) /\ Merging(i)' \subseteq Merging(i) \ {w}
     /\ blob'.content[i] + Due(i)' + faults <= blob.content[i] + Due(i) + 1 + faults'

LEMMA CountedInv ==
  ASSUME IInv, IInv', CountInv, NEW w, \A i \in Item : Counted(i, w)
  PROVE  CountInv'
<1> SUFFICES ASSUME NEW i \in Item
             PROVE  /\ IsFiniteSet(Merging(i)')
                    /\ blob'.content[i] + Cardinality(Merging(i)') + Due(i)' <= 1 + faults'
  BY DEF CountInv
<1>1. /\ blob.content[i] \in Nat /\ blob'.content[i] \in Nat
      /\ faults \in Nat /\ faults' \in Nat
  BY DEF IInv, StoreOK, Content
<1>2. Due(i) \in Nat /\ Due(i)' \in Nat
  BY DEF Due
<1>3. PICK H, G : H = Merging(i) /\ G = Merging(i)'
  OBVIOUS
<1>4. PICK c, d, f : c = blob.content[i] /\ d = Due(i) /\ f = faults
  OBVIOUS
<1>5. PICK c2, d2, f2 : c2 = blob'.content[i] /\ d2 = Due(i)' /\ f2 = faults'
  OBVIOUS
<1>6. c \in Nat /\ d \in Nat /\ f \in Nat /\ c2 \in Nat /\ d2 \in Nat /\ f2 \in Nat
  BY <1>1, <1>2, <1>4, <1>5
<1>7. IsFiniteSet(H) /\ c + Cardinality(H) + d <= 1 + f
  BY <1>3, <1>4 DEF CountInv
<1>8. \/ G \subseteq H /\ c2 + d2 + f <= c + d + f2
      \/ G \subseteq H \cup {w} /\ c2 + d2 + 1 + f <= c + d + f2
      \/ w \in H /\ G \subseteq H \ {w} /\ c2 + d2 + f <= c + d + 1 + f2
  BY <1>3, <1>4, <1>5 DEF Counted
<1>9. Cardinality(H) \in Nat
  BY <1>7, FS_CardinalityType
<1>10. ASSUME G \subseteq H /\ c2 + d2 + f <= c + d + f2
       PROVE  IsFiniteSet(G) /\ c2 + Cardinality(G) + d2 <= 1 + f2
  <2>1. IsFiniteSet(G) /\ Cardinality(G) <= Cardinality(H)
    BY <1>7, <1>10, FS_Subset
  <2>2. Cardinality(G) \in Nat
    BY <2>1, FS_CardinalityType
  <2> QED
    BY <1>6, <1>7, <1>9, <1>10, <2>1, <2>2
<1>11. ASSUME G \subseteq H \cup {w} /\ c2 + d2 + 1 + f <= c + d + f2
       PROVE  IsFiniteSet(G) /\ c2 + Cardinality(G) + d2 <= 1 + f2
  <2>1. IsFiniteSet(H \cup {w}) /\ Cardinality(H \cup {w}) \in {Cardinality(H), Cardinality(H) + 1}
    BY <1>7, FS_AddElement
  <2>2. IsFiniteSet(G) /\ Cardinality(G) <= Cardinality(H \cup {w})
    BY <1>11, <2>1, FS_Subset
  <2>3. Cardinality(G) \in Nat
    BY <2>2, FS_CardinalityType
  <2> QED
    BY <1>6, <1>7, <1>9, <1>11, <2>1, <2>2, <2>3
<1>12. ASSUME w \in H /\ G \subseteq H \ {w} /\ c2 + d2 + f <= c + d + 1 + f2
       PROVE  IsFiniteSet(G) /\ c2 + Cardinality(G) + d2 <= 1 + f2
  <2>1. IsFiniteSet(H \ {w}) /\ Cardinality(H \ {w}) = Cardinality(H) - 1
    BY <1>7, <1>12, FS_RemoveElement
  <2>2. IsFiniteSet(G) /\ Cardinality(G) <= Cardinality(H \ {w})
    BY <1>12, <2>1, FS_Subset
  <2>3. Cardinality(G) \in Nat
    BY <2>2, FS_CardinalityType
  <2> QED
    BY <1>6, <1>7, <1>9, <1>12, <2>1, <2>2, <2>3
<1>13. IsFiniteSet(G) /\ c2 + Cardinality(G) + d2 <= 1 + f2
  BY <1>8, <1>10, <1>11, <1>12
<1> QED
  BY <1>3, <1>5, <1>13

\* A step of a writer that receives nothing and stores nothing.
LEMMA MoveCounted ==
  ASSUME IInv, IInv', UNCHANGED <<blob, owner, checkpoint, pos>>, faults' >= faults,
         NEW w \in Writer, NEW l, NEW j, Set(w, l, j),
         j.batch \subseteq job[w].batch, l # "batch", NEW i \in Item
  PROVE  Counted(i, w)
<1>1. \A v \in Writer : pc'[v] = (IF v = w THEN l ELSE pc[v]) /\ job'[v] = (IF v = w THEN j ELSE job[v])
  BY DEF Set, IInv
<1>2. Merging(i)' \subseteq Merging(i)
  BY <1>1 DEF Merging, Ahead, Writer
<1>3. Due(i)' = Due(i)
  BY DEF Due, Delivered, Ahead
<1>4. blob'.content[i] \in Nat /\ Due(i) \in Nat /\ faults \in Nat /\ faults' \in Nat
  BY DEF IInv, StoreOK, Content, Due
<1> QED
  BY <1>2, <1>3, <1>4 DEF Counted

LEMMA Numbers ==
  ASSUME IInv, NEW i \in Item
  PROVE  blob.content[i] \in Nat /\ faults \in Nat /\ Due(i) \in {0, 1}
BY DEF IInv, StoreOK, Content, Due

\* A step that stores nothing may have an item delivered again after a fault, and
\* hands it to its worker when it was due.
LEMMA FaultCounted ==
  ASSUME IInv, IInv', blob' = blob, faults' = faults + 1, NEW w, NEW i \in Item,
         \/ Merging(i)' \subseteq Merging(i)
         \/ Merging(i)' \subseteq Merging(i) \cup {w} /\ Due(i) = 1
  PROVE  Counted(i, w)
<1>1. PICK c, d : c = blob.content[i] /\ d = Due(i)
  OBVIOUS
<1>2. PICK e, f : e = Due(i)' /\ f = faults
  OBVIOUS
<1>3. c \in Nat /\ f \in Nat /\ d \in {0, 1} /\ e \in {0, 1}
  BY <1>1, <1>2 DEF IInv, StoreOK, Content, Due
<1>4. /\ c + e + f <= c + d + (f + 1)
      /\ d = 1 => c + e + 1 + f <= c + d + (f + 1)
  BY <1>3
<1> QED
  BY <1>1, <1>2, <1>4 DEF Counted

LEMMA TurnCounted ==
  ASSUME IInv, IInv', blob' = blob, faults' = faults, NEW w, NEW i \in Item,
         \/ Merging(i)' \subseteq Merging(i) /\ (Due(i)' = Due(i) \/ Due(i)' = 0)
         \/ Merging(i)' \subseteq Merging(i) \cup {w} /\ Due(i) = 1 /\ Due(i)' = 0
  PROVE  Counted(i, w)
<1>1. PICK c, d : c = blob.content[i] /\ d = Due(i)
  OBVIOUS
<1>2. PICK e, f : e = Due(i)' /\ f = faults
  OBVIOUS
<1>3. c \in Nat /\ f \in Nat /\ d \in {0, 1} /\ e \in {0, 1}
  BY <1>1, <1>2 DEF IInv, StoreOK, Content, Due
<1>4. /\ e = d \/ e = 0 => c + e + f <= c + d + f
      /\ d = 1 /\ e = 0 => c + e + 1 + f <= c + d + f
  BY <1>3
<1> QED
  BY <1>1, <1>2, <1>4 DEF Counted

\* A fault may cause a delivery.
LEMMA LoseLeaseCounted ==
  ASSUME IInv, IInv', Held, NEW p \in Partition, LoseLease(p), NEW i \in Item
  PROVE  Counted(i, owner[p])
<1>1. PICK v \in Worker : v = owner[p] /\ PartOf[v] = p
  BY DEF LoseLease, IInv, StoreOK, Held, Leases
<1>2. /\ UNCHANGED <<blob, pos, pc, job>> /\ faults' = faults + 1
      /\ \A q \in Partition : owner'[q] = IF q = p THEN NoWorker ELSE owner[q]
  BY DEF LoseLease, Fault, IInv, StoreOK
<1>3. \A u \in Worker \ {v} : u \in Merging(i)' => u \in Merging(i)
  BY <1>1, <1>2 DEF Merging, Ahead
<1>4. CASE Ahead(p, pos[v], i)
  <2>1. Delivered(p) = pos[v]
    BY <1>1 DEF Delivered
  <2>2. Due(i) = 1
    BY <1>4, <2>1 DEF Due
  <2>3. Merging(i)' \subseteq Merging(i) \cup {v}
    BY <1>3 DEF Merging
  <2> QED
    BY <1>1, <1>2, <2>2, <2>3, FaultCounted
<1>5. CASE ~Ahead(p, pos[v], i)
  <2>1. v \in Merging(i)' => v \in Merging(i)
    BY <1>1, <1>2, <1>5 DEF Merging, Ahead
  <2>2. Merging(i)' \subseteq Merging(i)
    BY <1>3, <2>1 DEF Merging
  <2> QED
    BY <1>2, <2>2, FaultCounted
<1> QED
  BY <1>4, <1>5

LEMMA OpenCounted ==
  ASSUME IInv, IInv', Held, NEW w \in Worker, Open(w), NEW i \in Item
  PROVE  Counted(i, w)
<1>1. PICK p \in Partition : p = PartOf[w] /\ owner[p] = NoWorker
  BY DEF Open, IInv, StoreOK
<1>2. /\ UNCHANGED <<blob, checkpoint, faults>>
      /\ \A q \in Partition : owner'[q] = IF q = p THEN w ELSE owner[q]
      /\ \A v \in Worker : pos'[v] = IF v = w THEN checkpoint[p] ELSE pos[v]
      /\ \A v \in Worker \ {w} : pc'[v] = pc[v] /\ job'[v] = job[v]
      /\ pc'[w] = "waiting" /\ job'[w].batch = {}
  BY <1>1 DEF Open, Set, NoJob, IInv, StoreOK, Writer
<1>3. \A q \in Partition : Delivered(q)' = Delivered(q)
  <2>1. \A q \in Partition \ {p} : owner[q] # w
    BY <1>1 DEF Held, Leases
  <2> QED
    BY <1>1, <1>2, <2>1 DEF Delivered, IInv, StoreOK
<1>4. Due(i)' = Due(i)
  BY <1>3 DEF Due, Ahead
<1>5. w \notin Merging(i)'
  BY <1>2 DEF Merging
<1>6. ASSUME NEW u \in Worker \ {w}, owner'[PartOf[u]] # u PROVE owner[PartOf[u]] # u
  BY <1>1, <1>2, <1>6 DEF IInv, StoreOK
<1>7. \A u \in Worker \ {w} : u \in Merging(i)' => u \in Merging(i)
  BY <1>2, <1>6 DEF Merging, Ahead
<1>8. Merging(i)' \subseteq Merging(i)
  BY <1>5, <1>7 DEF Merging
<1> QED
  BY <1>2, <1>4, <1>8, TurnCounted

LEMMA TakeCounted ==
  ASSUME DistinctMessages, IInv, IInv', Held, NEW w \in Worker, Take(w), NEW i \in Item
  PROVE  Counted(i, w)
<1>1. PICK p \in Partition, n \in Nat, m \in Seq(Item), taken \in SUBSET Item :
        /\ p = PartOf[w] /\ n = pos[w] /\ n + 1 \in DOMAIN Messages[p]
        /\ m = Messages[p][n + 1]
        /\ taken = Taken(m, job[w].batch)
        /\ taken \subseteq ItemsOf(m) /\ ItemsOf(m) \subseteq Item
        /\ pos' = [pos EXCEPT ![w] = n + 1]
        /\ Set(w, "batch", [job[w] EXCEPT !.batch = @ \cup taken])
        /\ discarded' = discarded \cup (ItemsOf(m) \ taken)
  BY NextMessage
<1>2. job[w] \in Job
  BY DEF IInv, Writer
<1>3. /\ UNCHANGED <<blob, owner, checkpoint, faults>>
      /\ \A v \in Worker : pos'[v] = IF v = w THEN n + 1 ELSE pos[v]
      /\ \A v \in Worker \ {w} : pc'[v] = pc[v] /\ job'[v] = job[v]
      /\ pc'[w] = "batch" /\ job'[w].batch = job[w].batch \cup taken
  BY <1>1, <1>2 DEF Take, Set, Job, IInv, StoreOK, Writer
<1>4. \A v \in Worker \ {w} : v \in Merging(i)' => v \in Merging(i)
  BY <1>3 DEF Merging, Ahead
<1>5. \A q \in Partition : Delivered(q)' = IF q = p /\ owner[p] = w THEN n + 1 ELSE Delivered(q)
  <2>1. \A q \in Partition \ {p} : owner[q] # w
    BY <1>1 DEF Held, Leases
  <2> QED
    BY <1>3, <2>1 DEF Delivered, IInv, StoreOK
<1>6. owner[p] # w => pc[w] = "batch"
  BY <1>1 DEF Take
<1>7. \A q, k : Ahead(q, k, i)' <=> Ahead(q, k, i)
  BY DEF Ahead
<1>8. CASE i \in ItemsOf(m)
  <2>1. \A q \in Partition : \A k \in DOMAIN Messages[q] :
          i \in ItemsOf(Messages[q][k]) => q = p /\ k = n + 1
    BY <1>1, <1>8 DEF DistinctMessages
  <2>2. Ahead(p, n, i)
    BY <1>1, <1>8 DEF Ahead
  <2>3. CASE owner[p] = w
    <3>1. Delivered(p) = n
      BY <1>1, <2>3 DEF Delivered
    <3>2. Due(i) = 1
      BY <2>2, <3>1 DEF Due
    <3>3. \A q \in Partition : ~Ahead(q, Delivered(q)', i)
      <4> SUFFICES ASSUME NEW q \in Partition, Ahead(q, Delivered(q)', i) PROVE FALSE
        OBVIOUS
      <4>1. PICK k \in DOMAIN Messages[q] : k > Delivered(q)' /\ i \in ItemsOf(Messages[q][k])
        BY DEF Ahead
      <4>2. q = p /\ k = n + 1
        BY <2>1, <4>1
      <4>3. Delivered(q)' = n + 1
        BY <1>5, <2>3, <4>2
      <4> QED
        BY <4>1, <4>2, <4>3
    <3>4. Due(i)' = 0
      BY <1>7, <3>3 DEF Due
    <3>5. Merging(i)' \subseteq Merging(i) \cup {w}
      BY <1>4 DEF Merging
    <3> QED
      BY <1>3, <3>2, <3>4, <3>5, TurnCounted
  <2>4. CASE owner[p] # w
    <3>1. w \in Merging(i)
      BY <1>1, <1>6, <2>2, <2>4 DEF Merging
    <3>2. Merging(i)' \subseteq Merging(i)
      BY <1>4, <3>1 DEF Merging
    <3>3. Due(i)' = Due(i)
      BY <1>5, <1>7, <2>4 DEF Due
    <3> QED
      BY <1>3, <3>2, <3>3, TurnCounted
  <2> QED
    BY <2>3, <2>4
<1>9. CASE i \notin ItemsOf(m)
  <2>1. Ahead(p, n + 1, i) => Ahead(p, n, i)
    <3> SUFFICES ASSUME NEW k \in DOMAIN Messages[p], k > n + 1, i \in ItemsOf(Messages[p][k])
                 PROVE  Ahead(p, n, i)
      BY DEF Ahead
    <3>1. k \in Nat
      BY Lens
    <3>2. k > n
      BY <3>1
    <3> QED
      BY <3>2 DEF Ahead
  <2>2. w \in Merging(i)' => w \in Merging(i)
    BY <1>1, <1>3, <1>6, <1>7, <1>9, <2>1 DEF Merging
  <2>3. Merging(i)' \subseteq Merging(i)
    BY <1>4, <2>2 DEF Merging
  <2>4. \A q \in Partition : Ahead(q, Delivered(q)', i) => Ahead(q, Delivered(q), i)
    BY <1>1, <1>5, <2>1 DEF Delivered
  <2>5. Due(i)' = Due(i) \/ Due(i)' = 0
    BY <1>7, <2>4 DEF Due
  <2> QED
    BY <1>3, <2>3, <2>5, TurnCounted
<1> QED
  BY <1>8, <1>9

LEMMA CheckpointCounted ==
  ASSUME IInv, IInv', Held, NEW w \in Worker, Checkpoint(w), NEW i \in Item
  PROVE  Counted(i, w)
<1>1. /\ UNCHANGED <<blob, owner, pos>> /\ faults' \in {faults, faults + 1}
      /\ \A v \in Worker \ {w} : pc'[v] = pc[v] /\ job'[v] = job[v]
      /\ pc'[w] = "waiting" /\ job'[w].batch = {}
  BY DEF Checkpoint, Fault, Set, NoJob, IInv, Writer
<1>2. \A p \in Partition : checkpoint'[p] = checkpoint[p] \/ owner[p] = w
  BY DEF Checkpoint, IInv, StoreOK
<1>3. \A p \in Partition : Delivered(p)' = Delivered(p)
  BY <1>1, <1>2 DEF Delivered
<1>4. Due(i)' = Due(i)
  BY <1>3 DEF Due, Ahead
<1>5. Merging(i)' \subseteq Merging(i)
  BY <1>1 DEF Merging, Ahead
<1> QED
  BY <1>1, <1>4, <1>5, TurnCounted, FaultCounted

LEMMA CrashCounted ==
  ASSUME IInv, IInv', Held, NEW w \in Worker, Crash(w), NEW i \in Item
  PROVE  Counted(i, w)
<1>1. /\ UNCHANGED <<blob, pos>> /\ faults' = faults + 1
      /\ \A v \in Worker \ {w} : pc'[v] = pc[v] /\ job'[v] = job[v]
      /\ pc'[w] = "closed" /\ job'[w].batch = {}
      /\ \A p \in Partition : owner'[p] = owner[p] \/ (owner[p] = w /\ owner'[p] = NoWorker)
  BY DEF Crash, Fault, Set, NoJob, IInv, StoreOK, Writer
<1>2. \A v \in Worker \ {w} : owner'[PartOf[v]] # v => owner[PartOf[v]] # v
  BY <1>1
<1>3. Merging(i)' \subseteq Merging(i)
  BY <1>1, <1>2 DEF Merging, Ahead
<1> QED
  BY <1>1, <1>3, FaultCounted

\* A successful upload stores each item of its batch once.
LEMMA StoresCounted ==
  ASSUME IInv, IInv', Held, NoBlindUpload,
         NEW w \in Writer, NEW j, NEW l, Stores(w, j, l), NEW i \in Item
  PROVE  Counted(i, w)
<1>1. j.data = blob.content
  BY UploadData
<1>2. /\ UNCHANGED <<owner, checkpoint, pos, faults>>
      /\ blob'.content = Merged(j) /\ j = job[w] /\ j \in Job
      /\ \A v \in Writer \ {w} : pc'[v] = pc[v] /\ job'[v] = job[v]
      /\ pc'[w] # "batch" /\ job'[w].batch = {}
  BY DEF Stores, Set, NoJob, IInv
<1>3. Due(i)' = Due(i)
  BY <1>2 DEF Due, Delivered, Ahead
<1>4. Merging(i)' \subseteq Merging(i) \ {w}
  BY <1>2 DEF Merging, Ahead, Writer
<1>5. CASE i \in j.batch
  <2>1. w \in Worker
    BY <1>2, <1>5 DEF Held, LocalOK
  <2>2. w \in Merging(i)
    BY <1>2, <1>5, <2>1 DEF Merging
  <2>3. blob'.content[i] <= blob.content[i] + 1
    BY <1>1, <1>2, Numbers DEF Merged
  <2>4. blob'.content[i] \in Nat
    BY DEF IInv, StoreOK, Content
  <2> QED
    BY <1>2, <1>3, <1>4, <2>2, <2>3, <2>4, Numbers DEF Counted
<1>6. CASE i \notin j.batch
  <2>1. blob'.content[i] <= blob.content[i]
    BY <1>1, <1>2, <1>6, Numbers DEF Merged, Good
  <2>2. blob'.content[i] \in Nat
    BY DEF IInv, StoreOK, Content
  <2> QED
    BY <1>2, <1>3, <1>4, <2>1, <2>2, Numbers DEF Counted
<1> QED
  BY <1>5, <1>6

LEMMA CountStep ==
  ASSUME DistinctMessages, IInv, Held, NoBlindUpload, CountInv, [Next]_vars
  PROVE  CountInv'
<1>0. IInv'
  BY NextInv
<1>1. CASE UNCHANGED vars
  BY <1>1 DEF vars, CountInv, Merging, Due, Delivered, Ahead
<1>2. ASSUME NEW p \in Partition, LoseLease(p) PROVE CountInv'
  BY <1>0, <1>2, LoseLeaseCounted, CountedInv
<1>3. ASSUME NEW w \in Worker, Open(w) PROVE CountInv'
  BY <1>0, <1>3, OpenCounted, CountedInv
<1>4. ASSUME NEW w \in Worker, Take(w) PROVE CountInv'
  BY <1>0, <1>4, TakeCounted, CountedInv
<1>5. ASSUME NEW w \in Worker, Checkpoint(w) PROVE CountInv'
  BY <1>0, <1>5, CheckpointCounted, CountedInv
<1>6. ASSUME NEW w \in Worker, Crash(w) PROVE CountInv'
  BY <1>0, <1>6, CrashCounted, CountedInv
<1>7. ASSUME NEW w \in Writer, NEW l, NEW j, Set(w, l, j), UNCHANGED <<blob, owner, checkpoint, pos>>,
             faults' >= faults, j.batch \subseteq job[w].batch, l # "batch"
      PROVE  CountInv'
  BY <1>0, <1>7, MoveCounted, CountedInv
<1>8. faults \in Nat /\ faults >= faults /\ faults + 1 >= faults
  BY DEF IInv, StoreOK
<1>9. ASSUME NEW w \in Worker, Save(w) \/ Close(w) PROVE CountInv'
  <2>1. PICK l, j : Set(w, l, j) /\ j \in {job[w], NoJob} /\ l # "batch"
    BY <1>9 DEF Save, Close
  <2>2. j.batch \subseteq job[w].batch
    BY <2>1 DEF NoJob
  <2> QED
    BY <1>7, <1>8, <1>9, <2>1, <2>2 DEF Save, Close, Writer
<1>10. ASSUME NEW e \in Editor, Delete(e) PROVE CountInv'
  <2>1. PICK L : Set(e, "exists", [NoJob EXCEPT !.drop = L])
    BY <1>10 DEF Delete
  <2>2. PICK j : j = [NoJob EXCEPT !.drop = L]
    OBVIOUS
  <2>3. j.batch = {}
    BY <2>2 DEF NoJob
  <2> QED
    BY <1>7, <1>8, <1>10, <2>1, <2>2, <2>3 DEF Delete, Writer
<1>11. ASSUME NEW w \in Writer, Throw(w), UNCHANGED faults \/ Fault("save") PROVE CountInv'
  <2>1. PICK l : Set(w, l, NoJob) /\ l # "batch"
    BY <1>11 DEF Throw
  <2>2. NoJob.batch = {} /\ faults' >= faults
    BY <1>8, <1>11 DEF NoJob, Fault
  <2> QED
    BY <1>7, <1>11, <2>1, <2>2 DEF Throw
<1>12. ASSUME NEW w \in Writer, NEW l, NEW j, Read(w, l, j), j.batch = job[w].batch, l # "batch"
       PROVE  CountInv'
  BY <1>7, <1>8, <1>12 DEF Read
<1>13. ASSUME NEW w \in Writer, Exists(w) \/ Download(w) \/ FetchEtag(w) PROVE CountInv'
  <2>1. PICK k \in Job : k = job[w]
    BY DEF IInv
  <2>2. /\ [k EXCEPT !.data = blob.content].batch = k.batch
        /\ [k EXCEPT !.data = blob.content, !.read = blob.etag].batch = k.batch
        /\ [k EXCEPT !.etag = blob.etag].batch = k.batch
    BY DEF Job
  <2> QED
    BY <1>11, <1>12, <1>13, <2>1, <2>2 DEF Exists, Download, FetchEtag
<1>14. ASSUME NEW w \in Writer, NEW j, NEW l, Stores(w, j, l) PROVE CountInv'
  BY <1>0, <1>14, StoresCounted, CountedInv
<1> QED
  BY <1>1, <1>2, <1>3, <1>4, <1>5, <1>6, <1>9, <1>10, <1>11, <1>13, <1>14, UploadSteps
  DEF Next, Work, Store

LEMMA Counts == IInv /\ CountInv => StoredOncePerDelivery
<1> SUFFICES ASSUME IInv, CountInv, NEW i \in Item PROVE blob.content[i] <= 1 + faults
  BY DEF StoredOncePerDelivery
<1>1. IsFiniteSet(Merging(i)) /\ blob.content[i] + Cardinality(Merging(i)) + Due(i) <= 1 + faults
  BY DEF CountInv
<1>2. Cardinality(Merging(i)) \in Nat
  BY <1>1, FS_CardinalityType
<1> QED
  BY <1>1, <1>2, Numbers

\* If every message is an event of its own and no upload is blind, a jerk is
\* stored at most once more than there were faults, whichever they were: a crash,
\* a lost lease or a failed checkpoint has a message delivered once more, and a
\* worker that lost its lease brings in what it still has.
THEOREM StoredPerDelivery ==
  DistinctMessages => (Spec /\ []NoBlindUpload => []StoredOncePerDelivery)
<1> SUFFICES ASSUME DistinctMessages
             PROVE  Spec /\ []NoBlindUpload => []StoredOncePerDelivery
  OBVIOUS
<1>1. Init => IInv /\ Held /\ CountInv
  BY InitInv, InitHeld, InitCount
<1>2. IInv /\ Held /\ CountInv /\ NoBlindUpload /\ [Next]_vars => (IInv /\ Held /\ CountInv)'
  BY NextInv, HeldStep, CountStep
<1> QED
  BY <1>1, <1>2, Counts, PTL DEF Spec
-----------------------------------------------------------------------------
(* Where workers take turns by their lease, no upload is blind.            *)

\* The rule Event Hub has one partition, no host steals a lease and nobody
\* deletes locations.
TurnsTaken ==
  /\ \A p, q \in Partition : p = q
  /\ "steal" \notin Faults
  /\ Editor = {}

\* An open worker holds the lease; what a writer read is the blob that is there.
Solo ==
  /\ \A w \in Worker : pc[w] # "closed" => owner[PartOf[w]] = w
  /\ \A w \in Writer : pc[w] \in {"etag", "upload"} => job[w].read = blob.etag

LEMMA InitSolo == Init => Solo
BY DEF Init, Solo, Writer

LEMMA SoloMove ==
  ASSUME TurnsTaken, IInv, Solo, NEW w \in Writer, NEW l, NEW j, Set(w, l, j),
         owner' = owner, pc[w] # "closed",
         l \in {"etag", "upload"} => blob' = blob /\ j.read = blob.etag
  PROVE  Solo'
<1>1. \A v \in Writer : /\ pc'[v] = (IF v = w THEN l ELSE pc[v])
                        /\ job'[v] = (IF v = w THEN j ELSE job[v])
  BY DEF Set, IInv
<1>2. w \in Worker /\ Writer = Worker
  BY DEF TurnsTaken, Writer
<1>3. ASSUME NEW v \in Worker, v # w PROVE pc[v] = "closed"
  BY <1>2, <1>3 DEF TurnsTaken, Solo
<1> QED
  BY <1>1, <1>2, <1>3 DEF Solo

LEMMA SoloStep ==
  ASSUME TurnsTaken, IInv, Held, Solo, [Next]_vars
  PROVE  Solo'
<1>0. NoJob \in Job /\ Writer = Worker
  BY Empty DEF TurnsTaken, Writer
<1>1. CASE UNCHANGED vars
  BY <1>1 DEF vars, Solo
<1>2. ASSUME NEW p \in Partition, LoseLease(p) PROVE FALSE
  BY <1>2 DEF LoseLease, Fault, TurnsTaken
<1>3. ASSUME NEW w \in Worker, Open(w) PROVE Solo'
  <2>1. /\ \A v \in Worker : pc'[v] = IF v = w THEN "waiting" ELSE pc[v]
        /\ \A v \in Worker \ {w} : job'[v] = job[v]
        /\ owner'[PartOf[w]] = w /\ owner[PartOf[w]] = NoWorker /\ blob' = blob
    BY <1>3 DEF Open, Set, IInv, StoreOK, Writer
  <2>2. ASSUME NEW v \in Worker, v # w PROVE pc[v] = "closed"
    BY <2>1, <2>2 DEF TurnsTaken, Solo
  <2> QED
    BY <1>0, <2>1, <2>2 DEF Solo
<1>4. ASSUME NEW w \in Worker, Take(w) \/ Save(w) PROVE Solo'
  <2>1. PICK l : (\E j : Set(w, l, j)) /\ l \notin {"etag", "upload"}
    <3>1. CASE Take(w)
      BY <3>1 DEF Take
    <3>2. CASE Save(w)
      BY <3>2 DEF Save
    <3> QED
      BY <1>4, <3>1, <3>2
  <2>2. pc[w] # "closed" /\ owner' = owner
    BY <1>4 DEF Take, Save
  <2> QED
    BY <1>0, <2>1, <2>2, SoloMove
<1>5. ASSUME NEW w \in Worker, Checkpoint(w) PROVE Solo'
  BY <1>0, <1>5, SoloMove DEF Checkpoint
<1>6. ASSUME NEW w \in Worker, Close(w) PROVE FALSE
  BY <1>6 DEF Close, Solo
<1>7. ASSUME NEW w \in Worker, Crash(w) PROVE Solo'
  <2>1. /\ \A v \in Worker : pc'[v] = IF v = w THEN "closed" ELSE pc[v]
        /\ \A v \in Worker \ {w} : job'[v] = job[v]
        /\ pc[w] # "closed" /\ blob' = blob
    BY <1>7 DEF Crash, Set, IInv, Writer
  <2>2. ASSUME NEW v \in Worker, v # w PROVE pc[v] = "closed"
    BY <2>1, <2>2 DEF TurnsTaken, Solo
  <2> QED
    BY <1>0, <2>1, <2>2 DEF Solo
<1>8. ASSUME NEW w \in Writer, Throw(w), pc[w] # "closed" PROVE Solo'
  <2>1. PICK l : Set(w, l, NoJob) /\ l \in {"checkpoint", "idle"}
    BY <1>0, <1>8 DEF Throw
  <2> QED
    BY <1>8, <2>1, SoloMove DEF Throw
<1>9. ASSUME NEW w \in Writer, Exists(w) PROVE Solo'
  <2>1. CASE blob.etag = 0
    <3>1. job[w].read = 0
      BY <1>9 DEF Exists, IInv, WriterOK
    <3> QED
      BY <1>9, <2>1, <3>1, SoloMove DEF Exists, Read
  <2>2. CASE blob.etag # 0
    BY <1>9, <2>2, SoloMove DEF Exists, Read
  <2> QED
    BY <2>1, <2>2
<1>10. ASSUME NEW w \in Writer, Download(w) PROVE Solo'
  <2>1. PICK k \in Job : k = job[w]
    BY DEF IInv
  <2>2. [k EXCEPT !.data = blob.content, !.read = blob.etag].read = blob.etag
    BY DEF Job
  <2> QED
    BY <1>8, <1>10, <2>1, <2>2, SoloMove DEF Download, Read
<1>11. ASSUME NEW w \in Writer, FetchEtag(w) PROVE Solo'
  <2>1. PICK k \in Job : k = job[w]
    BY DEF IInv
  <2>2. [k EXCEPT !.etag = blob.etag].read = k.read
    BY DEF Job
  <2>3. job[w].read = blob.etag
    BY <1>11 DEF FetchEtag, Solo
  <2> QED
    BY <1>11, <2>1, <2>2, <2>3, SoloMove DEF FetchEtag, Read
<1>12. ASSUME NEW w \in Writer, Upload(w) PROVE Solo'
  <2>1. CASE Throw(w)
    BY <1>8, <1>12, <2>1 DEF Upload
  <2>2. CASE ~Throw(w)
    BY <1>12, <2>2, SoloMove DEF Upload
  <2> QED
    BY <2>1, <2>2
<1> QED
  BY <1>1, <1>2, <1>3, <1>4, <1>5, <1>6, <1>7, <1>9, <1>10, <1>11, <1>12
  DEF Next, Work, Store, TurnsTaken

LEMMA SoloNotBlind == Solo => NoBlindUpload
BY DEF Solo, NoBlindUpload

\* With one partition, no stolen lease and no user, whatever crashes and failures
\* there are: an item of a message that will not be delivered again is stored, or
\* was given up with an exception.
THEOREM StoredInTurns == TurnsTaken => (Spec => []CheckpointedStored)
<1> SUFFICES ASSUME TurnsTaken PROVE Spec => []CheckpointedStored
  OBVIOUS
<1>1. Init => IInv /\ Held /\ KeptInv /\ Solo
  BY InitInv, InitHeld, InitKept, InitSolo
<1>2. IInv /\ Held /\ KeptInv /\ Solo /\ [Next]_vars => (IInv /\ Held /\ KeptInv /\ Solo)'
  BY NextInv, HeldStep, KeptStep, SoloStep, SoloNotBlind
<1>3. KeptInv => CheckpointedStored
  BY DEF KeptInv, Kept, CheckpointedStored, Checkpointed, Settled, UpTo
<1> QED
  BY <1>1, <1>2, <1>3, PTL DEF Spec

\* In the same setting, and with messages that are events of their own, a jerk is
\* stored twice only after a fault.
THEOREM StoredOnceInTurns ==
  TurnsTaken /\ DistinctMessages => (Spec => []StoredOncePerDelivery)
<1> SUFFICES ASSUME TurnsTaken, DistinctMessages PROVE Spec => []StoredOncePerDelivery
  OBVIOUS
<1>1. Init => IInv /\ Held /\ CountInv /\ Solo
  BY InitInv, InitHeld, InitCount, InitSolo
<1>2. IInv /\ Held /\ CountInv /\ Solo /\ [Next]_vars => (IInv /\ Held /\ CountInv /\ Solo)'
  BY NextInv, HeldStep, CountStep, SoloStep, SoloNotBlind
<1> QED
  BY <1>1, <1>2, Counts, PTL DEF Spec
=============================================================================
