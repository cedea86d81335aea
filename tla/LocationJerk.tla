---------------------------- MODULE LocationJerk ----------------------------
(***************************************************************************)
(* The jerk locations: ActionProcessor consumes the partitions of the rule *)
(* Event Hub and LocationJerkRepository merges each batch into one blob;   *)
(* users delete locations from the same blob.                              *)
(*                                                                         *)
(* The blob is read by four requests (it exists, its length, its bytes,    *)
(* then in a separate call its ETag) and uploaded on the condition that    *)
(* the ETag still holds.  A batch whose save throws is logged, and the     *)
(* partition is checkpointed all the same.  Partitions move between hosts: *)
(* a new owner starts at the checkpoint while the old one may still be     *)
(* busy with its last batch.                                               *)
(***************************************************************************)
EXTENDS Integers, Sequences, FiniteSets

CONSTANTS
  Item,       \* telemetry items, each a jerk of a device at a location
  Loc, Dev,   \* location and device of each item
  Kind,       \* "good", "noDevice" (null id), "blank" (empty id), "noJerks"
  Partition,
  Messages,   \* the messages of each partition, each a sequence of items
  Worker,     \* ActionProcessor instances: a host's processor of a partition
  PartOf,     \* the partition of each worker
  Editor,     \* users who delete locations
  NoWorker,
  MaxFaults,  \* bound on the faults taken
  MaxEdits,   \* bound on the deletions
  Faults      \* {"crash", "steal", "save", "checkpoint"}

ASSUME ConstantsAssumption ==
  /\ Kind \in [Item -> {"good", "noDevice", "blank", "noJerks"}]
  /\ Messages \in [Partition -> Seq(Seq(Item))]
  /\ PartOf \in [Worker -> Partition]
  /\ NoWorker \notin Worker
  /\ Worker \cap Editor = {}
  /\ MaxFaults \in Nat /\ MaxEdits \in Nat

Writer == Worker \cup Editor
Location == {Loc[i] : i \in Item}
Content == [Item -> Nat]
Nothing == [i \in Item |-> 0]

VARIABLES
  blob,        \* [etag, content]: how often each item is stored; ETag 0: no blob
  owner,       \* the worker that holds the lease of each partition
  checkpoint,  \* of each partition: messages that will not be delivered again
  pos,         \* of each worker: messages received (LastMessageOffset)
  pc,          \* the next step of each worker and user
  job,         \* the local variables of a save or a deletion
  faults,      \* faults taken so far
  edits,       \* deletions started so far
  discarded,   \* history: items a worker gave up (bad items, saves that threw)
  deleted      \* history: items a user deleted

vars == <<blob, owner, checkpoint, pos, pc, job, faults, edits, discarded, deleted>>

\* batch: newLocationJerks; drop: the locations to delete; data, etag: what was
\* read of the blob; read: history, the blob's ETag when data was downloaded.
Job == [batch : SUBSET Item, drop : SUBSET Location, data : Content,
        etag : Nat, read : Nat]
NoJob == [batch |-> {}, drop |-> {}, data |-> Nothing, etag |-> 0, read |-> 0]

Reading == {"exists", "download", "etag"}
Label == {"closed", "waiting", "batch", "checkpoint", "idle", "upload"} \cup Reading

TypeOK ==
  /\ blob \in [etag : Nat, content : Content]
  /\ owner \in [Partition -> Worker \cup {NoWorker}]
  /\ checkpoint \in [Partition -> Nat]
  /\ pos \in [Worker -> Nat]
  /\ pc \in [Writer -> Label]
  /\ job \in [Writer -> Job]
  /\ faults \in 0..MaxFaults
  /\ edits \in 0..MaxEdits
  /\ discarded \subseteq Item
  /\ deleted \subseteq Item
  /\ \A p \in Partition : checkpoint[p] <= Len(Messages[p])
  /\ \A w \in Worker : pos[w] <= Len(Messages[PartOf[w]])
  /\ \A w \in Writer : pc[w] = "upload" => (job[w].etag = 0 <=> job[w].read = 0)

Init ==
  /\ blob = [etag |-> 0, content |-> Nothing]
  /\ owner = [p \in Partition |-> NoWorker]
  /\ checkpoint = [p \in Partition |-> 0]
  /\ pos = [w \in Worker |-> 0]
  /\ pc = [w \in Writer |-> IF w \in Worker THEN "closed" ELSE "idle"]
  /\ job = [w \in Writer |-> NoJob]
  /\ faults = 0
  /\ edits = 0
  /\ discarded = {}
  /\ deleted = {}

Set(w, l, j) ==
  /\ pc' = [pc EXCEPT ![w] = l]
  /\ job' = [job EXCEPT ![w] = j]

Fault(f) ==
  /\ f \in Faults
  /\ faults < MaxFaults
  /\ faults' = faults + 1

Good(S) == {i \in S : Kind[i] = "good"}

-----------------------------------------------------------------------------
(* The Event Hub: leases and delivery.                                     *)

\* Mutant of Open: the first message after the checkpoint is passed over.
OpenSkips(w) ==
  LET p == PartOf[w] IN
  /\ pc[w] = "closed"
  /\ owner[p] = NoWorker
  /\ owner' = [owner EXCEPT ![p] = w]
  /\ pos' = [pos EXCEPT ![w] = checkpoint[p] + 1]
  /\ Set(w, "waiting", NoJob)
  /\ UNCHANGED <<blob, checkpoint, faults, edits, discarded, deleted>>

\* OpenAsync: a worker acquires the lease of its partition and is given the
\* messages after the checkpoint.
Open(w) ==
  LET p == PartOf[w] IN
  /\ pc[w] = "closed"
  /\ owner[p] = NoWorker
  /\ owner' = [owner EXCEPT ![p] = w]
  /\ pos' = [pos EXCEPT ![w] = checkpoint[p]]
  /\ Set(w, "waiting", NoJob)
  /\ UNCHANGED <<blob, checkpoint, faults, edits, discarded, deleted>>

\* The lease expires or another host steals it: the worker goes on unaware.
LoseLease(p) ==
  /\ owner[p] # NoWorker
  /\ Fault("steal")
  /\ owner' = [owner EXCEPT ![p] = NoWorker]
  /\ UNCHANGED <<blob, checkpoint, pos, pc, job, edits, discarded, deleted>>

\* CloseAsync(LeaseLost): the checkpoint it asks for is refused.  A host that is
\* shut down never gets to close its workers: Task.Delay throws when its token
\* is cancelled and ActionEventProcessor skips UnregisterEventProcessorAsync.
Close(w) ==
  /\ pc[w] = "waiting"
  /\ owner[PartOf[w]] # w
  /\ Set(w, "closed", NoJob)
  /\ UNCHANGED <<blob, owner, checkpoint, pos, faults, edits, discarded, deleted>>

\* The host of a worker dies.
Crash(w) ==
  LET p == PartOf[w] IN
  /\ pc[w] # "closed"
  /\ Fault("crash")
  /\ Set(w, "closed", NoJob)
  /\ owner' = [owner EXCEPT ![p] = IF @ = w THEN NoWorker ELSE @]
  /\ UNCHANGED <<blob, checkpoint, pos, edits, discarded, deleted>>

-----------------------------------------------------------------------------
(* ActionProcessor.ProcessEventsAsync                                      *)

\* An item that throws in the loop over a message: TelemetryJerkComparer hashes
\* its missing device id, or UpdateLocationJerkList appends to, or appends, the
\* missing jerks of an entry of the batch.
Throws(i, batch) ==
  \/ Kind[i] = "noDevice"
  \/ \E j \in batch \ {i} : /\ Loc[j] = Loc[i] /\ Dev[j] = Dev[i]
                            /\ "noJerks" \in {Kind[i], Kind[j]}

\* What a message adds to the batch: its items up to the first that throws.
Taken(m, batch) ==
  {m[k] : k \in {k \in DOMAIN m :
     \A n \in 1..k : ~Throws(m[n], batch \cup {m[l] : l \in 1..(n - 1)})}}

ItemsOf(m) == {m[k] : k \in DOMAIN m}

\* One turn of the loop over the messages of the batch.
Take(w) ==
  LET m == Messages[PartOf[w]][pos[w] + 1]
      taken == Taken(m, job[w].batch) IN
  /\ \/ pc[w] = "waiting" /\ owner[PartOf[w]] = w
     \/ pc[w] = "batch"
  /\ pos[w] < Len(Messages[PartOf[w]])
  /\ pos' = [pos EXCEPT ![w] = @ + 1]
  /\ Set(w, "batch", [job[w] EXCEPT !.batch = @ \cup taken])
  /\ discarded' = discarded \cup (ItemsOf(m) \ taken)
  /\ UNCHANGED <<blob, owner, checkpoint, faults, edits, deleted>>

\* Mutant of Save: Count() > 1.
SaveOffByOne(w) ==
  /\ pc[w] = "batch"
  /\ Set(w, IF Cardinality(job[w].batch) <= 1 THEN "checkpoint" ELSE "exists", job[w])
  /\ UNCHANGED <<blob, owner, checkpoint, pos, faults, edits, discarded, deleted>>

\* SaveToLocationJerkInfo saves a batch that is not empty.
Save(w) ==
  /\ pc[w] = "batch"
  /\ Set(w, IF job[w].batch = {} THEN "checkpoint" ELSE "exists", job[w])
  /\ UNCHANGED <<blob, owner, checkpoint, pos, faults, edits, discarded, deleted>>

\* context.CheckpointAsync(): refused without the lease; a failure is logged.
Checkpoint(w) ==
  LET p == PartOf[w] IN
  /\ pc[w] = "checkpoint"
  /\ \/ /\ owner[p] = w
        /\ checkpoint' = [checkpoint EXCEPT ![p] = pos[w]]
        /\ UNCHANGED faults
     \/ UNCHANGED <<checkpoint, faults>> /\ owner[p] # w
     \/ UNCHANGED checkpoint /\ Fault("checkpoint")
  /\ Set(w, "waiting", NoJob)
  /\ UNCHANGED <<blob, owner, pos, edits, discarded, deleted>>

-----------------------------------------------------------------------------
(* LocationJerkRepository: read, merge and upload the blob.                *)

\* A user deletes some locations (DeleteLocationsInBatchAsync).
Delete(e) ==
  \E L \in SUBSET Location \ {{}} :
    /\ pc[e] = "idle"
    /\ edits < MaxEdits
    /\ edits' = edits + 1
    /\ Set(e, "exists", [NoJob EXCEPT !.drop = L])
    /\ UNCHANGED <<blob, owner, checkpoint, pos, faults, discarded, deleted>>

\* Mutant of Throw: the exception of a save leaves ProcessEventsAsync, and the
\* messages are delivered again.
ThrowOut(w) ==
  /\ Set(w, IF w \in Worker THEN "waiting" ELSE "idle", NoJob)
  /\ pos' = IF w \in Worker THEN [pos EXCEPT ![w] = checkpoint[PartOf[w]]] ELSE pos
  /\ UNCHANGED <<blob, owner, checkpoint, edits, discarded, deleted>>

\* A save throws: a worker logs it and goes on to its checkpoint, a user is
\* told.
Throw(w) ==
  /\ Set(w, IF w \in Worker THEN "checkpoint" ELSE "idle", NoJob)
  /\ discarded' = discarded \cup job[w].batch
  /\ UNCHANGED <<blob, owner, checkpoint, pos, edits, deleted>>

Read(w, l, j) ==
  /\ Set(w, l, j)
  /\ UNCHANGED <<blob, owner, checkpoint, pos, faults, edits, discarded, deleted>>

\* GetBlobData: the blob's existence and length; without a blob, no ETag.
Exists(w) ==
  /\ pc[w] = "exists"
  /\ IF blob.etag = 0 THEN Read(w, "upload", job[w])
     ELSE Read(w, "download", [job[w] EXCEPT !.data = blob.content])

\* GetBlobData: the bytes, into a buffer of the length seen; a blob that has
\* another length by now does not fit, or leaves zeros that are not JSON.
Download(w) ==
  /\ pc[w] = "download"
  /\ \/ Read(w, "etag", [job[w] EXCEPT !.data = blob.content, !.read = blob.etag])
     \/ job[w].data # blob.content /\ Throw(w) /\ UNCHANGED faults

\* GetBlobEtag, a call of its own.
FetchEtag(w) ==
  /\ pc[w] = "etag"
  /\ Read(w, "upload", [job[w] EXCEPT !.etag = blob.etag])

Known(l, data) == \E i \in Item : Loc[i] = l /\ data[i] > 0

\* An item the merge refuses, and with it the whole batch: no device id, or no
\* jerks at a new location (DeviceList.Remove inside the loop over DeviceList).
Unsound(j) ==
  \E i \in j.batch : Kind[i] = "blank" \/ (Kind[i] = "noJerks" /\ ~Known(Loc[i], j.data))

\* SaveLocationJerkInfoAsync adds the batch, DeleteLocation... drop locations.
Merged(j) ==
  [i \in Item |-> IF Loc[i] \in j.drop THEN 0
                  ELSE j.data[i] + (IF i \in Good(j.batch) THEN 1 ELSE 0)]

\* If-Match, which is not sent for an empty ETag.
Matches(etag) == etag = 0 \/ etag = blob.etag

\* Mutant of Upload: the condition is left out.
UploadAlways(w) ==
  LET j == job[w] IN
  /\ pc[w] = "upload"
  /\ \/ /\ ~Unsound(j)
        /\ blob' = [etag |-> blob.etag + 1, content |-> Merged(j)]
        /\ deleted' = deleted \cup {i \in Item : Loc[i] \in j.drop}
        /\ Set(w, IF w \in Worker THEN "checkpoint" ELSE "idle", NoJob)
        /\ UNCHANGED <<owner, checkpoint, pos, faults, edits, discarded>>
     \/ Unsound(j) /\ Throw(w) /\ UNCHANGED faults
     \/ Throw(w) /\ Fault("save")

\* Mutant of Upload: a save is tried again after it has succeeded.
UploadRetries(w) ==
  LET j == job[w] IN
  /\ pc[w] = "upload"
  /\ \/ /\ ~Unsound(j)
        /\ Matches(j.etag)
        /\ blob' = [etag |-> blob.etag + 1, content |-> Merged(j)]
        /\ deleted' = deleted \cup {i \in Item : Loc[i] \in j.drop}
        /\ Set(w, "exists", [NoJob EXCEPT !.batch = j.batch])
        /\ UNCHANGED <<owner, checkpoint, pos, faults, edits, discarded>>
     \/ (Unsound(j) \/ ~Matches(j.etag)) /\ Throw(w) /\ UNCHANGED faults
     \/ Throw(w) /\ Fault("save")

Upload(w) ==
  LET j == job[w] IN
  /\ pc[w] = "upload"
  /\ \/ /\ ~Unsound(j)
        /\ Matches(j.etag)
        /\ blob' = [etag |-> blob.etag + 1, content |-> Merged(j)]
        /\ deleted' = deleted \cup {i \in Item : Loc[i] \in j.drop}
        /\ Set(w, IF w \in Worker THEN "checkpoint" ELSE "idle", NoJob)
        /\ UNCHANGED <<owner, checkpoint, pos, faults, edits, discarded>>
     \/ (Unsound(j) \/ ~Matches(j.etag)) /\ Throw(w) /\ UNCHANGED faults
     \/ Throw(w) /\ Fault("save")

Work(w) ==
  \/ Open(w) \/ Take(w) \/ Save(w) \/ Checkpoint(w) \/ Close(w)

Store(w) == Exists(w) \/ Download(w) \/ FetchEtag(w) \/ Upload(w)

Next ==
  \/ \E p \in Partition : LoseLease(p)
  \/ \E w \in Worker : Work(w) \/ Crash(w)
  \/ \E e \in Editor : Delete(e)
  \/ \E w \in Writer : Store(w)

Spec == Init /\ [][Next]_vars

\* A worker whose host runs keeps going, and some worker takes a free lease.
FairSpec == Spec /\ \A w \in Worker : WF_vars(Work(w)) /\ WF_vars(Store(w))

-----------------------------------------------------------------------------
(* Properties                                                              *)

\* The items of the messages of p that will not be delivered again.
Checkpointed(p) == UNION {ItemsOf(Messages[p][n]) : n \in 1..checkpoint[p]}

\* What became of an item: stored, given up with an exception, deleted, or of a
\* location already known when it brought no jerks.
Settled(i) ==
  blob.content[i] > 0 \/ i \in discarded \/ i \in deleted
  \/ (Kind[i] = "noJerks" /\ Known(Loc[i], blob.content))

\* While no two writers overlap, a checkpointed item is in the blob, unless its
\* message or its batch was given up with an exception: a crash between the
\* upload and the checkpoint, or a failed checkpoint, loses nothing.
CheckpointedStored ==
  \A p \in Partition : \A i \in Checkpointed(p) : Settled(i)

\* An item is stored once per delivery: twice only after a crash, a lost lease
\* or a failed checkpoint made the Event Hub deliver it again.
StoredOncePerDelivery == \A i \in Item : blob.content[i] <= 1 + faults

\* An upload whose bytes and ETag were of one version loses no jerk another
\* partition's worker stored: the condition stops all other uploads.
ConsistentMerge ==
  [][\A w \in Writer :
       pc[w] = "upload" /\ pc'[w] # "upload" /\ blob' # blob
         /\ job[w].read # 0 /\ job[w].read = job[w].etag =>
       \A i \in Item : Loc[i] \notin job[w].drop => blob'.content[i] >= blob.content[i]]_vars

\* What makes it so: a blob has the content downloaded as long as it has the
\* ETag it had then.
VersionKnown ==
  \A w \in Writer :
    /\ job[w].read <= blob.etag
    /\ job[w].read # 0 /\ job[w].read = blob.etag => job[w].data = blob.content

\* A worker holds the lease of p, has been given every message and has done
\* with each.
WorkedOff(p) ==
  \E w \in Worker :
    owner[p] = w /\ pc[w] = "waiting" /\ pos[w] = Len(Messages[p])

\* Whatever saves, checkpoints and hosts fail, the partition is worked off in
\* the end and every item is settled: a batch that threw does not hold
\* its partition up.  Not that the last message is checkpointed: a checkpoint
\* that fails is only logged and is made up for by the next batch, if any.
Drained ==
  <>[](\A p \in Partition :
         /\ WorkedOff(p)
         /\ \A n \in DOMAIN Messages[p] : \A i \in ItemsOf(Messages[p][n]) : Settled(i))
=============================================================================
