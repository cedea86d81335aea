----------------------------- MODULE RulesStore -----------------------------
(***************************************************************************)
(* The alarm rules of devices: DeviceRulesLogic over DeviceRulesRepository *)
(* over AzureTableStorageClient.  Rules are rows of an Azure table.  After *)
(* every change the writer reads the whole table again and uploads what    *)
(* the Stream Analytics job needs of it to a blob named after the minute   *)
(* two minutes ahead; the job uses the newest blob whose minute has come.  *)
(*                                                                         *)
(* One action is one call to the table or the blob store.  The table       *)
(* itself gives conditional writes: a replacement or a deletion applies    *)
(* only to the version (ETag) the caller read.                             *)
(***************************************************************************)
EXTENDS Integers, FiniteSets

CONSTANTS
  Device, Field,  \* device ids; the data fields a rule may watch
  Rule,           \* rule ids (Guid.NewGuid)
  Owner,          \* the device each rule id was generated for
  NoRule, NoField,
  Proc,           \* request threads
  Lookahead,      \* blobSaveMinutesInTheFuture
  MaxDelay,       \* minutes between naming a blob and the end of its upload
  MaxMinute,      \* bound on the clock
  MaxOps,         \* bound on the operations started
  Ops,            \* operations started: {"new", "edit", "toggle", "delete", "clear"}
  Faults,         \* {"throw": a call or the process fails, "lost": an answer is}
  Serial          \* TRUE: callers never run two operations at once

ASSUME ConstantsAssumption ==
  /\ Owner \in [Rule -> Device]
  /\ NoRule \notin Rule
  /\ NoField \notin Field /\ Field # {}
  /\ Lookahead \in Nat /\ MaxDelay \in Nat /\ MaxMinute \in Nat
  /\ Serial \in BOOLEAN

\* What the comment at DeviceRulesRepository.cs:247 reckons with: a write that
\* is delayed ends before the minute its blob is named after.
ASSUME DelayAssumption == MaxDelay < Lookahead

VARIABLES
  rows,   \* the table: the row of each rule, NoRow if there is none
  ver,    \* ETags given out so far; 0 is no ETag
  blobs,  \* the blob of each minute, NoBlob if there is none
  now,    \* the minute of DateTime.UtcNow
  pc,     \* the next call of each request thread
  job,    \* its local variables
  ops,    \* operations started so far
  stale,  \* history: the last change of the table was not followed by an upload
  met     \* history: pairs of rules of a device one of which was written with a data
          \* field while a thread was about to write the other one with it

vars == <<rows, ver, blobs, now, pc, job, ops, stale, met>>

\* The content of a row (threshold, output) is the number of changes made to it.
Row == [field : Field \cup {NoField}, enabled : BOOLEAN, changes : Nat, etag : Nat]
NoRow == [field |-> NoField, enabled |-> FALSE, changes |-> 0, etag |-> 0]

\* What a blob says: the ETag of the row a threshold comes from, 0 for no rule.
View == [Device \X Field -> Nat]
NoBlob == [x \in Device \X Field |-> -1]
Minute == 0..(MaxMinute + Lookahead)

\* copy: the rule read or posted; todo: what RemoveAllRulesForDeviceAsync has
\* left to delete; view, slot: the blob's content and its minute.
Job == [rule : Rule \cup {NoRule}, copy : Row, todo : SUBSET (Rule \X (Nat \ {0})),
        view : View, slot : Minute]
EmptyView == [x \in Device \X Field |-> 0]
NoJob == [rule |-> NoRule, copy |-> NoRow, todo |-> {}, view |-> EmptyView, slot |-> 0]

TableWrite == {"replace", "insert", "delete"}
Publish == {"snapshot", "name", "upload"}
Writing == {"retrieve", "replace", "insert"}  \* past the check for duplicates
Active == {"check", "get", "getDelete", "retrieve", "list", "next"} \cup TableWrite \cup Publish
Label == {"idle", "opened"} \cup Active

TypeOK ==
  /\ rows \in [Rule -> Row]
  /\ ver \in Nat
  /\ blobs \in [Minute -> View \cup {NoBlob}]
  /\ now \in 0..MaxMinute
  /\ pc \in [Proc -> Label]
  /\ job \in [Proc -> Job]
  /\ ops \in Nat
  /\ stale \in BOOLEAN
  /\ met \in SUBSET SUBSET Rule
  /\ \A p \in Proc :
       /\ pc[p] # "idle" => job[p].rule \in Rule
       /\ pc[p] \in {"opened", "replace", "delete"} => job[p].copy.etag # 0

Exists(r) == rows[r].etag # 0
RulesOf(d) == {r \in Rule : Owner[r] = d /\ Exists(r)}

Init ==
  /\ rows = [r \in Rule |-> NoRow]
  /\ ver = 0
  /\ blobs = [m \in Minute |-> NoBlob]
  /\ now = 0
  /\ pc = [p \in Proc |-> "idle"]
  /\ job = [p \in Proc |-> NoJob]
  /\ ops = 0
  /\ stale = FALSE
  /\ met = {}

-----------------------------------------------------------------------------
(* Control of a request thread.                                            *)

Set(p, l, j) ==
  /\ pc' = [pc EXCEPT ![p] = l]
  /\ job' = [job EXCEPT ![p] = j]

Done(p) == Set(p, "idle", NoJob)

\* The table write of p is over: RemoveAllRulesForDeviceAsync goes on with its
\* next rule, every other operation returns.
After(p) == IF job[p].todo = {} THEN Done(p) ELSE Set(p, "next", job[p])

Quiet == \A p \in Proc : pc[p] \in {"idle", "opened"}

Start(p, l, j) ==
  /\ ops < MaxOps
  /\ Serial => Quiet
  /\ ops' = ops + 1
  /\ Set(p, l, j)
  /\ UNCHANGED <<rows, ver, blobs, now, stale, met>>

Local(p, l, j) ==
  /\ Set(p, l, j)
  /\ UNCHANGED <<rows, ver, blobs, now, ops, stale, met>>

Return(p) == Local(p, "idle", NoJob)

-----------------------------------------------------------------------------
(* Reads: DeviceRulesLogic.                                                *)

\* A rule of GetNewRuleAsync comes back with its fields filled in and no ETag;
\* the page may post it twice.
New(p) ==
  \E r \in Rule, f \in Field :
    /\ "new" \in Ops
    /\ pc[p] = "idle"
    /\ Start(p, "check", [NoJob EXCEPT !.rule = r,
                            !.copy = [NoRow EXCEPT !.field = f, !.enabled = TRUE]])

\* A user opens a rule for editing (GetDeviceRuleOrDefaultAsync) ...
Open(p) ==
  \E r \in Rule :
    /\ "edit" \in Ops
    /\ pc[p] = "idle"
    /\ Exists(r)
    /\ Local(p, "opened", [NoJob EXCEPT !.rule = r, !.copy = rows[r]])

\* ... and posts it some time later, with the ETag of the version he saw.
Submit(p) ==
  \E f \in Field :
    /\ pc[p] = "opened"
    /\ Start(p, "check", [job[p] EXCEPT !.copy.field = f])

Toggle(p) ==
  \E r \in Rule, b \in BOOLEAN :
    /\ "toggle" \in Ops
    /\ pc[p] = "idle"
    /\ Start(p, "get", [NoJob EXCEPT !.rule = r, !.copy.enabled = b])

Delete(p) ==
  \E r \in Rule :
    /\ "delete" \in Ops
    /\ pc[p] = "idle"
    /\ Start(p, "getDelete", [NoJob EXCEPT !.rule = r])

\* RemoveAllRulesForDeviceAsync; job.rule stands for its device.
Clear(p) ==
  \E r \in Rule :
    /\ "clear" \in Ops
    /\ pc[p] = "idle"
    /\ Start(p, "list", [NoJob EXCEPT !.rule = r])

Duplicates(p) ==
  {r \in RulesOf(Owner[job[p].rule]) \ {job[p].rule} : rows[r].field = job[p].copy.field}

\* Mutant of Check: DuplicateInsert is never answered.
CheckNothing(p) ==
  /\ pc[p] = "check"
  /\ Local(p, "retrieve", job[p])

\* SaveDeviceRuleAsync: one rule for a data field of a device.
Check(p) ==
  /\ pc[p] = "check"
  /\ IF Duplicates(p) # {} THEN Return(p) ELSE Local(p, "retrieve", job[p])

\* UpdateDeviceRuleEnabledStateAsync: the rule as stored, but for its state.
Get(p) ==
  LET r == job[p].rule IN
  /\ pc[p] = "get"
  /\ IF Exists(r)
     THEN Local(p, "retrieve",
                [job[p] EXCEPT !.copy = [rows[r] EXCEPT !.enabled = job[p].copy.enabled]])
     ELSE Return(p)

GetDelete(p) ==
  /\ pc[p] = "getDelete"
  /\ IF Exists(job[p].rule)
     THEN Local(p, "delete", [job[p] EXCEPT !.copy = rows[job[p].rule]])
     ELSE Return(p)

List(p) ==
  /\ pc[p] = "list"
  /\ LET found == {<<r, rows[r].etag>> : r \in RulesOf(Owner[job[p].rule])} IN
     IF found = {} THEN Return(p) ELSE Local(p, "next", [job[p] EXCEPT !.todo = found])

NextRule(p) ==
  \E t \in job[p].todo :
    /\ pc[p] = "next"
    /\ Local(p, "delete", [job[p] EXCEPT !.rule = t[1], !.copy = [NoRow EXCEPT !.etag = t[2]],
                                         !.todo = @ \ {t}])

-----------------------------------------------------------------------------
(* Conditional writes: AzureTableStorageClient.                            *)

\* Mutant of Retrieve: a rule without ETag is replaced like any other.
RetrieveUnchecked(p) ==
  LET j == job[p] IN
  /\ pc[p] = "retrieve"
  /\ Local(p, IF Exists(j.rule) THEN "replace" ELSE "insert", j)

\* A row that exists is replaced, which TableOperation.Replace refuses with an
\* ArgumentException when the rule has no ETag; a row that does not is inserted.
Retrieve(p) ==
  LET j == job[p] IN
  /\ pc[p] = "retrieve"
  /\ IF ~Exists(j.rule) THEN Local(p, "insert", j)
     ELSE IF j.copy.etag = 0 THEN Return(p)
     ELSE Local(p, "replace", j)

\* The rules that other threads are about to write with the data field p has.
Rivals(p) ==
  {job[q].rule : q \in {t \in Proc :
     /\ pc[t] \in Writing
     /\ Owner[job[t].rule] = Owner[job[p].rule]
     /\ job[t].copy.field = job[p].copy.field}} \ {job[p].rule}

\* The row of p's rule becomes row.  The answer is Successful and the table is
\* published, or it is lost and PerformTableOperation reports an error.
Apply(p, row) ==
  /\ rows' = [rows EXCEPT ![job[p].rule] = row]
  /\ \/ Set(p, "snapshot", job[p]) /\ UNCHANGED stale
     \/ "lost" \in Faults /\ After(p) /\ stale' = TRUE
  /\ met' = met \cup {{job[p].rule, r} : r \in {s \in Rivals(p) : pc[p] \in Writing}}
  /\ UNCHANGED <<blobs, now, ops>>

\* 404, 409, 412 or a failed call: ConflictError or UnknownError.
Reject(p, cond) ==
  /\ cond \/ "throw" \in Faults
  /\ After(p)
  /\ UNCHANGED <<rows, ver, blobs, now, ops, stale, met>>

\* Mutant of Replace: InsertOrReplace, which "will not do any concurrency checking".
ReplaceAlways(p) ==
  LET j == job[p] IN
  /\ pc[p] = "replace"
  /\ \/ /\ ver' = ver + 1
        /\ Apply(p, [j.copy EXCEPT !.changes = @ + 1, !.etag = ver + 1])
     \/ Reject(p, FALSE)

Replace(p) ==
  LET j == job[p] IN
  /\ pc[p] = "replace"
  /\ \/ /\ rows[j.rule].etag = j.copy.etag
        /\ ver' = ver + 1
        /\ Apply(p, [j.copy EXCEPT !.changes = @ + 1, !.etag = ver + 1])
     \/ Reject(p, rows[j.rule].etag # j.copy.etag)

Insert(p) ==
  LET j == job[p] IN
  /\ pc[p] = "insert"
  /\ \/ /\ ~Exists(j.rule)
        /\ ver' = ver + 1
        /\ Apply(p, [j.copy EXCEPT !.changes = 0, !.etag = ver + 1])
     \/ Reject(p, Exists(j.rule))

DeleteRow(p) ==
  LET j == job[p] IN
  /\ pc[p] = "delete"
  /\ \/ /\ rows[j.rule].etag = j.copy.etag
        /\ UNCHANGED ver
        /\ Apply(p, NoRow)
     \/ Reject(p, rows[j.rule].etag # j.copy.etag)

-----------------------------------------------------------------------------
(* Publication: DeviceRulesRepository.                                     *)

Watching(x) == {r \in RulesOf(x[1]) : rows[r].enabled /\ rows[r].field = x[2]}

\* BuildBlobEntityListFromTableRows: the last enabled row of a data field wins,
\* in the order of the query.
IsViewOfTable(v) ==
  \A x \in Device \X Field :
    \/ v[x] \in {rows[r].etag : r \in Watching(x)}
    \/ Watching(x) = {} /\ v[x] = 0

\* Mutant of Snapshot: disabled rules are published too.
SnapshotAll(p) ==
  /\ pc[p] = "snapshot"
  /\ \E v \in [Device \X Field -> 0..ver] :
       /\ \A x \in Device \X Field :
            LET found == {r \in RulesOf(x[1]) : rows[r].field = x[2]} IN
            \/ v[x] \in {rows[r].etag : r \in found}
            \/ found = {} /\ v[x] = 0
       /\ Local(p, "name", [job[p] EXCEPT !.view = v])

Snapshot(p) ==
  /\ pc[p] = "snapshot"
  /\ \E v \in [Device \X Field -> 0..ver] :
       /\ IsViewOfTable(v)
       /\ Local(p, "name", [job[p] EXCEPT !.view = v])

\* Mutant of Name: the blob of the minute in which the job reads it.
NameNow(p) ==
  /\ pc[p] = "name"
  /\ Local(p, "upload", [job[p] EXCEPT !.slot = now])

\* DateTime.UtcNow.AddMinutes(blobSaveMinutesInTheFuture)
Name(p) ==
  /\ pc[p] = "name"
  /\ Local(p, "upload", [job[p] EXCEPT !.slot = now + Lookahead])

Upload(p) ==
  LET j == job[p] IN
  /\ pc[p] = "upload"
  /\ blobs' = [blobs EXCEPT ![j.slot] = j.view]
  /\ After(p)
  /\ stale' = FALSE
  /\ UNCHANGED <<rows, ver, now, ops, met>>

\* A read, the upload or the process fails: the operation ends with an
\* exception, and a change that was made stays unpublished.
Throw(p) ==
  /\ "throw" \in Faults
  /\ pc[p] \in Active
  /\ Done(p)
  /\ stale' = (stale \/ pc[p] \in Publish)
  /\ UNCHANGED <<rows, ver, blobs, now, ops, met>>

\* A minute passes; an upload takes at most MaxDelay of them.
Tick ==
  /\ now < MaxMinute
  /\ \A p \in Proc : pc[p] = "upload" => now + 1 <= job[p].slot - Lookahead + MaxDelay
  /\ now' = now + 1
  /\ UNCHANGED <<rows, ver, blobs, pc, job, ops, stale, met>>

Begin(p) == New(p) \/ Open(p) \/ Submit(p) \/ Toggle(p) \/ Delete(p) \/ Clear(p)
Call(p) ==
  \/ Check(p) \/ Get(p) \/ GetDelete(p) \/ List(p) \/ NextRule(p) \/ Retrieve(p)
  \/ Replace(p) \/ Insert(p) \/ DeleteRow(p) \/ Snapshot(p) \/ Name(p) \/ Upload(p)
  \/ Throw(p)

Next == Tick \/ \E p \in Proc : Begin(p) \/ Call(p)

Spec == Init /\ [][Next]_vars

-----------------------------------------------------------------------------
(* Properties                                                              *)

\* A device has one rule per data field, which the check of
\* DeviceRulesLogic.SaveDeviceRuleAsync is there to enforce, unless two requests
\* that nothing orders were past that check at once: one of them wrote its rule
\* while the other was about to write another one with the same field.
UniqueField ==
  \A r, s \in Rule :
    Exists(r) /\ Exists(s) /\ Owner[r] = Owner[s] /\ rows[r].field = rows[s].field =>
      r = s \/ {r, s} \in met

Published == {m \in Minute : blobs[m] # NoBlob}

\* Whenever nobody is changing rules, the newest blob, which the Stream
\* Analytics job joins to the telemetry, says what the table says, unless the
\* last change was not followed by an upload because a call failed.  A later
\* change repairs that: the whole table is uploaded again.
BlobCurrent ==
  Quiet /\ ~stale =>
    IF Published = {} THEN \A r \in Rule : ~Exists(r)
    ELSE \E m \in Published : IsViewOfTable(blobs[m]) /\ \A n \in Published : n <= m

\* A blob whose minute has come, which the job may be reading, is not touched.
FutureBlobsOnly == [][\A m \in Minute : blobs'[m] # blobs[m] => m > now]_vars

\* Several users who open, change, enable and delete a rule at once never lose
\* each other's changes: what they do to the table are steps of a register.
Register == INSTANCE RuleRegister WITH
  changes <- [r \in Rule |-> IF Exists(r) THEN rows[r].changes ELSE -1]
NoLostChange == Register!Spec

\* Why: the content a request computed its change from is that of the version
\* whose ETag it holds, and ETags are given out once.
Fresh ==
  /\ \A r \in Rule : rows[r].etag <= ver
  /\ \A p \in Proc : pc[p] \in {"opened", "check", "retrieve", "replace"} =>
       LET c == job[p].copy  row == rows[job[p].rule] IN
       /\ c.etag <= ver
       /\ (c.etag # 0 /\ row.etag = c.etag) => row.changes = c.changes
=============================================================================
