-------------------------- MODULE RulesStoreProofs --------------------------
(***************************************************************************)
(* Proofs about RulesStore: type correctness, that blobs whose minute has  *)
(* come stay as they are, that the rules table implements RuleRegister,    *)
(* that a device has one rule per data field but for requests that met,    *)
(* and that callers who take turns leave the newest blob with the rules of *)
(* the table.                                                              *)
(***************************************************************************)
EXTENDS RulesStore, TLAPS

USE ConstantsAssumption DEF Minute

\* What TypeOK says of one request thread.
ThreadOK(l, j) ==
  /\ l \in Label
  /\ j \in Job
  /\ l # "idle" => j.rule \in Rule
  /\ l \in {"opened", "replace", "delete"} => j.copy.etag # 0

StoreOK ==
  /\ rows \in [Rule -> Row]
  /\ ver \in Nat
  /\ blobs \in [Minute -> View \cup {NoBlob}]
  /\ now \in 0..MaxMinute
  /\ ops \in Nat
  /\ stale \in BOOLEAN
  /\ met \in SUBSET SUBSET Rule

LEMMA TypeParts ==
  TypeOK <=> /\ StoreOK
             /\ pc \in [Proc -> Label]
             /\ job \in [Proc -> Job]
             /\ \A p \in Proc : ThreadOK(pc[p], job[p])
BY DEF TypeOK, StoreOK, ThreadOK

\* The values a thread and a row start from.
LEMMA Empty == NoRow \in Row /\ NoJob \in Job /\ ThreadOK("idle", NoJob)
BY DEF NoRow, Row, NoJob, Job, EmptyView, View, ThreadOK, Label

\* A thread that moves to a well-typed label and job keeps all threads so.
LEMMA SetType ==
  ASSUME pc \in [Proc -> Label], job \in [Proc -> Job],
         \A q \in Proc : ThreadOK(pc[q], job[q]),
         NEW p \in Proc, NEW l, NEW j, ThreadOK(l, j), Set(p, l, j)
  PROVE  /\ pc' \in [Proc -> Label]
         /\ job' \in [Proc -> Job]
         /\ \A q \in Proc : ThreadOK(pc'[q], job'[q])
<1>1. l \in Label /\ j \in Job
  BY DEF ThreadOK
<1>2. \A q \in Proc : pc'[q] = (IF q = p THEN l ELSE pc[q]) /\ job'[q] = (IF q = p THEN j ELSE job[q])
  BY DEF Set
<1> QED
  BY <1>1, <1>2 DEF Set

\* Steps that only move a thread.
LEMMA LocalType ==
  ASSUME TypeOK, NEW p \in Proc, NEW l, NEW j, ThreadOK(l, j),
         Local(p, l, j) \/ Start(p, l, j)
  PROVE  TypeOK'
<1>1. Set(p, l, j) /\ UNCHANGED <<rows, ver, blobs, now, stale, met>> /\ (ops' = ops \/ ops' = ops + 1)
  BY DEF Local, Start
<1>2. StoreOK'
  BY <1>1, TypeParts DEF StoreOK
<1>3. /\ pc' \in [Proc -> Label]
      /\ job' \in [Proc -> Job]
      /\ \A q \in Proc : ThreadOK(pc'[q], job'[q])
  BY <1>1, TypeParts, SetType
<1> QED
  BY <1>2, <1>3 DEF TypeOK, StoreOK, ThreadOK

\* Where a table write leaves its thread.
LEMMA AfterType ==
  ASSUME TypeOK, NEW p \in Proc, pc[p] # "idle", After(p)
  PROVE  \E l, j : ThreadOK(l, j) /\ Set(p, l, j)
<1>1. CASE job[p].todo = {}
  BY <1>1, Empty DEF After, Done
<1>2. CASE job[p].todo # {}
  <2>1. ThreadOK("next", job[p])
    BY DEF TypeOK, ThreadOK, Label, Active
  <2> QED
    BY <1>2, <2>1 DEF After
<1> QED
  BY <1>1, <1>2

LEMMA MoveType ==
  ASSUME TypeOK, NEW p \in Proc, StoreOK',
         \E l, j : ThreadOK(l, j) /\ Set(p, l, j)
  PROVE  TypeOK'
<1>1. PICK l, j : ThreadOK(l, j) /\ Set(p, l, j)
  OBVIOUS
<1>2. /\ pc' \in [Proc -> Label]
      /\ job' \in [Proc -> Job]
      /\ \A q \in Proc : ThreadOK(pc'[q], job'[q])
  BY <1>1, TypeParts, SetType
<1> QED
  BY <1>2 DEF TypeOK, StoreOK, ThreadOK

LEMMA ApplyType ==
  ASSUME TypeOK, NEW p \in Proc, pc[p] \in TableWrite, NEW row \in Row,
         Apply(p, row), ver' \in Nat
  PROVE  TypeOK'
<1>2. pc[p] # "idle"
  BY DEF TableWrite
<1>5. job[p].rule \in Rule /\ Rivals(p) \subseteq Rule
  BY <1>2 DEF TypeOK, Rivals, Writing
<1>6. met' \in SUBSET SUBSET Rule
  BY <1>5 DEF Apply, TypeOK
<1>1. StoreOK'
  BY <1>6 DEF Apply, TypeOK, StoreOK
<1>3. ThreadOK("snapshot", job[p])
  BY <1>2 DEF TypeOK, ThreadOK, Label, Active, Publish
<1>4. \E l, j : ThreadOK(l, j) /\ Set(p, l, j)
  <2>1. CASE Set(p, "snapshot", job[p])
    BY <2>1, <1>3
  <2>2. CASE After(p)
    BY <2>2, <1>2, AfterType
  <2> QED
    BY <2>1, <2>2 DEF Apply
<1> QED
  BY <1>1, <1>4, MoveType

LEMMA RejectType ==
  ASSUME TypeOK, NEW p \in Proc, pc[p] \in TableWrite, NEW cond, Reject(p, cond)
  PROVE  TypeOK'
<1>1. StoreOK'
  BY DEF Reject, TypeOK, StoreOK
<1>2. \E l, j : ThreadOK(l, j) /\ Set(p, l, j)
  BY AfterType DEF Reject, TableWrite
<1> QED
  BY <1>1, <1>2, MoveType

LEMMA BeginType ==
  ASSUME TypeOK, NEW p \in Proc, Begin(p)
  PROVE  TypeOK'
<1>1. CASE New(p)
  <2>1. PICK r \in Rule, f \in Field :
          Start(p, "check", [NoJob EXCEPT !.rule = r,
                               !.copy = [NoRow EXCEPT !.field = f, !.enabled = TRUE]])
    BY <1>1 DEF New
  <2>2. PICK j : j = [NoJob EXCEPT !.rule = r,
                        !.copy = [NoRow EXCEPT !.field = f, !.enabled = TRUE]]
    OBVIOUS
  <2>3. ThreadOK("check", j)
    BY <2>2, Empty DEF NoJob, NoRow, Job, Row, ThreadOK, Label, Active
  <2> QED
    BY <2>1, <2>2, <2>3, LocalType
<1>2. CASE Open(p)
  <2>1. PICK r \in Rule : Exists(r) /\ Local(p, "opened", [NoJob EXCEPT !.rule = r, !.copy = rows[r]])
    BY <1>2 DEF Open
  <2>2. PICK j : j = [NoJob EXCEPT !.rule = r, !.copy = rows[r]]
    OBVIOUS
  <2>3. ThreadOK("opened", j)
    BY <2>1, <2>2, Empty DEF NoJob, Job, ThreadOK, Label, TypeOK, Exists
  <2> QED
    BY <2>1, <2>2, <2>3, LocalType
<1>3. CASE Submit(p)
  <2>1. PICK f \in Field : pc[p] = "opened" /\ Start(p, "check", [job[p] EXCEPT !.copy.field = f])
    BY <1>3 DEF Submit
  <2>2. PICK j : j = [job[p] EXCEPT !.copy.field = f]
    OBVIOUS
  <2>3. job[p] \in Job /\ job[p].rule \in Rule
    BY <2>1 DEF TypeOK
  <2>4. ThreadOK("check", j)
    BY <2>2, <2>3 DEF Job, Row, ThreadOK, Label, Active
  <2> QED
    BY <2>1, <2>2, <2>4, LocalType
<1>4. CASE Toggle(p)
  <2>1. PICK r \in Rule, b \in BOOLEAN : Start(p, "get", [NoJob EXCEPT !.rule = r, !.copy.enabled = b])
    BY <1>4 DEF Toggle
  <2>2. PICK j : j = [NoJob EXCEPT !.rule = r, !.copy.enabled = b]
    OBVIOUS
  <2>3. ThreadOK("get", j)
    BY <2>2, Empty DEF NoJob, NoRow, Job, Row, ThreadOK, Label, Active
  <2> QED
    BY <2>1, <2>2, <2>3, LocalType
<1>5. CASE Delete(p)
  <2>1. PICK r \in Rule : Start(p, "getDelete", [NoJob EXCEPT !.rule = r])
    BY <1>5 DEF Delete
  <2>2. PICK j : j = [NoJob EXCEPT !.rule = r]
    OBVIOUS
  <2>3. ThreadOK("getDelete", j)
    BY <2>2, Empty DEF NoJob, Job, ThreadOK, Label, Active
  <2> QED
    BY <2>1, <2>2, <2>3, LocalType
<1>6. CASE Clear(p)
  <2>1. PICK r \in Rule : Start(p, "list", [NoJob EXCEPT !.rule = r])
    BY <1>6 DEF Clear
  <2>2. PICK j : j = [NoJob EXCEPT !.rule = r]
    OBVIOUS
  <2>3. ThreadOK("list", j)
    BY <2>2, Empty DEF NoJob, Job, ThreadOK, Label, Active
  <2> QED
    BY <2>1, <2>2, <2>3, LocalType
<1> QED
  BY <1>1, <1>2, <1>3, <1>4, <1>5, <1>6 DEF Begin

\* What a thread that is not idle works with.
LEMMA Working ==
  ASSUME TypeOK, NEW p \in Proc, pc[p] # "idle"
  PROVE  /\ job[p] \in Job /\ job[p].rule \in Rule /\ job[p].copy \in Row
         /\ rows[job[p].rule] \in Row
BY DEF TypeOK, Job

LEMMA ReadType ==
  ASSUME TypeOK, NEW p \in Proc,
         Check(p) \/ Get(p) \/ GetDelete(p) \/ List(p) \/ NextRule(p) \/ Retrieve(p)
  PROVE  TypeOK'
<1>1. CASE Check(p)
  <2>1. ThreadOK("retrieve", job[p])
    BY <1>1, Working DEF Check, ThreadOK, Label, Active
  <2> QED
    BY <1>1, <2>1, Empty, LocalType DEF Check, Return
<1>2. CASE Get(p)
  <2>1. PICK j : j = [job[p] EXCEPT !.copy = [rows[job[p].rule] EXCEPT !.enabled = job[p].copy.enabled]]
    OBVIOUS
  <2>2. ThreadOK("retrieve", j)
    BY <1>2, <2>1, Working DEF Get, ThreadOK, Label, Active, Job, Row
  <2> QED
    BY <1>2, <2>1, <2>2, Empty, LocalType DEF Get, Return
<1>3. CASE GetDelete(p)
  <2>1. CASE Exists(job[p].rule)
    <3>1. PICK j : j = [job[p] EXCEPT !.copy = rows[job[p].rule]]
      OBVIOUS
    <3>2. ThreadOK("delete", j)
      BY <1>3, <2>1, <3>1, Working DEF GetDelete, ThreadOK, Label, Active, TableWrite, Job, Exists
    <3> QED
      BY <1>3, <2>1, <3>1, <3>2, LocalType DEF GetDelete
  <2>2. CASE ~Exists(job[p].rule)
    BY <1>3, <2>2, Empty, LocalType DEF GetDelete, Return
  <2> QED
    BY <2>1, <2>2
<1>4. CASE List(p)
  <2>1. PICK found : found = {<<r, rows[r].etag>> : r \in RulesOf(Owner[job[p].rule])}
    OBVIOUS
  <2>2. found \in SUBSET (Rule \X (Nat \ {0}))
    BY <2>1 DEF RulesOf, Exists, TypeOK, Row
  <2>3. PICK j : j = [job[p] EXCEPT !.todo = found]
    OBVIOUS
  <2>4. ThreadOK("next", j)
    BY <1>4, <2>2, <2>3, Working DEF List, ThreadOK, Label, Active, Job
  <2> QED
    BY <1>4, <2>1, <2>3, <2>4, Empty, LocalType DEF List, Return
<1>5. CASE NextRule(p)
  <2>1. PICK t \in job[p].todo :
          /\ pc[p] = "next"
          /\ Local(p, "delete", [job[p] EXCEPT !.rule = t[1],
                                  !.copy = [NoRow EXCEPT !.etag = t[2]], !.todo = @ \ {t}])
    BY <1>5 DEF NextRule
  <2>2. t[1] \in Rule /\ t[2] \in Nat \ {0}
    BY <2>1, Working DEF Job
  <2>3. PICK c : c = [NoRow EXCEPT !.etag = t[2]]
    OBVIOUS
  <2>4. c \in Row /\ c.etag # 0
    BY <2>2, <2>3, Empty DEF NoRow, Row
  <2>5. PICK j : j = [job[p] EXCEPT !.rule = t[1], !.copy = c, !.todo = @ \ {t}]
    OBVIOUS
  <2>6. job[p] \in Job
    BY <2>1, Working
  <2>7. ThreadOK("delete", j)
    BY <2>2, <2>4, <2>5, <2>6 DEF ThreadOK, Label, Active, TableWrite, Job
  <2> QED
    BY <2>1, <2>3, <2>5, <2>7, LocalType
<1>6. CASE Retrieve(p)
  <2>1. ThreadOK("insert", job[p])
    BY <1>6, Working DEF Retrieve, ThreadOK, Label, Active, TableWrite
  <2>2. job[p].copy.etag # 0 => ThreadOK("replace", job[p])
    BY <1>6, Working DEF Retrieve, ThreadOK, Label, Active, TableWrite
  <2> QED
    BY <1>6, <2>1, <2>2, Empty, LocalType DEF Retrieve, Return
<1> QED
  BY <1>1, <1>2, <1>3, <1>4, <1>5, <1>6

\* The rows Replace and Insert write.
LEMMA WrittenRow ==
  ASSUME TypeOK, NEW p \in Proc, pc[p] # "idle"
  PROVE  /\ LET row == [job[p].copy EXCEPT !.changes = @ + 1, !.etag = ver + 1]
            IN  row \in Row /\ row.etag = ver + 1 /\ row.changes = job[p].copy.changes + 1
                /\ row.field = job[p].copy.field
         /\ LET row == [job[p].copy EXCEPT !.changes = 0, !.etag = ver + 1]
            IN  row \in Row /\ row.etag = ver + 1 /\ row.changes = 0
                /\ row.field = job[p].copy.field
<1>1. PICK c, n : c = job[p].copy /\ n = ver + 1
  OBVIOUS
<1>2. c \in Row /\ n \in Nat
  BY <1>1, Working DEF TypeOK
<1>3. c.changes + 1 \in Nat
  BY <1>2 DEF Row
<1>4. PICK u, v : u = [c EXCEPT !.changes = @ + 1, !.etag = n] /\ v = [c EXCEPT !.changes = 0, !.etag = n]
  OBVIOUS
<1>5. u = [field |-> c.field, enabled |-> c.enabled, changes |-> c.changes + 1, etag |-> n]
  BY <1>2, <1>4 DEF Row
<1>6. v = [field |-> c.field, enabled |-> c.enabled, changes |-> 0, etag |-> n]
  BY <1>2, <1>4 DEF Row
<1>7. u \in Row /\ v \in Row
  BY <1>2, <1>3, <1>5, <1>6 DEF Row
<1> QED
  BY <1>1, <1>4, <1>5, <1>6, <1>7

LEMMA WriteType ==
  ASSUME TypeOK, NEW p \in Proc, Replace(p) \/ Insert(p) \/ DeleteRow(p)
  PROVE  TypeOK'
<1>1. CASE Replace(p)
  <2>1. PICK row : row = [job[p].copy EXCEPT !.changes = @ + 1, !.etag = ver + 1]
    OBVIOUS
  <2>2. row \in Row
    BY <1>1, <2>1, WrittenRow DEF Replace
  <2> QED
    BY <1>1, <2>1, <2>2, ApplyType, RejectType DEF Replace, TableWrite, TypeOK
<1>2. CASE Insert(p)
  <2>1. PICK row : row = [job[p].copy EXCEPT !.changes = 0, !.etag = ver + 1]
    OBVIOUS
  <2>2. row \in Row
    BY <1>2, <2>1, WrittenRow DEF Insert
  <2> QED
    BY <1>2, <2>1, <2>2, ApplyType, RejectType DEF Insert, TableWrite, TypeOK
<1>3. CASE DeleteRow(p)
  BY <1>3, Empty, ApplyType, RejectType DEF DeleteRow, TableWrite, TypeOK
<1> QED
  BY <1>1, <1>2, <1>3

LEMMA PublishType ==
  ASSUME TypeOK, NEW p \in Proc, Snapshot(p) \/ Name(p) \/ Upload(p) \/ Throw(p)
  PROVE  TypeOK'
<1>1. CASE Snapshot(p)
  <2>1. PICK v \in [Device \X Field -> 0..ver] :
          pc[p] = "snapshot" /\ Local(p, "name", [job[p] EXCEPT !.view = v])
    BY <1>1 DEF Snapshot
  <2>2. v \in View
    BY DEF View, TypeOK
  <2>3. PICK j : j = [job[p] EXCEPT !.view = v]
    OBVIOUS
  <2>4. ThreadOK("name", j)
    BY <2>1, <2>2, <2>3, Working DEF ThreadOK, Label, Active, Publish, Job
  <2> QED
    BY <2>1, <2>3, <2>4, LocalType
<1>2. CASE Name(p)
  <2>1. PICK j : j = [job[p] EXCEPT !.slot = now + Lookahead]
    OBVIOUS
  <2>2. now + Lookahead \in Minute
    BY DEF TypeOK
  <2>3. ThreadOK("upload", j)
    BY <1>2, <2>1, <2>2, Working DEF Name, ThreadOK, Label, Active, Publish, Job
  <2> QED
    BY <1>2, <2>1, <2>3, LocalType DEF Name
<1>3. CASE Upload(p)
  <2>1. job[p].view \in View /\ job[p].slot \in Minute
    BY <1>3, Working DEF Upload, Job
  <2>2. StoreOK'
    BY <1>3, <2>1 DEF Upload, TypeOK, StoreOK
  <2> QED
    BY <1>3, <2>2, AfterType, MoveType DEF Upload
<1>4. CASE Throw(p)
  <2>1. StoreOK'
    BY <1>4 DEF Throw, TypeOK, StoreOK
  <2> QED
    BY <1>4, <2>1, Empty, MoveType DEF Throw, Done
<1> QED
  BY <1>1, <1>2, <1>3, <1>4

LEMMA InitType == Init => TypeOK
<1> SUFFICES ASSUME Init PROVE TypeOK
  OBVIOUS
<1>1. StoreOK
  <2>1. rows \in [Rule -> Row] /\ blobs \in [Minute -> View \cup {NoBlob}]
    BY Empty DEF Init
  <2>2. now \in 0..MaxMinute
    BY DEF Init
  <2> QED
    BY <2>1, <2>2 DEF Init, StoreOK
<1>2. /\ pc \in [Proc -> Label]
      /\ job \in [Proc -> Job]
      /\ \A p \in Proc : ThreadOK(pc[p], job[p])
  BY Empty DEF Init, Label
<1> QED
  BY <1>1, <1>2, TypeParts

LEMMA NextType == TypeOK /\ [Next]_vars => TypeOK'
<1> SUFFICES ASSUME TypeOK, [Next]_vars PROVE TypeOK'
  OBVIOUS
<1>1. CASE Tick
  BY <1>1 DEF Tick, TypeOK
<1>2. ASSUME NEW p \in Proc, Begin(p) PROVE TypeOK'
  BY <1>2, BeginType
<1>3. ASSUME NEW p \in Proc, Call(p) PROVE TypeOK'
  BY <1>3, ReadType, WriteType, PublishType DEF Call
<1>4. CASE UNCHANGED vars
  BY <1>4 DEF vars, TypeOK
<1> QED
  BY <1>1, <1>2, <1>3, <1>4 DEF Next

\* The stores, the clock and the request threads keep their types, and a
\* conditional write always carries the ETag of a version that was read.
THEOREM TypeCorrect == Spec => []TypeOK
BY InitType, NextType, PTL DEF Spec

-----------------------------------------------------------------------------
(* Blobs whose minute has come.                                            *)

\* An upload under way was named at most MaxDelay minutes ago.
Timely == \A p \in Proc : pc[p] = "upload" => now <= job[p].slot - Lookahead + MaxDelay

\* A thread that moves to another label is no longer, or not yet, uploading.
LEMMA SetTimely ==
  ASSUME TypeOK, Timely, NEW p \in Proc, NEW l, NEW j, Set(p, l, j), now' = now,
         l = "upload" => now <= j.slot - Lookahead + MaxDelay
  PROVE  Timely'
<1>1. \A q \in Proc : pc'[q] = (IF q = p THEN l ELSE pc[q]) /\ job'[q] = (IF q = p THEN j ELSE job[q])
  BY DEF Set, TypeOK
<1> QED
  BY <1>1 DEF Timely

LEMMA AfterTimely ==
  ASSUME TypeOK, Timely, NEW p \in Proc, After(p) \/ Done(p), now' = now
  PROVE  Timely'
BY SetTimely DEF After, Done

LEMMA BeginTimely ==
  ASSUME TypeOK, Timely, NEW p \in Proc, Begin(p)
  PROVE  Timely'
<1>1. PICK l, j : l \in {"check", "opened", "get", "getDelete", "list"} /\ Set(p, l, j) /\ now' = now
  BY DEF Begin, New, Open, Submit, Toggle, Delete, Clear, Start, Local
<1> QED
  BY <1>1, SetTimely

LEMMA CallTimely ==
  ASSUME TypeOK, Timely, NEW p \in Proc, Call(p)
  PROVE  Timely'
<1>1. CASE Check(p) \/ Get(p) \/ GetDelete(p) \/ List(p) \/ NextRule(p) \/ Retrieve(p) \/ Snapshot(p)
  <2>1. PICK l, j : l \in {"idle", "retrieve", "delete", "next", "insert", "replace", "name"} /\
          Set(p, l, j) /\ now' = now
    BY <1>1 DEF Check, Get, GetDelete, List, NextRule, Retrieve, Snapshot, Return, Local
  <2> QED
    BY <2>1, SetTimely
<1>2. CASE Replace(p) \/ Insert(p) \/ DeleteRow(p)
  <2>1. now' = now /\ (After(p) \/ Set(p, "snapshot", job[p]))
    BY <1>2 DEF Replace, Insert, DeleteRow, Apply, Reject
  <2> QED
    BY <2>1, AfterTimely, SetTimely
<1>3. CASE Name(p)
  <2>1. PICK j : j = [job[p] EXCEPT !.slot = now + Lookahead]
    OBVIOUS
  <2>2. j.slot = now + Lookahead
    BY <1>3, <2>1, Working DEF Name, Job
  <2>3. now <= j.slot - Lookahead + MaxDelay
    BY <2>2 DEF TypeOK
  <2> QED
    BY <1>3, <2>1, <2>3, SetTimely DEF Name, Local
<1>4. CASE Upload(p) \/ Throw(p)
  BY <1>4, AfterTimely DEF Upload, Throw
<1> QED
  BY <1>1, <1>2, <1>3, <1>4 DEF Call

LEMMA NextTimely == TypeOK /\ Timely /\ [Next]_vars => Timely'
<1> SUFFICES ASSUME TypeOK, Timely, [Next]_vars PROVE Timely'
  OBVIOUS
<1>1. CASE Tick
  BY <1>1 DEF Tick, Timely
<1>2. CASE UNCHANGED vars
  BY <1>2 DEF vars, Timely
<1> QED
  BY <1>1, <1>2, BeginTimely, CallTimely DEF Next

LEMMA NextFuture ==
  TypeOK /\ Timely /\ [Next]_vars => [\A m \in Minute : blobs'[m] # blobs[m] => m > now]_vars
<1> SUFFICES ASSUME TypeOK, Timely, [Next]_vars, NEW m \in Minute, blobs'[m] # blobs[m]
             PROVE  m > now
  OBVIOUS
<1>1. PICK p \in Proc : Upload(p)
  BY DEF Next, Tick, vars, Begin, New, Open, Submit, Toggle, Delete, Clear, Start, Local,
         Call, Check, Get, GetDelete, List, NextRule, Retrieve, Return, Replace, Insert,
         DeleteRow, Apply, Reject, Snapshot, Name, Throw
<1>2. m = job[p].slot
  BY <1>1 DEF Upload, TypeOK
<1>3. now <= m - Lookahead + MaxDelay
  BY <1>1, <1>2 DEF Upload, Timely
<1> QED
  BY <1>3, DelayAssumption DEF TypeOK

\* However many threads upload at once and whichever calls fail, a blob whose
\* minute has come is never written: it suffices that an upload takes less
\* minutes than blobSaveMinutesInTheFuture.
THEOREM FutureBlobs == Spec => FutureBlobsOnly
<1>1. Init => Timely
  BY DEF Init, Timely
<1> QED
  BY <1>1, InitType, NextType, NextTimely, NextFuture, PTL DEF Spec, FutureBlobsOnly

-----------------------------------------------------------------------------
(* The table implements RuleRegister.                                      *)

Holding == {"opened", "check", "retrieve", "replace"}

\* What Fresh says of one thread.
KnownTo(l, j) ==
  l \in Holding =>
    /\ j.copy.etag <= ver
    /\ (j.copy.etag # 0 /\ rows[j.rule].etag = j.copy.etag) => rows[j.rule].changes = j.copy.changes

LEMMA FreshParts ==
  Fresh <=> /\ \A r \in Rule : rows[r].etag <= ver
            /\ \A p \in Proc : KnownTo(pc[p], job[p])
BY DEF Fresh, KnownTo, Holding

\* Steps that leave the table alone.
LEMMA SetFresh ==
  ASSUME TypeOK, Fresh, NEW p \in Proc, NEW l, NEW j, Set(p, l, j), KnownTo(l, j),
         UNCHANGED <<rows, ver>>
  PROVE  Fresh'
<1>1. \A q \in Proc : pc'[q] = (IF q = p THEN l ELSE pc[q]) /\ job'[q] = (IF q = p THEN j ELSE job[q])
  BY DEF Set, TypeOK
<1> QED
  BY <1>1, FreshParts DEF Fresh, KnownTo, Holding

\* A write gives its row an ETag nobody holds, or removes it.
LEMMA ApplyFresh ==
  ASSUME TypeOK, Fresh, NEW p \in Proc, pc[p] \in TableWrite, NEW row \in Row, Apply(p, row),
         \/ ver' = ver + 1 /\ row.etag = ver + 1
         \/ ver' = ver /\ row.etag = 0
  PROVE  Fresh'
<1>1. /\ pc'[p] \notin Holding
      /\ \A q \in Proc \ {p} : pc'[q] = pc[q] /\ job'[q] = job[q]
  BY DEF Apply, After, Done, Set, TypeOK, Holding
<1>2. job[p].rule \in Rule
  BY Working DEF TableWrite
<1>3. \A r \in Rule : rows'[r] = IF r = job[p].rule THEN row ELSE rows[r]
  BY <1>2 DEF Apply, TypeOK
<1>4. \A r \in Rule : rows[r].etag \in Nat /\ rows[r].etag <= ver
  BY DEF TypeOK, Fresh, Row
<1>5. ver \in Nat
  BY DEF TypeOK
<1>6. \A r \in Rule : rows'[r].etag <= ver'
  BY <1>3, <1>4, <1>5
<1>7. ASSUME NEW q \in Proc, pc'[q] \in Holding PROVE KnownTo(pc[q], job[q])'
  <2>1. q # p /\ pc'[q] = pc[q] /\ job'[q] = job[q] /\ pc[q] \in Holding
    BY <1>1, <1>7
  <2>2. /\ job[q].rule \in Rule
        /\ job[q].copy.etag \in Nat
    BY <2>1, Working DEF Holding, Row
  <2>3. KnownTo(pc[q], job[q])
    BY FreshParts
  <2>4. job[q].copy.etag <= ver
    BY <2>1, <2>3 DEF KnownTo
  <2>5. CASE job[q].rule = job[p].rule
    <3>1. rows'[job[q].rule].etag = row.etag
      BY <1>3, <2>2, <2>5
    <3> QED
      BY <1>5, <2>1, <2>2, <2>4, <3>1 DEF KnownTo
  <2>6. CASE job[q].rule # job[p].rule
    <3>1. rows'[job[q].rule] = rows[job[q].rule]
      BY <1>3, <2>2, <2>6
    <3> QED
      BY <1>5, <2>1, <2>2, <2>3, <2>4, <3>1 DEF KnownTo
  <2> QED
    BY <2>5, <2>6
<1> QED
  BY <1>6, <1>7 DEF Fresh, KnownTo, Holding

LEMMA BeginFresh ==
  ASSUME TypeOK, Fresh, NEW p \in Proc, Begin(p)
  PROVE  Fresh'
<1>1. CASE Open(p)
  <2>1. PICK r \in Rule : Local(p, "opened", [NoJob EXCEPT !.rule = r, !.copy = rows[r]])
    BY <1>1 DEF Open
  <2>2. PICK j : j = [NoJob EXCEPT !.rule = r, !.copy = rows[r]]
    OBVIOUS
  <2>3. j.rule = r /\ j.copy = rows[r]
    BY <2>2 DEF NoJob
  <2>4. KnownTo("opened", j)
    BY <2>3 DEF KnownTo, Fresh
  <2> QED
    BY <2>1, <2>2, <2>4, SetFresh DEF Local
<1>2. CASE Submit(p)
  <2>1. PICK f \in Field : pc[p] = "opened" /\ Start(p, "check", [job[p] EXCEPT !.copy.field = f])
    BY <1>2 DEF Submit
  <2>2. PICK j : j = [job[p] EXCEPT !.copy.field = f]
    OBVIOUS
  <2>3. j.rule = job[p].rule /\ j.copy.etag = job[p].copy.etag /\ j.copy.changes = job[p].copy.changes
    BY <2>1, <2>2, Working DEF Job, Row
  <2>4. KnownTo(pc[p], job[p])
    BY FreshParts
  <2>5. KnownTo("check", j)
    BY <2>1, <2>3, <2>4 DEF KnownTo, Holding
  <2> QED
    BY <2>1, <2>2, <2>5, SetFresh DEF Start
<1>3. CASE New(p)
  <2>1. PICK r \in Rule, f \in Field :
          Start(p, "check", [NoJob EXCEPT !.rule = r,
                               !.copy = [NoRow EXCEPT !.field = f, !.enabled = TRUE]])
    BY <1>3 DEF New
  <2>2. PICK j : j = [NoJob EXCEPT !.rule = r,
                        !.copy = [NoRow EXCEPT !.field = f, !.enabled = TRUE]]
    OBVIOUS
  <2>3. j.copy.etag = 0
    BY <2>2 DEF NoJob, NoRow
  <2>4. KnownTo("check", j)
    BY <2>3 DEF KnownTo, TypeOK
  <2> QED
    BY <2>1, <2>2, <2>4, SetFresh DEF Start
<1>4. CASE Toggle(p) \/ Delete(p) \/ Clear(p)
  <2>1. PICK l, j : l \in {"get", "getDelete", "list"} /\ Start(p, l, j)
    <3>1. CASE Toggle(p)
      BY <3>1 DEF Toggle
    <3>2. CASE Delete(p)
      BY <3>2 DEF Delete
    <3>3. CASE Clear(p)
      BY <3>3 DEF Clear
    <3> QED
      BY <1>4, <3>1, <3>2, <3>3
  <2>2. KnownTo(l, j)
    BY <2>1 DEF KnownTo, Holding
  <2> QED
    BY <2>1, <2>2, SetFresh DEF Start
<1> QED
  BY <1>1, <1>2, <1>3, <1>4 DEF Begin

LEMMA CallFresh ==
  ASSUME TypeOK, Fresh, NEW p \in Proc, Call(p)
  PROVE  Fresh'
<1>1. CASE Check(p) \/ Retrieve(p)
  <2>1. PICK l \in {"retrieve", "replace", "insert", "idle"} :
          /\ pc[p] \in Holding
          /\ Local(p, l, IF l = "idle" THEN NoJob ELSE job[p])
    BY <1>1 DEF Check, Retrieve, Return, Holding
  <2>2. KnownTo(pc[p], job[p])
    BY FreshParts
  <2>3. KnownTo(l, IF l = "idle" THEN NoJob ELSE job[p])
    BY <2>1, <2>2 DEF KnownTo, Holding
  <2> QED
    BY <2>1, <2>3, SetFresh DEF Local
<1>2. CASE Get(p)
  <2>1. CASE Exists(job[p].rule)
    <3>1. PICK j : j = [job[p] EXCEPT !.copy = [rows[job[p].rule] EXCEPT !.enabled = job[p].copy.enabled]]
      OBVIOUS
    <3>2. /\ j.rule = job[p].rule /\ j.rule \in Rule
          /\ j.copy.etag = rows[j.rule].etag /\ j.copy.changes = rows[j.rule].changes
      BY <1>2, <3>1, Working DEF Get, Job, Row
    <3>3. KnownTo("retrieve", j)
      BY <3>2 DEF KnownTo, Fresh
    <3> QED
      BY <1>2, <2>1, <3>1, <3>3, SetFresh DEF Get, Local
  <2>2. CASE ~Exists(job[p].rule)
    BY <1>2, <2>2, SetFresh DEF Get, Return, Local, KnownTo, Holding
  <2> QED
    BY <2>1, <2>2
<1>3. CASE GetDelete(p) \/ List(p) \/ NextRule(p) \/ Snapshot(p) \/ Name(p) \/ Upload(p) \/ Throw(p)
  <2>1. PICK l, j : l \in {"idle", "delete", "next", "name", "upload"} /\ Set(p, l, j) /\ UNCHANGED <<rows, ver>>
    BY <1>3 DEF GetDelete, List, NextRule, Snapshot, Name, Upload, Throw, Return, Local, After, Done
  <2>2. KnownTo(l, j)
    BY <2>1 DEF KnownTo, Holding
  <2> QED
    BY <2>1, <2>2, SetFresh
<1>4. CASE Replace(p) \/ Insert(p) \/ DeleteRow(p)
  <2>1. CASE UNCHANGED <<rows, ver>> /\ After(p)
    <3>1. PICK l, j : l \in {"idle", "next"} /\ Set(p, l, j)
      BY <2>1 DEF After, Done
    <3> QED
      BY <2>1, <3>1, SetFresh DEF KnownTo, Holding
  <2>2. ASSUME NEW row \in Row, Apply(p, row),
               \/ ver' = ver + 1 /\ row.etag = ver + 1
               \/ ver' = ver /\ row.etag = 0
        PROVE  Fresh'
    BY <1>4, <2>2, ApplyFresh DEF Replace, Insert, DeleteRow, TableWrite
  <2>3. CASE Replace(p)
    <3>1. PICK row : row = [job[p].copy EXCEPT !.changes = @ + 1, !.etag = ver + 1]
      OBVIOUS
    <3>2. row \in Row /\ row.etag = ver + 1
      BY <2>3, <3>1, WrittenRow DEF Replace
    <3> QED
      BY <2>1, <2>2, <2>3, <3>1, <3>2 DEF Replace, Reject
  <2>4. CASE Insert(p)
    <3>1. PICK row : row = [job[p].copy EXCEPT !.changes = 0, !.etag = ver + 1]
      OBVIOUS
    <3>2. row \in Row /\ row.etag = ver + 1
      BY <2>4, <3>1, WrittenRow DEF Insert
    <3> QED
      BY <2>1, <2>2, <2>4, <3>1, <3>2 DEF Insert, Reject
  <2>5. CASE DeleteRow(p)
    BY <2>1, <2>2, <2>5, Empty DEF DeleteRow, Reject, NoRow
  <2> QED
    BY <1>4, <2>3, <2>4, <2>5
<1> QED
  BY <1>1, <1>2, <1>3, <1>4 DEF Call

LEMMA NextFresh == TypeOK /\ Fresh /\ [Next]_vars => Fresh'
<1> SUFFICES ASSUME TypeOK, Fresh, [Next]_vars PROVE Fresh'
  OBVIOUS
<1>1. CASE Tick
  BY <1>1 DEF Tick, Fresh
<1>2. CASE UNCHANGED vars
  BY <1>2 DEF vars, Fresh
<1> QED
  BY <1>1, <1>2, BeginFresh, CallFresh DEF Next

\* The register's state, as RulesStore holds it.
Abs == [r \in Rule |-> IF Exists(r) THEN rows[r].changes ELSE -1]

\* A write maps to the creation, the change or the deletion of its rule.
LEMMA WriteSteps ==
  ASSUME TypeOK, Fresh, NEW p \in Proc, Replace(p) \/ Insert(p) \/ DeleteRow(p),
         UNCHANGED rows => Abs' = Abs
  PROVE  Register!Next \/ Abs' = Abs
<1>1. PICK r \in Rule :
        r = job[p].rule /\ pc[p] # "idle" /\ rows[r] \in Row /\ ver + 1 # 0
  BY Working DEF Replace, Insert, DeleteRow, TypeOK
<1>2. ASSUME NEW row, Apply(p, row)
      PROVE  \A s \in Rule : rows'[s] = IF s = r THEN row ELSE rows[s]
  BY <1>1, <1>2 DEF Apply, TypeOK
<1>3. CASE Replace(p)
  <2>1. CASE UNCHANGED rows
    BY <2>1
  <2>2. CASE ~UNCHANGED rows
    <3>1. /\ pc[p] = "replace" /\ rows[r].etag = job[p].copy.etag
          /\ Apply(p, [job[p].copy EXCEPT !.changes = @ + 1, !.etag = ver + 1])
      BY <1>1, <1>3, <2>2 DEF Replace, Reject
    <3>2. PICK row : row = [job[p].copy EXCEPT !.changes = @ + 1, !.etag = ver + 1]
      OBVIOUS
    <3>3. row.etag = ver + 1 /\ row.changes = job[p].copy.changes + 1
                /\ row.field = job[p].copy.field
      BY <1>1, <3>2, WrittenRow
    <3>4. rows[r].changes = job[p].copy.changes /\ rows[r].etag # 0
      BY <1>1, <3>1 DEF Fresh, TypeOK
    <3>5. \A s \in Rule : rows'[s] = IF s = r THEN row ELSE rows[s]
      BY <1>2, <3>1, <3>2
    <3>6. Register!Change(r)
      BY <1>1, <3>3, <3>4, <3>5 DEF Register!Change, Register!Absent, Exists, Row
    <3> QED
      BY <1>1, <3>6 DEF Register!Next
  <2> QED
    BY <2>1, <2>2
<1>4. CASE Insert(p)
  <2>1. CASE UNCHANGED rows
    BY <2>1
  <2>2. CASE ~UNCHANGED rows
    <3>1. /\ pc[p] = "insert" /\ ~Exists(r)
          /\ Apply(p, [job[p].copy EXCEPT !.changes = 0, !.etag = ver + 1])
      BY <1>1, <1>4, <2>2 DEF Insert, Reject
    <3>2. PICK row : row = [job[p].copy EXCEPT !.changes = 0, !.etag = ver + 1]
      OBVIOUS
    <3>3. row.etag = ver + 1 /\ row.changes = 0
      BY <1>1, <3>2, WrittenRow
    <3>4. \A s \in Rule : rows'[s] = IF s = r THEN row ELSE rows[s]
      BY <1>2, <3>1, <3>2
    <3>5. Register!Create(r)
      BY <1>1, <3>1, <3>3, <3>4 DEF Register!Create, Register!Absent, Exists
    <3> QED
      BY <1>1, <3>5 DEF Register!Next
  <2> QED
    BY <2>1, <2>2
<1>5. CASE DeleteRow(p)
  <2>1. CASE UNCHANGED rows
    BY <2>1
  <2>2. CASE ~UNCHANGED rows
    <3>1. /\ pc[p] = "delete" /\ rows[r].etag = job[p].copy.etag
          /\ Apply(p, NoRow)
      BY <1>1, <1>5, <2>2 DEF DeleteRow, Reject
    <3>2. rows[r].etag # 0
      BY <3>1 DEF TypeOK
    <3>3. \A s \in Rule : rows'[s] = IF s = r THEN NoRow ELSE rows[s]
      BY <1>2, <3>1
    <3>4. Register!Delete(r)
      BY <1>1, <3>2, <3>3 DEF Register!Delete, Register!Absent, Exists, NoRow, Row
    <3> QED
      BY <1>1, <3>4 DEF Register!Next
  <2> QED
    BY <2>1, <2>2
<1> QED
  BY <1>3, <1>4, <1>5

LEMMA NextSteps == TypeOK /\ Fresh /\ [Next]_vars => [Register!Next]_Abs
<1> SUFFICES ASSUME TypeOK, Fresh, [Next]_vars PROVE Register!Next \/ Abs' = Abs
  OBVIOUS
<1>1. UNCHANGED rows => Abs' = Abs
  BY DEF Abs, Exists
<1>2. CASE \E p \in Proc : Replace(p) \/ Insert(p) \/ DeleteRow(p)
  BY <1>1, <1>2, WriteSteps
<1>3. CASE ~\E p \in Proc : Replace(p) \/ Insert(p) \/ DeleteRow(p)
  <2>1. UNCHANGED rows
    BY <1>3 DEF Next, Tick, vars, Begin, New, Open, Submit, Toggle, Delete, Clear, Start, Local,
           Call, Check, Get, GetDelete, List, NextRule, Retrieve, Return, Snapshot, Name, Upload, Throw
  <2> QED
    BY <1>1, <2>1
<1> QED
  BY <1>2, <1>3

LEMMA FreshInvariant == Spec => [](TypeOK /\ Fresh)
<1>1. Init => Fresh
  BY DEF Init, Fresh, NoRow
<1> QED
  BY <1>1, InitType, NextType, NextFresh, PTL DEF Spec

\* For any number of threads, rules and failures: a change that goes through
\* was computed from the content it replaces.  The ETag check suffices because
\* of Fresh: who holds the ETag of the stored version holds its content.
THEOREM RegisterImplemented == Spec => NoLostChange
<1>1. Init => Register!Init
  BY DEF Init, Register!Init, Register!Absent, Exists, NoRow
<1>2. TypeOK /\ Fresh /\ [Next]_vars => [Register!Next]_Abs
  BY NextSteps
<1> QED
  BY <1>1, <1>2, FreshInvariant, PTL DEF Spec, NoLostChange, Register!Spec, Abs

-----------------------------------------------------------------------------
(* Rules with one data field.                                              *)

\* A rival for the field of the rule that a thread is about to write was written
\* while the thread was past its check.
NoRival(l, j) ==
  l \in Writing =>
    \A s \in Rule :
      Exists(s) /\ Owner[s] = Owner[j.rule] /\ rows[s].field = j.copy.field =>
        s = j.rule \/ {s, j.rule} \in met

Claimed == \A p \in Proc : NoRival(pc[p], job[p])

LEMMA SetClaimed ==
  ASSUME TypeOK, Claimed, UniqueField, NEW p \in Proc, NEW l, NEW j, Set(p, l, j), NoRival(l, j),
         UNCHANGED <<rows, met>>
  PROVE  Claimed' /\ UniqueField'
<1>1. \A q \in Proc : pc'[q] = (IF q = p THEN l ELSE pc[q]) /\ job'[q] = (IF q = p THEN j ELSE job[q])
  BY DEF Set, TypeOK
<1>2. \A s \in Rule : Exists(s)' <=> Exists(s)
  BY DEF Exists
<1> QED
  BY <1>1, <1>2 DEF Claimed, NoRival, UniqueField

\* Who writes a rule does so against all threads that are past their check.
LEMMA ApplyClaimed ==
  ASSUME TypeOK, Claimed, UniqueField, NEW p \in Proc, pc[p] \in TableWrite,
         NEW row, Apply(p, row),
         row.etag = 0 \/ (pc[p] \in Writing /\ row.field = job[p].copy.field)
  PROVE  Claimed' /\ UniqueField'
<1>1. PICK r \in Rule : r = job[p].rule
  BY Working DEF TableWrite
<1>2. \A s \in Rule : rows'[s] = IF s = r THEN row ELSE rows[s]
  BY <1>1 DEF Apply, TypeOK
<1>3. /\ pc'[p] \notin Writing
      /\ \A q \in Proc \ {p} : pc'[q] = pc[q] /\ job'[q] = job[q]
  BY DEF Apply, After, Done, Set, TypeOK, Writing
<1>4. met \subseteq met'
  BY DEF Apply
<1>5. ASSUME NEW q \in Proc, pc'[q] \in Writing, NEW s \in Rule, rows'[s].etag # 0,
             Owner[s] = Owner[job'[q].rule], rows'[s].field = job'[q].copy.field
      PROVE  s = job'[q].rule \/ {s, job'[q].rule} \in met'
  <2>1. pc[q] \in Writing /\ job'[q] = job[q]
    BY <1>3, <1>5
  <2>2. CASE s = r
    <3>1. rows'[s] = row /\ pc[p] \in Writing /\ row.field = job[p].copy.field
      BY <1>2, <1>5, <2>2
    <3>2. job[q].rule = r \/ job[q].rule \in Rivals(p)
      BY <1>1, <1>5, <2>1, <2>2, <3>1 DEF Rivals
    <3>3. CASE job[q].rule \in Rivals(p)
      <4>1. {r, job[q].rule} \in met'
        BY <1>1, <3>1, <3>3 DEF Apply
      <4> QED
        BY <2>1, <2>2, <4>1
    <3> QED
      BY <2>1, <2>2, <3>2, <3>3
  <2>3. CASE s # r
    <3>1. rows'[s] = rows[s]
      BY <1>2, <2>3
    <3>2. NoRival(pc[q], job[q])
      BY DEF Claimed
    <3> QED
      BY <1>4, <1>5, <2>1, <3>1, <3>2 DEF NoRival, Exists
  <2> QED
    BY <2>2, <2>3
<1>6. ASSUME NEW s \in Rule, s # r, rows[s].etag # 0, rows'[r].etag # 0,
             Owner[s] = Owner[r], rows[s].field = rows'[r].field
      PROVE  {s, r} \in met'
  <2>1. NoRival(pc[p], job[p])
    BY DEF Claimed
  <2>2. pc[p] \in Writing /\ rows'[r].field = job[p].copy.field
    BY <1>2, <1>6
  <2> QED
    BY <1>1, <1>4, <1>6, <2>1, <2>2 DEF NoRival, Exists
<1>7. ASSUME NEW s \in Rule, NEW t \in Rule, rows'[s].etag # 0, rows'[t].etag # 0,
             Owner[s] = Owner[t], rows'[s].field = rows'[t].field, s # t
      PROVE  {s, t} \in met'
  <2>1. CASE s # r /\ t # r
    BY <1>2, <1>4, <1>7, <2>1 DEF UniqueField, Exists
  <2>2. CASE t = r
    BY <1>2, <1>6, <1>7, <2>2
  <2>3. CASE s = r
    <3>1. {t, s} \in met'
      BY <1>2, <1>6, <1>7, <2>3
    <3>2. {t, s} = {s, t}
      OBVIOUS
    <3> QED
      BY <3>1, <3>2
  <2> QED
    BY <2>1, <2>2, <2>3
<1>8. Claimed'
  BY <1>5 DEF Claimed, NoRival, Exists
<1>9. UniqueField'
  BY <1>7 DEF UniqueField, Exists
<1> QED
  BY <1>8, <1>9

LEMMA BeginClaimed ==
  ASSUME TypeOK, Claimed, UniqueField, NEW p \in Proc, Begin(p)
  PROVE  Claimed' /\ UniqueField'
<1>1. UNCHANGED rows /\ UNCHANGED met
  BY DEF Begin, New, Open, Submit, Toggle, Delete, Clear, Start, Local
<1>2. PICK l, j : l \in {"check", "opened", "get", "getDelete", "list"} /\ Set(p, l, j)
  <2>1. CASE New(p)
    BY <2>1 DEF New, Start
  <2>2. CASE Open(p)
    BY <2>2 DEF Open, Local
  <2>3. CASE Submit(p)
    BY <2>3 DEF Submit, Start
  <2>4. CASE Toggle(p)
    BY <2>4 DEF Toggle, Start
  <2>5. CASE Delete(p)
    BY <2>5 DEF Delete, Start
  <2>6. CASE Clear(p)
    BY <2>6 DEF Clear, Start
  <2> QED
    BY <2>1, <2>2, <2>3, <2>4, <2>5, <2>6 DEF Begin
<1> QED
  BY <1>1, <1>2, SetClaimed DEF NoRival, Writing

LEMMA CallClaimed ==
  ASSUME TypeOK, Claimed, UniqueField, NEW p \in Proc, Call(p)
  PROVE  Claimed' /\ UniqueField'
<1>1. CASE Check(p)
  <2>1. CASE Duplicates(p) = {}
    <3>1. NoRival("retrieve", job[p])
      BY <2>1 DEF NoRival, Duplicates, RulesOf
    <3> QED
      BY <1>1, <2>1, <3>1, SetClaimed DEF Check, Local
  <2>2. CASE Duplicates(p) # {}
    BY <1>1, <2>2, SetClaimed DEF Check, Local, Return, NoRival, Writing
  <2> QED
    BY <2>1, <2>2
<1>2. CASE Get(p)
  <2>1. CASE Exists(job[p].rule)
    <3>1. PICK j : j = [job[p] EXCEPT !.copy = [rows[job[p].rule] EXCEPT !.enabled = job[p].copy.enabled]]
      OBVIOUS
    <3>2. /\ j.rule = job[p].rule /\ j.rule \in Rule
          /\ j.copy.field = rows[j.rule].field
          /\ rows[j.rule].etag # 0
      BY <1>2, <2>1, <3>1, Working DEF Get, Job, Row, Exists
    <3>3. NoRival("retrieve", j)
      BY <3>2 DEF NoRival, UniqueField, Exists
    <3> QED
      BY <1>2, <2>1, <3>1, <3>3, SetClaimed DEF Get, Local
  <2>2. CASE ~Exists(job[p].rule)
    BY <1>2, <2>2, SetClaimed DEF Get, Return, Local, NoRival, Writing
  <2> QED
    BY <2>1, <2>2
<1>3. CASE Retrieve(p)
  <2>1. PICK l \in {"replace", "insert", "idle"} :
          pc[p] = "retrieve" /\ Local(p, l, IF l = "idle" THEN NoJob ELSE job[p])
    BY <1>3 DEF Retrieve, Return
  <2>2. NoRival(pc[p], job[p])
    BY DEF Claimed
  <2>3. NoRival(l, IF l = "idle" THEN NoJob ELSE job[p])
    BY <2>1, <2>2 DEF NoRival, Writing
  <2> QED
    BY <2>1, <2>3, SetClaimed DEF Local
<1>4. CASE GetDelete(p) \/ List(p) \/ NextRule(p) \/ Snapshot(p) \/ Name(p) \/ Upload(p) \/ Throw(p)
  <2>1. UNCHANGED rows
    BY <1>4 DEF GetDelete, List, NextRule, Snapshot, Name, Upload, Throw, Return, Local
  <2>2. UNCHANGED met
    BY <1>4 DEF GetDelete, List, NextRule, Snapshot, Name, Upload, Throw, Return, Local
  <2>3. PICK l, j : l \in {"idle", "delete", "next", "name", "upload"} /\ Set(p, l, j)
    <3>1. CASE GetDelete(p)
      BY <3>1 DEF GetDelete, Return, Local
    <3>2. CASE List(p)
      BY <3>2 DEF List, Return, Local
    <3>3. CASE NextRule(p)
      BY <3>3 DEF NextRule, Local
    <3>4. CASE Snapshot(p)
      BY <3>4 DEF Snapshot, Local
    <3>5. CASE Name(p)
      BY <3>5 DEF Name, Local
    <3>6. CASE Upload(p)
      BY <3>6 DEF Upload, After, Done
    <3>7. CASE Throw(p)
      BY <3>7 DEF Throw, Done
    <3> QED
      BY <1>4, <3>1, <3>2, <3>3, <3>4, <3>5, <3>6, <3>7
  <2> QED
    BY <2>1, <2>2, <2>3, SetClaimed DEF NoRival, Writing
<1>5. CASE Replace(p) \/ Insert(p) \/ DeleteRow(p)
  <2>1. CASE UNCHANGED <<rows, met>> /\ After(p)
    <3>1. PICK l, j : l \in {"idle", "next"} /\ Set(p, l, j)
      BY <2>1 DEF After, Done
    <3> QED
      BY <2>1, <3>1, SetClaimed DEF NoRival, Writing
  <2>2. CASE Replace(p) /\ ~(UNCHANGED <<rows, met>> /\ After(p))
    <3>1. PICK row : row = [job[p].copy EXCEPT !.changes = @ + 1, !.etag = ver + 1]
      OBVIOUS
    <3>2. row.field = job[p].copy.field
      BY <2>2, <3>1, WrittenRow DEF Replace
    <3> QED
      BY <2>2, <3>1, <3>2, ApplyClaimed DEF Replace, Reject, TableWrite, Writing
  <2>3. CASE Insert(p) /\ ~(UNCHANGED <<rows, met>> /\ After(p))
    <3>1. PICK row : row = [job[p].copy EXCEPT !.changes = 0, !.etag = ver + 1]
      OBVIOUS
    <3>2. row.field = job[p].copy.field
      BY <2>3, <3>1, WrittenRow DEF Insert
    <3> QED
      BY <2>3, <3>1, <3>2, ApplyClaimed DEF Insert, Reject, TableWrite, Writing
  <2>4. CASE DeleteRow(p) /\ ~(UNCHANGED <<rows, met>> /\ After(p))
    BY <2>4, ApplyClaimed DEF DeleteRow, Reject, TableWrite, NoRow
  <2> QED
    BY <1>5, <2>1, <2>2, <2>3, <2>4
<1> QED
  BY <1>1, <1>2, <1>3, <1>4, <1>5 DEF Call

LEMMA NextClaimed == TypeOK /\ Claimed /\ UniqueField /\ [Next]_vars => Claimed' /\ UniqueField'
<1> SUFFICES ASSUME TypeOK, Claimed, UniqueField, [Next]_vars PROVE Claimed' /\ UniqueField'
  OBVIOUS
<1>1. CASE Tick \/ UNCHANGED vars
  BY <1>1 DEF Tick, vars, Claimed, NoRival, UniqueField, Exists
<1> QED
  BY <1>1, BeginClaimed, CallClaimed DEF Next

\* Whatever fails and whoever runs at once, the check of SaveDeviceRuleAsync
\* (DeviceRulesLogic.cs:77) keeps one rule per data field of a device, but for two
\* rules of which one was written while a request past its check was about to write
\* the other one with the same field: nothing keeps these two apart.
THEOREM FieldsUnique == Spec => []UniqueField
<1>1. Init => Claimed /\ UniqueField
  BY DEF Init, Claimed, NoRival, UniqueField, Exists, NoRow, Writing
<1> QED
  BY <1>1, InitType, NextType, NextClaimed, PTL DEF Spec

-----------------------------------------------------------------------------
(* Callers who take turns keep the newest blob up to date.                 *)

\* At most one operation runs.
Turns == \A p, q \in Proc : pc[p] \in Active /\ pc[q] \in Active => p = q

LEMMA NextTurns == Serial /\ TypeOK /\ Turns /\ [Next]_vars => Turns'
<1> SUFFICES ASSUME Serial, TypeOK, Turns, [Next]_vars PROVE Turns'
  OBVIOUS
<1>1. CASE Tick \/ UNCHANGED vars
  BY <1>1 DEF Tick, vars, Turns
<1>2. ASSUME NEW p \in Proc, Call(p) PROVE Turns'
  <2>1. pc[p] \in Active /\ \A q \in Proc \ {p} : pc'[q] = pc[q]
    BY <1>2 DEF Call, Check, Get, GetDelete, List, NextRule, Retrieve, Return, Local, Set, Done, After,
           Replace, Insert, DeleteRow, Apply, Reject, Snapshot, Name, Upload, Throw, TypeOK,
           Active, TableWrite, Publish
  <2> QED
    BY <2>1 DEF Turns
<1>3. ASSUME NEW p \in Proc, Begin(p) PROVE Turns'
  <2>1. PICK l, j : Set(p, l, j) /\ (Quiet \/ l = "opened")
    BY <1>3 DEF Begin, New, Open, Submit, Toggle, Delete, Clear, Start, Local
  <2>2. pc'[p] = l /\ \A q \in Proc \ {p} : pc'[q] = pc[q]
    BY <2>1 DEF Set, TypeOK
  <2>3. "opened" \notin Active /\ "idle" \notin Active
    BY DEF Active, TableWrite, Publish
  <2> QED
    BY <2>1, <2>2, <2>3 DEF Turns, Quiet
<1> QED
  BY <1>1, <1>2, <1>3 DEF Next

\* What a thread that publishes has in hand: the table as it is, and a minute
\* no blob is ahead of.
Publishing(l, j) ==
  /\ l \in {"name", "upload"} => IsViewOfTable(j.view)
  /\ l = "upload" => j.slot <= now + Lookahead /\ \A m \in Published : m <= j.slot

\* The newest blob says what the table says.
Current ==
  IF Published = {} THEN \A r \in Rule : ~Exists(r)
  ELSE \E m \in Published : IsViewOfTable(blobs[m]) /\ \A n \in Published : n <= m

\* The inductive invariant behind BlobCurrent.
BlobInv ==
  /\ \A m \in Published : m <= now + Lookahead
  /\ \A p \in Proc : Publishing(pc[p], job[p])
  /\ (\A p \in Proc : pc[p] \notin Publish) /\ ~stale => Current

LEMMA InitBlob == Init => BlobInv
<1> SUFFICES ASSUME Init PROVE BlobInv
  OBVIOUS
<1>1. Published = {}
  BY DEF Init, Published
<1>2. \A r \in Rule : ~Exists(r)
  BY DEF Init, Exists, NoRow
<1> QED
  BY <1>1, <1>2 DEF Init, BlobInv, Publishing, Current

\* What a view, a thread's job and the newest blob are compared with.
LEMMA SameTable ==
  ASSUME UNCHANGED rows
  PROVE  \A v : IsViewOfTable(v)' <=> IsViewOfTable(v)
BY DEF IsViewOfTable, Watching, RulesOf, Exists

LEMMA SameBlobs ==
  ASSUME UNCHANGED <<rows, blobs>>
  PROVE  Published' = Published /\ (Current' <=> Current)
<1>1. Published' = Published
  BY DEF Published
<1>2. \A v : IsViewOfTable(v)' <=> IsViewOfTable(v)
  BY SameTable
<1>3. \A m \in Published : IsViewOfTable(blobs[m])' <=> IsViewOfTable(blobs[m])
  BY <1>2
<1> QED
  BY <1>1, <1>3 DEF Current, Exists

\* Steps that change neither the table nor a blob: whoever publishes has read
\* the table, and a thread gives up publishing only by a failure.
LEMMA SetBlob ==
  ASSUME TypeOK, BlobInv, UNCHANGED <<rows, blobs, now>>,
         NEW p \in Proc, NEW l, NEW j, Set(p, l, j), Publishing(l, j),
         \/ l \in Publish
         \/ stale'
         \/ pc[p] \notin Publish /\ stale' = stale
  PROVE  BlobInv'
<1>1. \A q \in Proc : pc'[q] = (IF q = p THEN l ELSE pc[q]) /\ job'[q] = (IF q = p THEN j ELSE job[q])
  BY DEF Set, TypeOK
<1>2. Published' = Published /\ (Current' <=> Current)
  BY SameBlobs
<1>3. \A v : IsViewOfTable(v)' <=> IsViewOfTable(v)
  BY SameTable
<1>4. ASSUME NEW q \in Proc PROVE Publishing(pc[q], job[q])'
  <2>1. PICK m, k : m = pc'[q] /\ k = job'[q]
    OBVIOUS
  <2>2. Publishing(m, k)
    BY <1>1, <2>1 DEF BlobInv
  <2>3. IsViewOfTable(k.view)' <=> IsViewOfTable(k.view)
    BY <1>3
  <2>4. Publishing(m, k)'
    BY <1>2, <2>2, <2>3 DEF Publishing
  <2> QED
    BY <2>1, <2>4
<1>5. (\A q \in Proc : pc'[q] \notin Publish) /\ ~stale' =>
        (\A q \in Proc : pc[q] \notin Publish) /\ ~stale
  BY <1>1
<1> QED
  BY <1>2, <1>4, <1>5 DEF BlobInv

\* A change of the table: its thread goes on to publish it, or its answer is lost.
LEMMA ApplyBlob ==
  ASSUME TypeOK, Turns, BlobInv, NEW p \in Proc, pc[p] \in TableWrite,
         NEW row, Apply(p, row)
  PROVE  BlobInv'
<1>1. /\ pc'[p] \notin {"name", "upload"}
      /\ pc'[p] \in Publish \/ stale'
      /\ \A q \in Proc \ {p} : pc'[q] = pc[q]
  BY DEF Apply, After, Done, Set, TypeOK, Publish
<1>2. \A q \in Proc \ {p} : pc[q] \notin {"name", "upload"}
  BY DEF Turns, Active, TableWrite, Publish
<1>3. \A q \in Proc : pc'[q] \notin {"name", "upload"}
  BY <1>1, <1>2
<1>4. Published' = Published /\ now' = now
  BY DEF Apply, Published
<1> QED
  BY <1>1, <1>3, <1>4 DEF BlobInv, Publishing

\* An upload: its blob is the newest from now on, and says what the table says.
LEMMA UploadBlob ==
  ASSUME TypeOK, Turns, BlobInv, NEW p \in Proc, Upload(p)
  PROVE  BlobInv'
<1>1. PICK v, s : v = job[p].view /\ s = job[p].slot
  OBVIOUS
<1>2. v \in View /\ s \in Minute /\ pc[p] = "upload"
  BY <1>1, Working DEF Upload, Job
<1>3. IsViewOfTable(v) /\ s <= now + Lookahead /\ \A m \in Published : m <= s
  BY <1>1, <1>2 DEF BlobInv, Publishing
<1>4. blobs' = [blobs EXCEPT ![s] = v] /\ now' = now /\ rows' = rows
  BY <1>1 DEF Upload
<1>5. \A m \in Minute : blobs'[m] = IF m = s THEN v ELSE blobs[m]
  BY <1>2, <1>4 DEF TypeOK
<1>6. \A m \in Published' : m = s \/ m \in Published
  BY <1>5 DEF Published
<1>7. \A m \in Published' : m <= s
  BY <1>2, <1>3, <1>6
<1>8. \A q \in Proc : pc'[q] \notin {"name", "upload"}
  <2>1. pc'[p] \in {"idle", "next"} /\ \A q \in Proc \ {p} : pc'[q] = pc[q]
    BY DEF Upload, After, Done, Set, TypeOK
  <2>2. \A q \in Proc \ {p} : pc[q] \notin {"name", "upload"}
    BY <1>2 DEF Turns, Active, Publish
  <2> QED
    BY <2>1, <2>2
<1>9. Current'
  <2>1. IsViewOfTable(v)'
    BY <1>3, <1>4, SameTable
  <2>2. IsViewOfTable(blobs[s])'
    BY <1>2, <1>5, <2>1
  <2>3. CASE s \in Published'
    BY <1>7, <2>2, <2>3 DEF Current
  <2>4. CASE s \notin Published'
    <3>1. v = NoBlob
      BY <1>2, <1>5, <2>4 DEF Published
    <3>2. Device = {}
      <4>1. ASSUME NEW d \in Device, NEW f \in Field PROVE FALSE
        <5>1. v[<<d, f>>] \in Nat
          BY <1>2 DEF View
        <5>2. v[<<d, f>>] = -1
          BY <3>1 DEF NoBlob
        <5> QED
          BY <5>1, <5>2
      <4> QED
        BY <4>1
    <3>3. ASSUME NEW m \in Minute PROVE blobs'[m] = NoBlob
      <4>1. CASE m = s
        BY <1>5, <3>1, <4>1
      <4>2. CASE m # s
        <5>1. blobs[m] \in View \/ blobs[m] = NoBlob
          BY DEF TypeOK
        <5>2. CASE blobs[m] \in View
          <6>1. blobs[m] \in [{} -> Nat] /\ NoBlob \in [{} -> Int]
            <7>1. Device \X Field = {}
              BY <3>2
            <7> QED
              BY <5>2, <7>1 DEF View, NoBlob
          <6>2. blobs[m] = NoBlob
            BY <6>1
          <6> QED
            BY <1>5, <4>2, <6>2
        <5> QED
          BY <1>5, <4>2, <5>1, <5>2
      <4> QED
        BY <4>1, <4>2
    <3>4. Published' = {}
      BY <3>3 DEF Published
    <3>5. \A r \in Rule : ~Exists(r)'
      BY <3>2
    <3> QED
      BY <3>4, <3>5 DEF Current
  <2> QED
    BY <2>3, <2>4
<1> QED
  BY <1>3, <1>4, <1>6, <1>7, <1>8, <1>9 DEF BlobInv, Publishing

LEMMA CallBlob ==
  ASSUME TypeOK, Turns, BlobInv, NEW p \in Proc, Call(p)
  PROVE  BlobInv'
<1>1. CASE Check(p) \/ Get(p) \/ GetDelete(p) \/ List(p) \/ NextRule(p) \/ Retrieve(p)
  <2>1. PICK l, j : /\ l \in {"idle", "retrieve", "delete", "next", "insert", "replace"}
                    /\ Set(p, l, j)
    <3>1. CASE Check(p) \/ Retrieve(p)
      BY <3>1 DEF Check, Retrieve, Return, Local
    <3>2. CASE Get(p)
      BY <3>2 DEF Get, Return, Local
    <3>3. CASE GetDelete(p)
      BY <3>3 DEF GetDelete, Return, Local
    <3>4. CASE List(p)
      BY <3>4 DEF List, Return, Local
    <3>5. CASE NextRule(p)
      BY <3>5 DEF NextRule, Local
    <3> QED
      BY <1>1, <3>1, <3>2, <3>3, <3>4, <3>5
  <2>2. UNCHANGED <<rows, blobs, now, stale>>
    BY <1>1 DEF Check, Get, GetDelete, List, NextRule, Retrieve, Return, Local
  <2>3. pc[p] \notin Publish
    BY <1>1 DEF Check, Get, GetDelete, List, NextRule, Retrieve, Publish
  <2> QED
    BY <2>1, <2>2, <2>3, SetBlob DEF Publishing
<1>2. CASE Replace(p) \/ Insert(p) \/ DeleteRow(p)
  <2>1. pc[p] \in TableWrite /\ pc[p] \notin Publish
    BY <1>2 DEF Replace, Insert, DeleteRow, TableWrite, Publish
  <2>2. CASE \E row : Apply(p, row)
    BY <2>1, <2>2, ApplyBlob
  <2>3. CASE \E cond : Reject(p, cond)
    <3>1. PICK l, j : l \in {"idle", "next"} /\ Set(p, l, j)
      BY <2>3 DEF Reject, After, Done
    <3> QED
      BY <2>1, <2>3, <3>1, SetBlob DEF Reject, Publishing
  <2> QED
    BY <1>2, <2>2, <2>3 DEF Replace, Insert, DeleteRow
<1>3. CASE Snapshot(p)
  <2>1. PICK v \in [Device \X Field -> 0..ver] :
          /\ pc[p] = "snapshot" /\ IsViewOfTable(v)
          /\ Local(p, "name", [job[p] EXCEPT !.view = v])
    BY <1>3 DEF Snapshot
  <2>2. PICK j : j = [job[p] EXCEPT !.view = v]
    OBVIOUS
  <2>3. j.view = v
    BY <2>1, <2>2, Working DEF Job
  <2>4. Publishing("name", j)
    BY <2>1, <2>3 DEF Publishing
  <2> QED
    BY <2>1, <2>2, <2>4, SetBlob DEF Local, Publish
<1>4. CASE Name(p)
  <2>1. PICK j : j = [job[p] EXCEPT !.slot = now + Lookahead]
    OBVIOUS
  <2>2. j.view = job[p].view /\ j.slot = now + Lookahead
    BY <1>4, <2>1, Working DEF Name, Job
  <2>3. Publishing("upload", j)
    BY <1>4, <2>2 DEF Name, Publishing, BlobInv, TypeOK
  <2> QED
    BY <1>4, <2>1, <2>3, SetBlob DEF Name, Local, Publish
<1>5. CASE Upload(p)
  BY <1>5, UploadBlob
<1>6. CASE Throw(p)
  <2>1. Set(p, "idle", NoJob) /\ UNCHANGED <<rows, blobs, now>>
    BY <1>6 DEF Throw, Done
  <2>2. stale' \/ (pc[p] \notin Publish /\ stale' = stale)
    BY <1>6 DEF Throw, TypeOK
  <2> QED
    BY <2>1, <2>2, SetBlob DEF Publishing
<1> QED
  BY <1>1, <1>2, <1>3, <1>4, <1>5, <1>6 DEF Call

LEMMA NextBlob == TypeOK /\ Turns /\ BlobInv /\ [Next]_vars => BlobInv'
<1> SUFFICES ASSUME TypeOK, Turns, BlobInv, [Next]_vars PROVE BlobInv'
  OBVIOUS
<1>1. CASE Tick \/ UNCHANGED vars
  <2>1. UNCHANGED <<rows, blobs, pc, job, stale>> /\ now' \in {now, now + 1}
    BY <1>1 DEF Tick, vars
  <2>2. Published' = Published /\ (Current' <=> Current)
    BY <2>1, SameBlobs
  <2>3. \A v : IsViewOfTable(v)' <=> IsViewOfTable(v)
    BY <2>1, SameTable
  <2>4. \A m \in Published : m \in Int
    BY DEF Published
  <2>5. \A q \in Proc : pc[q] = "upload" => job[q].slot \in Int
    BY Working DEF Job
  <2>6. \A q \in Proc : Publishing(pc[q], job[q])'
    BY <2>1, <2>2, <2>3, <2>5 DEF BlobInv, Publishing, TypeOK
  <2> QED
    BY <2>1, <2>2, <2>4, <2>6 DEF BlobInv, TypeOK
<1>2. ASSUME NEW p \in Proc, Begin(p) PROVE BlobInv'
  <2>1. PICK l, j : /\ l \in {"check", "opened", "get", "getDelete", "list"} /\ Set(p, l, j)
                    /\ UNCHANGED <<rows, blobs, now, stale>>
    BY <1>2 DEF Begin, New, Open, Submit, Toggle, Delete, Clear, Start, Local
  <2>2. pc[p] \notin Publish
    BY <1>2 DEF Begin, New, Open, Submit, Toggle, Delete, Clear, Publish
  <2> QED
    BY <2>1, <2>2, SetBlob DEF Publishing
<1> QED
  BY <1>1, <1>2, CallBlob DEF Next

\* When no two operations run at once, the newest blob says what the table says
\* whenever nobody is changing rules, unless the last change was not followed by
\* an upload: the thread that changed the table reads it as it is and uploads it
\* to a minute no earlier than that of any blob, whatever the clock does meanwhile.
THEOREM BlobsCurrent == Serial => (Spec => []BlobCurrent)
<1> SUFFICES ASSUME Serial PROVE Spec => []BlobCurrent
  OBVIOUS
<1>1. Init => Turns
  BY DEF Init, Turns, Active, TableWrite, Publish
<1>2. Turns /\ TypeOK /\ [Next]_vars => Turns'
  BY NextTurns
<1>3. BlobInv => BlobCurrent
  BY DEF BlobInv, BlobCurrent, Current, Quiet, Publish
<1> QED
  BY <1>1, <1>2, <1>3, InitType, NextType, InitBlob, NextBlob, PTL DEF Spec
=============================================================================
