----------------------------- MODULE FilterStore -----------------------------
(***************************************************************************)
(* Saved filters of the device list (FilterLogic, DeviceListFilter-        *)
(* Repository) and the jobs that are scheduled for them (JobRepository,    *)
(* JobController).  A filter is a row of a table whose key is its id and   *)
(* its name, so renaming one is an insertion and a deletion.  The table of *)
(* jobs repeats the name; its rows are updated by tasks nobody waits for.  *)
(*                                                                         *)
(* One action is one request to a table; the requests of several calls     *)
(* interleave.  Every write carries the ETag "*": nothing is refused but   *)
(* an insertion of a row that exists and a replacement of one that does    *)
(* not.  What a filter selects is left out.                                *)
(***************************************************************************)
EXTENDS Integers, FiniteSets

CONSTANTS
  Filter,     \* ids
  Builtin,    \* the ids of the built-in filters that can be changed
  FirstName,  \* their names
  Name,       \* names, in the order of row keys
  Unnamed,    \* UnnamedFilterName, which many filters may have
  Job,
  NoFilter,
  Caller

NoName == 0   \* null, and the empty name

ASSUME FilterAssumption ==
  /\ Name \subseteq Nat \ {NoName}
  /\ Unnamed \in Name
  /\ Builtin \subseteq Filter
  /\ FirstName \in [Builtin -> Name \ {Unnamed}]
  /\ NoFilter \notin Filter

VARIABLES
  rows,       \* the table of filters
  jobs,       \* the table of jobs: the filter each was scheduled for, its name
  updates,    \* updates of jobs that are on their way
  call,       \* what each caller is doing
  mixed,      \* history: filters of which two operations overlapped or one was
              \* left half done
  revived,    \* history: filters that were written again after they were renamed
              \* or deleted, or after their name was given away
  contested   \* history: names two filters were given at the same time

vars == <<rows, jobs, updates, call, mixed, revived, contested>>

\* What the code says nothing about: it neither orders the calls on a filter, nor
\* takes back what one left half done, nor asks whether a filter that it writes
\* is still what it was.
Excepted == mixed \cup revived

Row == [id : Filter, name : Name]
JobRow == [of : Filter \cup {NoFilter}, name : Name \cup {NoName}]
Update == [job : Job, name : Name \cup {NoName}]

Op == {"none", "save", "delete", "force", "schedule", "init"}
Step == {"jobs", "any", "first", "check", "retrieve", "insert", "replace", "drop",
         "reread", "return", "remove", "hub", "done"}

\* for: the id in the request; id: the filter it is about; old: the name that was
\* read; found: the jobs that were read.
Call == [op : Op, pc : Step, for : Filter \cup {NoFilter}, id : Filter \cup {NoFilter},
         name : Name \cup {NoName}, old : Name \cup {NoName}, found : SUBSET Job]

Started(op, pc, for, id, n) ==
  [op |-> op, pc |-> pc, for |-> for, id |-> id, name |-> n, old |-> NoName, found |-> {}]

Idle == Started("none", "done", NoFilter, NoFilter, NoName)

\* A job row that is not there yet.
NoJob == [of |-> NoFilter, name |-> NoName]

Init ==
  /\ rows = {}
  /\ jobs = [j \in Job |-> NoJob]
  /\ updates = {}
  /\ call = [c \in Caller |-> Idle]
  /\ mixed = {}
  /\ revived = {}
  /\ contested = {}

-----------------------------------------------------------------------------
NamesOf(f) == {r.name : r \in {s \in rows : s.id = f}}
Exists(f) == NamesOf(f) # {}

\* The name of the first row of a filter.
NameOf(f) == CHOOSE n \in NamesOf(f) : \A m \in NamesOf(f) : n <= m

JobsOf(f) == {j \in Job : jobs[j].of = f}
At(c, pc) == call[c].pc = pc
About(c) == {call[c].for, call[c].id}
Active(f) == {c \in Caller : f \in About(c)}
Updating(f) == \E u \in updates : jobs[u.job].of = f
Busy(f) == Active(f) # {} \/ Updating(f)

Goto(c, pc) == call' = [call EXCEPT ![c].pc = pc]
End(c) == call' = [call EXCEPT ![c] = Idle]

\* A new Guid.
Fresh(f) == f \notin Builtin /\ ~Exists(f) /\ JobsOf(f) = {} /\ Active(f) = {}

Begin(c, op, pc, f, n) ==
  /\ call[c] = Idle
  /\ call' = [call EXCEPT ![c] = Started(op, pc, f, f, n)]
  /\ mixed' = mixed \cup {g \in {f} : Busy(g)}

\* A call ends with an exception.  What it has done stays, the updates it has
\* sent go on.
Unfinished(c) ==
  \/ call[c].op = "save" /\ (At(c, "drop") \/ (call[c].pc \in {"reread", "return"}
                                                /\ call[c].found # {}))
  \/ call[c].op = "force" /\ call[c].pc \in {"any", "first", "remove"} /\ call[c].found # {}

Abort(c) ==
  /\ End(c)
  /\ mixed' = mixed \cup IF Unfinished(c) THEN About(c) \cap Filter ELSE {}
-----------------------------------------------------------------------------
(* Requests of users, and the start of an instance of the portal.          *)

SaveFilter(c, f, n) ==
  /\ Begin(c, "save", "jobs", f, n)
  /\ UNCHANGED <<rows, jobs, updates, revived, contested>>

\* Mutant of NewFilter: the filter keeps its empty id.
NewFilterBlank(c, n) ==
  /\ call[c] = Idle
  /\ call' = [call EXCEPT ![c] = Started("save", "check", NoFilter, NoFilter, n)]
  /\ UNCHANGED <<rows, jobs, updates, mixed, revived, contested>>

\* A filter without an id is given one.
NewFilter(c, n) ==
  /\ call[c] = Idle
  /\ \E g \in Filter :
       /\ Fresh(g)
       /\ call' = [call EXCEPT ![c] = Started("save", "check", NoFilter, g, n)]
       /\ mixed' = mixed \ {g} /\ revived' = revived \ {g}
  /\ UNCHANGED <<rows, jobs, updates, contested>>

DeleteFilter(c, f, force) ==
  /\ Begin(c, IF force THEN "force" ELSE "delete", "jobs", f, NoName)
  /\ UNCHANGED <<rows, jobs, updates, revived, contested>>

ScheduleJob(c, f) ==
  /\ Begin(c, "schedule", "any", f, NoName)
  /\ UNCHANGED <<rows, jobs, updates, revived, contested>>

Writing(c, n) == call[c].name = n /\ call[c].pc \in {"retrieve", "insert", "replace"}

\* The name n, if another filter than f is about to have it.
Rivalled(f, n) == {m \in {n} : \E c \in Caller : Writing(c, m) /\ call[c].id # f}

NameTaken(f, n) == n # Unnamed /\ \E r \in rows : r.id # f /\ r.name = n

\* A built-in filter that was renamed, or deleted while it had jobs.
Altered(b) ==
  \/ NamesOf(b) \ {FirstName[b]} # {}
  \/ ~Exists(b) /\ JobsOf(b) # {}

\* InitializeDefaultFilter writes each built-in filter under its first name, also
\* when it has been renamed or deleted since or another filter has that name.
InitializeDefaultFilter(c, b) ==
  LET n == FirstName[b] IN
  /\ call[c] = Idle
  /\ call' = [call EXCEPT ![c] = Started("init", "retrieve", NoFilter, b, n)]
  /\ mixed' = mixed \cup {g \in {b} : Busy(b)}
  /\ revived' = revived \cup {g \in {b} : Altered(b) \/ NameTaken(b, n)}
  /\ contested' = contested \cup Rivalled(b, n)
  /\ UNCHANGED <<rows, jobs, updates>>

-----------------------------------------------------------------------------
(* Their requests to the tables.                                           *)

\* Mutant of QueryJobs: a forced deletion leaves the names of the jobs.
QueryJobsOnly(c) ==
  /\ At(c, "jobs")
  /\ IF call[c].op = "delete" /\ JobsOf(call[c].for) # {}
     THEN End(c)
     ELSE call' = [call EXCEPT ![c].pc = "any", ![c].found = JobsOf(call[c].for)]
  /\ UNCHANGED <<rows, jobs, updates, mixed, revived, contested>>

\* A filter with jobs is deleted by force only; their names are cleared first.
QueryJobs(c) ==
  /\ At(c, "jobs")
  /\ IF call[c].op = "delete" /\ JobsOf(call[c].for) # {}
     THEN End(c)
     ELSE call' = [call EXCEPT ![c].pc = "any", ![c].found = JobsOf(call[c].for)]
  /\ updates' = updates \cup
       {[job |-> j, name |-> NoName] :
          j \in {k \in JobsOf(call[c].for) : call[c].op = "force"}}
  /\ UNCHANGED <<rows, jobs, mixed, revived, contested>>

\* GetFilterAsync queries twice: for any row, then for the first.  A filter that
\* is gone is saved under a new id; the jobs of the old one, which were found
\* before, keep its id and will be given the name of the new one.
FindFilter(c) ==
  /\ At(c, "any")
  /\ IF Exists(call[c].id)
     THEN Goto(c, "first") /\ UNCHANGED <<mixed, revived>>
     ELSE IF call[c].op = "save"
     THEN \E g \in Filter :
            /\ Fresh(g)
            /\ call' = [call EXCEPT ![c].pc = "check", ![c].id = g]
            /\ mixed' = mixed \ {g}
            /\ revived' = (revived \ {g}) \cup {f \in {call[c].for} : call[c].found # {}}
     ELSE End(c) /\ UNCHANGED <<mixed, revived>>
  /\ UNCHANGED <<rows, jobs, updates, contested>>

AfterRead(op) ==
  CASE op = "save" -> "check"
    [] op = "schedule" -> "hub"
    [] OTHER -> "remove"

ReadFilter(c) ==
  /\ At(c, "first")
  /\ IF Exists(call[c].id)
     THEN /\ call' = [call EXCEPT ![c].pc = AfterRead(call[c].op),
                                  ![c].old = NameOf(call[c].id)]
          /\ UNCHANGED mixed
     ELSE Abort(c)
  /\ UNCHANGED <<rows, jobs, updates, revived, contested>>

\* Mutant of CheckName: only the rows of the filter are looked at.
CheckNameOwn(c) ==
  /\ At(c, "check")
  /\ Goto(c, "retrieve")
  /\ contested' = contested \cup Rivalled(call[c].id, call[c].name)
  /\ UNCHANGED <<rows, jobs, updates, mixed, revived>>

CheckName(c) ==
  /\ At(c, "check")
  /\ IF NameTaken(call[c].id, call[c].name) THEN End(c) ELSE Goto(c, "retrieve")
  /\ contested' = contested \cup Rivalled(call[c].id, call[c].name)
  /\ UNCHANGED <<rows, jobs, updates, mixed, revived>>

RowOf(c, n) == [id |-> call[c].id, name |-> n]
Renames(c) == call[c].old \notin {NoName, call[c].name}

\* DoTableInsertOrReplaceAsync
Retrieve(c) ==
  /\ At(c, "retrieve")
  /\ Goto(c, IF RowOf(c, call[c].name) \in rows THEN "replace" ELSE "insert")
  /\ UNCHANGED <<rows, jobs, updates, mixed, revived, contested>>

\* Mutant of Written: the row under the old name is never deleted.
WrittenOnly(c) == IF call[c].op = "init" THEN End(c) ELSE Goto(c, "reread")

Written(c) ==
  IF call[c].op = "init" THEN End(c)
  ELSE Goto(c, IF Renames(c) THEN "drop" ELSE "reread")

\* Mutant of Write: the row is renamed by deleting the old one first.
WriteAfterDelete(c) ==
  /\ call[c].pc \in {"insert", "replace"}
  /\ LET r == RowOf(c, call[c].name) IN
     IF Renames(c) /\ RowOf(c, call[c].old) \in rows
     THEN rows' = rows \ {RowOf(c, call[c].old)} /\ UNCHANGED <<call, mixed>>
     ELSE rows' = rows \cup {r} /\ Goto(c, "reread") /\ UNCHANGED mixed
  /\ UNCHANGED <<jobs, updates, revived, contested>>

\* An insertion of a row that has come, or a replacement of one that has gone,
\* is refused.
Write(c) ==
  /\ call[c].pc \in {"insert", "replace"}
  /\ LET r == RowOf(c, call[c].name) IN
     IF (r \in rows) = At(c, "replace")
     THEN rows' = rows \cup {r} /\ Written(c) /\ UNCHANGED mixed
     ELSE Abort(c) /\ UNCHANGED rows
  /\ UNCHANGED <<jobs, updates, revived, contested>>

\* "Safely delete old filter after the new renamed filter is saved successfully"
\* (DeviceListFilterRepository.cs:154); whether it could is not looked at.
DeleteOld(c) ==
  /\ At(c, "drop")
  /\ rows' = rows \ {RowOf(c, call[c].old)}
  /\ Goto(c, "reread")
  /\ UNCHANGED <<jobs, updates, mixed, revived, contested>>

DeleteOldFails(c) ==
  /\ At(c, "drop")
  /\ Goto(c, "reread")
  /\ mixed' = mixed \cup {call[c].id}
  /\ UNCHANGED <<rows, jobs, updates, revived, contested>>

ReadAgain(c) ==
  /\ At(c, "reread")
  /\ IF Exists(call[c].id) THEN Goto(c, "return") /\ UNCHANGED mixed ELSE Abort(c)
  /\ UNCHANGED <<rows, jobs, updates, revived, contested>>

\* The jobs that were read at the beginning are given the name that was read at
\* the end, by tasks that nobody waits for.
Return(c) ==
  /\ At(c, "return")
  /\ IF Exists(call[c].id)
     THEN /\ updates' = updates \cup {[job |-> j, name |-> NameOf(call[c].id)] :
                                        j \in call[c].found}
          /\ End(c) /\ UNCHANGED mixed
     ELSE Abort(c) /\ UNCHANGED updates
  /\ UNCHANGED <<rows, jobs, revived, contested>>

RemoveRow(c) ==
  /\ At(c, "remove")
  /\ rows' = rows \ {RowOf(c, call[c].old)}
  /\ End(c)
  /\ UNCHANGED <<jobs, updates, mixed, revived, contested>>

\* The job, which the hub has taken meanwhile, is written down with the name that
\* was read.
AddJob(c) ==
  /\ At(c, "hub")
  /\ \E j \in JobsOf(NoFilter) :
       jobs' = [jobs EXCEPT ![j] = [of |-> call[c].id, name |-> call[c].old]]
  /\ End(c)
  /\ UNCHANGED <<rows, updates, mixed, revived, contested>>

-----------------------------------------------------------------------------
(* Updates of jobs run in any order; failures are not noticed.             *)

UpdateJob(u) ==
  /\ u \in updates
  /\ jobs' = [jobs EXCEPT ![u.job].name = u.name]
  /\ updates' = updates \ {u}
  /\ UNCHANGED <<rows, call, mixed, revived, contested>>

LoseUpdate(u) ==
  /\ u \in updates
  /\ updates' = updates \ {u}
  /\ mixed' = mixed \cup {jobs[u.job].of}
  /\ UNCHANGED <<rows, jobs, call, revived, contested>>

\* A request fails, with or without effect, or the instance stops.
Fail(c) ==
  /\ call[c] # Idle
  /\ Abort(c)
  /\ UNCHANGED <<rows, jobs, updates, revived, contested>>

-----------------------------------------------------------------------------
Request(c) ==
  \/ \E f \in Filter :
       \/ \E n \in Name : SaveFilter(c, f, n)
       \/ \E force \in BOOLEAN : DeleteFilter(c, f, force)
       \/ ScheduleJob(c, f)
  \/ \E n \in Name : NewFilter(c, n)
  \/ \E b \in Builtin : InitializeDefaultFilter(c, b)

Continue(c) ==
  \/ QueryJobs(c) \/ FindFilter(c) \/ ReadFilter(c) \/ CheckName(c) \/ Retrieve(c)
  \/ Write(c) \/ DeleteOld(c) \/ DeleteOldFails(c) \/ ReadAgain(c) \/ Return(c)
  \/ RemoveRow(c) \/ AddJob(c)

Proceed ==
  \/ \E c \in Caller : Continue(c) \/ Fail(c)
  \/ \E u \in updates : UpdateJob(u) \/ LoseUpdate(u)

Next == Proceed \/ \E c \in Caller : Request(c)

Spec == Init /\ [][Next]_vars

-----------------------------------------------------------------------------
TypeOK ==
  /\ rows \in SUBSET Row
  /\ jobs \in [Job -> JobRow]
  /\ updates \in SUBSET Update
  /\ call \in [Caller -> Call]
  /\ mixed \in SUBSET Filter
  /\ revived \in SUBSET Filter
  /\ contested \in SUBSET Name

\* A name is given to two filters only if it was given to both at the same time
\* (nothing but the check before a save keeps names apart), or if one of them is
\* a built-in filter a start wrote again under its first name although it had
\* been renamed or deleted, or the name had gone to another filter.
UniqueNames ==
  \A r, s \in rows :
    r.name = s.name /\ r.id # s.id =>
      \/ r.name \in contested \cup {Unnamed}
      \/ \E b \in {r.id, s.id} \cap Builtin \cap revived : FirstName[b] = r.name

\* A filter has one row, except between the two writes of a renaming, unless
\* operations on it overlapped, one was left half done, or it was written again
\* after it had been renamed, deleted or its name given away (Excepted).
OneRowPerFilter ==
  \A r, s \in rows :
    r.id = s.id /\ r # s =>
      \/ r.id \in Excepted
      \/ \E c \in Active(r.id) : At(c, "drop") /\ {r.name, s.name} = {call[c].name, call[c].old}

\* On the same condition the table of jobs agrees with that of filters once
\* nothing is on its way: a job has the name of its filter, and none if the filter
\* was deleted (which needs force as long as it has jobs).  A page that saves a
\* filter deleted in the meantime renames the jobs left of it: that filter is
\* excepted too.
JobsAgree ==
  \A j \in Job :
    LET f == jobs[j].of IN
    f \in Filter \ Excepted /\ ~Busy(f) =>
      jobs[j].name = IF Exists(f) THEN NameOf(f) ELSE NoName

\* On the same condition only a deletion ever makes a filter disappear: a
\* renaming does not, whatever fails ("Safely delete old filter after the new
\* renamed filter is saved successfully", DeviceListFilterRepository.cs:154).
RenamingKeeps ==
  [][\A f \in Filter :
       Exists(f) /\ ~Exists(f)' /\ f \notin Excepted =>
         \E c \in Active(f) : call[c].op \in {"delete", "force"}]_vars
=============================================================================
