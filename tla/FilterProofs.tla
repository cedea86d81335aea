---------------------------- MODULE FilterProofs ----------------------------
(***************************************************************************)
(* The tables of filters and jobs, for any filters, names, jobs and        *)
(* callers.                                                                *)
(***************************************************************************)
EXTENDS FilterStore, TLAPS, WellFoundedInduction

\* What a call knows at each of its steps, and the filters that jobs belong to.
SoundCall(k) ==
  /\ k.pc = "done" => k = Idle
  /\ k.pc # "done" => k.id \in Filter
  /\ k.pc = "jobs" => k.for = k.id
  /\ k.pc = "jobs" => k.op \in {"save", "delete", "force"}
  /\ k.pc \in {"any", "first"} => k.op \in {"save", "delete", "force", "schedule"}
  /\ k.op = "save" => k.name \in Name
  /\ k.op = "init" => k.name \in Name
  /\ k.pc \in {"check", "drop", "reread", "return"} => k.op = "save"
  /\ k.pc \in {"retrieve", "insert", "replace"} => k.op \in {"save", "init"}
  /\ k.pc = "remove" => k.op \in {"delete", "force"}
  /\ k.pc = "hub" => k.op = "schedule"
  /\ k.op = "init" => k.pc \in {"retrieve", "insert", "replace"}
  /\ k.pc \in {"jobs", "any", "first"} => k.old = NoName
  /\ k.found # {} => k.for \in Filter
  /\ \A j \in k.found : jobs[j].of \in Filter

Sound == \A c \in Caller : SoundCall(call[c])

Sent == \A u \in updates : jobs[u.job].of \in Filter

Typed == TypeOK /\ Sound /\ Sent

-----------------------------------------------------------------------------
LEMMA LeastNumber ==
  ASSUME NEW S \in SUBSET Nat, S # {}
  PROVE \E n \in S : \A m \in S : n <= m
<1> DEFINE R == OpToRel(<, Nat)
<1>1. R = {p \in Nat \X Nat : p[1] < p[2]}
  BY DEF OpToRel
<1>2. IsWellFoundedOn(R, Nat)
  BY NatLessThanWellFounded
<1> HIDE DEF R
<1>3. PICK n \in S : \A m \in S : ~(<<m, n>> \in R)
  BY <1>2, WFMin
<1>4. ASSUME NEW m \in S PROVE n <= m
  <2>1. <<m, n>> \in Nat \X Nat /\ ~(m < n)
    BY <1>1, <1>3
  <2> QED BY <2>1
<1> QED BY <1>4

\* A filter that exists has a first name.
LEMMA FirstRow ==
  ASSUME TypeOK, NEW f \in Filter, Exists(f)
  PROVE NameOf(f) \in NamesOf(f) /\ NameOf(f) \in Name
<1>1. NamesOf(f) \in SUBSET Name /\ Name \subseteq Nat
  BY FilterAssumption DEF NamesOf, TypeOK, Row
<1>2. \E n \in NamesOf(f) : \A m \in NamesOf(f) : n <= m
  BY <1>1, LeastNumber DEF Exists
<1>3. NameOf(f) \in NamesOf(f)
  BY <1>2 DEF NameOf
<1> QED BY <1>1, <1>3

LEMMA TypedInit == Init => Typed
<1> SUFFICES ASSUME Init PROVE Typed
  OBVIOUS
<1>1. Idle \in Call
  BY DEF Idle, Started, Call, Op, Step
<1>2. TypeOK
  BY <1>1 DEF Init, TypeOK, NoJob, JobRow
<1>3. Sound /\ Sent
  BY DEF Init, Sound, SoundCall, Sent, Idle, Started
<1> QED BY <1>2, <1>3 DEF Typed

-----------------------------------------------------------------------------
\* One call becomes k; jobs that belong to a filter still do.
LEMMA CallChanged ==
  ASSUME Typed, NEW c \in Caller, NEW k \in Call, call' = [call EXCEPT ![c] = k],
         \A j \in Job : jobs[j].of \in Filter => jobs'[j].of \in Filter,
         SoundCall(k)
  PROVE call' \in [Caller -> Call] /\ Sound'
<1>1. call \in [Caller -> Call]
  BY DEF Typed, TypeOK
<1>2. call' \in [Caller -> Call]
  BY <1>1
<1>3. ASSUME NEW d \in Caller, NEW m, m = call[d] \/ m = k, SoundCall(m), m \in Call
      PROVE SoundCall(m)'
  BY <1>3 DEF SoundCall, Call
<1>4. ASSUME NEW d \in Caller PROVE SoundCall(call[d])'
  <2>1. CASE d = c
    <3>1. call'[d] = k
      BY <1>1, <2>1
    <3> QED BY <3>1, <1>3 DEF SoundCall
  <2>2. CASE d # c
    <3>1. call'[d] = call[d] /\ SoundCall(call[d]) /\ call[d] \in Call
      BY <1>1, <2>2 DEF Typed, Sound
    <3> QED BY <3>1, <1>3 DEF SoundCall
  <2> QED BY <2>1, <2>2
<1> QED BY <1>2, <1>4 DEF Sound

LEMMA IdleSound == Idle \in Call /\ SoundCall(Idle)
BY DEF Idle, Started, Call, Op, Step, SoundCall

LEMMA Ended ==
  ASSUME Typed, NEW c \in Caller, End(c), UNCHANGED jobs
  PROVE call' \in [Caller -> Call] /\ Sound'
BY CallChanged, IdleSound DEF End

LEMMA Went ==
  ASSUME Typed, NEW c \in Caller, NEW pc \in Step, Goto(c, pc), UNCHANGED jobs,
         SoundCall([call[c] EXCEPT !.pc = pc])
  PROVE call' \in [Caller -> Call] /\ Sound'
<1>1. call[c] \in Call
  BY DEF Typed, TypeOK
<1>2. [call[c] EXCEPT !.pc = pc] \in Call
  BY <1>1 DEF Call
<1>3. call' = [call EXCEPT ![c] = [call[c] EXCEPT !.pc = pc]]
  BY DEF Goto
<1> QED BY <1>2, <1>3, CallChanged

\* An aborted call was about filters only.
LEMMA Aborted ==
  ASSUME Typed, NEW c \in Caller, Abort(c), UNCHANGED <<jobs>>
  PROVE call' \in [Caller -> Call] /\ Sound' /\ mixed' \in SUBSET Filter
<1>1. mixed' \in SUBSET Filter
  BY DEF Abort, Typed, TypeOK
<1> QED BY <1>1, Ended DEF Abort

-----------------------------------------------------------------------------
\* Requests keep Typed.
LEMMA BeginTyped ==
  ASSUME Typed, NEW c \in Caller, NEW op \in Op, NEW pc \in Step, NEW f \in Filter,
         NEW n \in Name \cup {NoName}, Begin(c, op, pc, f, n),
         UNCHANGED <<rows, jobs, updates, revived, contested>>,
         \/ pc = "jobs" /\ op \in {"save", "delete", "force"} /\ (op = "save" => n \in Name)
         \/ pc = "any" /\ op = "schedule"
  PROVE Typed'
<1> DEFINE k == [op |-> op, pc |-> pc, for |-> f, id |-> f, name |-> n,
                 old |-> NoName, found |-> {}]
<1>1. k \in Call /\ SoundCall(k)
  BY DEF Call, SoundCall, Op, Step
<1>2. call' = [call EXCEPT ![c] = k]
  BY DEF Begin, Started
<1>3. call' \in [Caller -> Call] /\ Sound'
  BY <1>1, <1>2, CallChanged
<1>4. mixed' \in SUBSET Filter
  BY DEF Begin, Typed, TypeOK
<1> QED BY <1>3, <1>4 DEF Typed, TypeOK, Sent

LEMMA NewTyped ==
  ASSUME Typed, NEW c \in Caller, NEW n \in Name, NewFilter(c, n)
  PROVE Typed'
<1>1. PICK g \in Filter :
        /\ call' = [call EXCEPT ![c] = Started("save", "check", NoFilter, g, n)]
        /\ mixed' = mixed \ {g} /\ revived' = revived \ {g}
  BY DEF NewFilter
<1> DEFINE k == [op |-> "save", pc |-> "check", for |-> NoFilter, id |-> g, name |-> n,
                 old |-> NoName, found |-> {}]
<1>2. k \in Call /\ SoundCall(k)
  BY DEF Call, SoundCall, Op, Step
<1>3. call' = [call EXCEPT ![c] = k]
  BY <1>1 DEF Started
<1>4. call' \in [Caller -> Call] /\ Sound'
  BY <1>2, <1>3, CallChanged DEF NewFilter
<1> QED BY <1>1, <1>4 DEF Typed, TypeOK, Sent, NewFilter

LEMMA InitializeTyped ==
  ASSUME Typed, NEW c \in Caller, NEW b \in Builtin, InitializeDefaultFilter(c, b)
  PROVE Typed'
<1>1. b \in Filter /\ FirstName[b] \in Name
  BY FilterAssumption
<1> DEFINE k == [op |-> "init", pc |-> "retrieve", for |-> NoFilter, id |-> b,
                 name |-> FirstName[b], old |-> NoName, found |-> {}]
<1>2. k \in Call /\ SoundCall(k)
  BY <1>1 DEF Call, SoundCall, Op, Step
<1>3. call' = [call EXCEPT ![c] = k]
  BY DEF InitializeDefaultFilter, Started
<1>4. call' \in [Caller -> Call] /\ Sound'
  BY <1>2, <1>3, CallChanged DEF InitializeDefaultFilter
<1>5. /\ mixed' \in SUBSET Filter /\ revived' \in SUBSET Filter
      /\ contested' \in SUBSET Name
  BY <1>1 DEF InitializeDefaultFilter, Rivalled, Typed, TypeOK
<1> QED BY <1>4, <1>5 DEF Typed, TypeOK, Sent, InitializeDefaultFilter

LEMMA RequestTyped ==
  ASSUME Typed, NEW c \in Caller, Request(c)
  PROVE Typed'
<1>1. ASSUME NEW f \in Filter, NEW n \in Name, SaveFilter(c, f, n) PROVE Typed'
  BY <1>1, BeginTyped DEF SaveFilter, Op, Step
<1>2. ASSUME NEW f \in Filter, NEW force \in BOOLEAN, DeleteFilter(c, f, force)
      PROVE Typed'
  <2>1. CASE force
    BY <1>2, <2>1, BeginTyped DEF DeleteFilter, Op, Step
  <2>2. CASE ~force
    BY <1>2, <2>2, BeginTyped DEF DeleteFilter, Op, Step
  <2> QED BY <2>1, <2>2
<1>3. ASSUME NEW f \in Filter, ScheduleJob(c, f) PROVE Typed'
  BY <1>3, BeginTyped DEF ScheduleJob, Op, Step
<1> QED BY <1>1, <1>2, <1>3, NewTyped, InitializeTyped DEF Request

-----------------------------------------------------------------------------
\* The steps of calls keep Typed.
LEMMA QueryJobsTyped ==
  ASSUME Typed, NEW c \in Caller, QueryJobs(c)
  PROVE Typed'
<1> DEFINE k == [call[c] EXCEPT !.pc = "any", !.found = JobsOf(call[c].for)]
<1>1. call[c] \in Call /\ SoundCall(call[c]) /\ call[c].pc = "jobs"
  BY DEF Typed, TypeOK, Sound, QueryJobs, At
<1>2. call[c].for \in Filter /\ JobsOf(call[c].for) \in SUBSET Job
  BY <1>1 DEF SoundCall, JobsOf
<1>3. \A j \in JobsOf(call[c].for) : jobs[j].of = call[c].for
  BY DEF JobsOf
<1>4. k \in Call
  BY <1>1, <1>2 DEF Call, Step
<1>5. SoundCall(k)
  BY <1>1, <1>2, <1>3 DEF SoundCall, Call
<1>6. call' \in [Caller -> Call] /\ Sound'
  BY <1>4, <1>5, CallChanged, Ended DEF QueryJobs
<1>7. updates' \in SUBSET Update /\ Sent'
  BY <1>2, <1>3 DEF QueryJobs, Typed, TypeOK, Update, Sent
<1> QED BY <1>6, <1>7 DEF Typed, TypeOK, QueryJobs

LEMMA FindFilterTyped ==
  ASSUME Typed, NEW c \in Caller, FindFilter(c)
  PROVE Typed'
<1>1. call[c] \in Call /\ SoundCall(call[c]) /\ call[c].pc = "any"
  BY DEF Typed, TypeOK, Sound, FindFilter, At
<1>2. CASE Goto(c, "first") /\ UNCHANGED <<mixed, revived>>
  <2>1. SoundCall([call[c] EXCEPT !.pc = "first"])
    BY <1>1 DEF SoundCall, Call
  <2>2. call' \in [Caller -> Call] /\ Sound'
    BY <1>2, <2>1, Went DEF Step, FindFilter
  <2> QED BY <1>2, <2>2 DEF Typed, TypeOK, Sent, FindFilter
<1>3. CASE call[c].op = "save" /\ ~Exists(call[c].id)
  <2>1. PICK g \in Filter :
          /\ call' = [call EXCEPT ![c].pc = "check", ![c].id = g]
          /\ mixed' = mixed \ {g}
          /\ revived' = (revived \ {g}) \cup {f \in {call[c].for} : call[c].found # {}}
    BY <1>3 DEF FindFilter
  <2> DEFINE k == [call[c] EXCEPT !.pc = "check", !.id = g]
  <2>2. k \in Call
    BY <1>1 DEF Call, Step
  <2>3. SoundCall(k)
    BY <1>1, <1>3 DEF SoundCall, Call
  <2>4. call' \in [Caller -> Call] /\ Sound'
    BY <2>1, <2>2, <2>3, CallChanged DEF FindFilter
  <2>5. mixed' \in SUBSET Filter /\ revived' \in SUBSET Filter
    BY <1>1, <1>3, <2>1 DEF SoundCall, Typed, TypeOK, Call
  <2> QED BY <2>4, <2>5 DEF Typed, TypeOK, Sent, FindFilter
<1>4. CASE End(c) /\ UNCHANGED <<mixed, revived>>
  <2>1. call' \in [Caller -> Call] /\ Sound'
    BY <1>4, Ended DEF FindFilter
  <2> QED BY <1>4, <2>1 DEF Typed, TypeOK, Sent, FindFilter
<1> QED BY <1>2, <1>3, <1>4 DEF FindFilter

LEMMA ReadFilterTyped ==
  ASSUME Typed, NEW c \in Caller, ReadFilter(c)
  PROVE Typed'
<1>1. call[c] \in Call /\ SoundCall(call[c]) /\ call[c].pc = "first"
  BY DEF Typed, TypeOK, Sound, ReadFilter, At
<1>2. CASE Exists(call[c].id)
  <2> DEFINE k == [call[c] EXCEPT !.pc = AfterRead(call[c].op), !.old = NameOf(call[c].id)]
  <2>1. NameOf(call[c].id) \in Name
    BY <1>1, <1>2, FirstRow DEF SoundCall, Typed
  <2>2. AfterRead(call[c].op) \in {"check", "hub", "remove"}
    BY DEF AfterRead
  <2>3. k \in Call
    BY <1>1, <2>1, <2>2 DEF Call, Step
  <2>4. SoundCall(k)
    BY <1>1, <2>2 DEF SoundCall, Call, AfterRead
  <2>5. call' \in [Caller -> Call] /\ Sound'
    BY <1>2, <2>3, <2>4, CallChanged DEF ReadFilter
  <2> QED BY <1>2, <2>5 DEF Typed, TypeOK, Sent, ReadFilter
<1>3. CASE Abort(c)
  BY <1>3, Aborted DEF Typed, TypeOK, Sent, ReadFilter
<1> QED BY <1>2, <1>3 DEF ReadFilter

LEMMA CheckNameTyped ==
  ASSUME Typed, NEW c \in Caller, CheckName(c)
  PROVE Typed'
<1>1. call[c] \in Call /\ SoundCall(call[c]) /\ call[c].pc = "check"
  BY DEF Typed, TypeOK, Sound, CheckName, At
<1>2. SoundCall([call[c] EXCEPT !.pc = "retrieve"])
  BY <1>1 DEF SoundCall, Call
<1>3. call' \in [Caller -> Call] /\ Sound'
  BY <1>2, Went, Ended DEF CheckName, Step
<1>4. contested' \in SUBSET Name
  BY <1>1 DEF CheckName, Rivalled, SoundCall, Typed, TypeOK
<1> QED BY <1>3, <1>4 DEF Typed, TypeOK, Sent, CheckName

LEMMA RetrieveTyped ==
  ASSUME Typed, NEW c \in Caller, Retrieve(c)
  PROVE Typed'
<1>1. call[c] \in Call /\ SoundCall(call[c]) /\ call[c].pc = "retrieve"
  BY DEF Typed, TypeOK, Sound, Retrieve, At
<1>2. /\ SoundCall([call[c] EXCEPT !.pc = "replace"])
      /\ SoundCall([call[c] EXCEPT !.pc = "insert"])
  BY <1>1 DEF SoundCall, Call
<1>3. call' \in [Caller -> Call] /\ Sound'
  BY <1>2, Went DEF Retrieve, Step
<1> QED BY <1>3 DEF Typed, TypeOK, Sent, Retrieve

LEMMA WriteTyped ==
  ASSUME Typed, NEW c \in Caller, Write(c)
  PROVE Typed'
<1>1. call[c] \in Call /\ SoundCall(call[c]) /\ call[c].pc \in {"insert", "replace"}
  BY DEF Typed, TypeOK, Sound, Write, At
<1>2. RowOf(c, call[c].name) \in Row
  BY <1>1 DEF SoundCall, RowOf, Row
<1>3. CASE Written(c) /\ UNCHANGED mixed
  <2>1. /\ call[c].op # "init" => SoundCall([call[c] EXCEPT !.pc = "drop"])
        /\ call[c].op # "init" => SoundCall([call[c] EXCEPT !.pc = "reread"])
    BY <1>1 DEF SoundCall, Call
  <2>2. call' \in [Caller -> Call] /\ Sound'
    BY <1>3, <2>1, Went, Ended DEF Written, Write, Step
  <2> QED BY <1>2, <1>3, <2>2 DEF Typed, TypeOK, Sent, Write
<1>4. CASE Abort(c) /\ UNCHANGED rows
  BY <1>4, Aborted DEF Typed, TypeOK, Sent, Write
<1> QED BY <1>3, <1>4 DEF Write

LEMMA DeleteOldTyped ==
  ASSUME Typed, NEW c \in Caller, DeleteOld(c) \/ DeleteOldFails(c)
  PROVE Typed'
<1>1. call[c] \in Call /\ SoundCall(call[c]) /\ call[c].pc = "drop"
  BY DEF Typed, TypeOK, Sound, DeleteOld, DeleteOldFails, At
<1>2. SoundCall([call[c] EXCEPT !.pc = "reread"])
  BY <1>1 DEF SoundCall, Call
<1>3. call' \in [Caller -> Call] /\ Sound'
  BY <1>2, Went DEF DeleteOld, DeleteOldFails, Step
<1>4. mixed' \in SUBSET Filter
  BY <1>1 DEF DeleteOld, DeleteOldFails, SoundCall, Typed, TypeOK
<1> QED BY <1>3, <1>4 DEF Typed, TypeOK, Sent, DeleteOld, DeleteOldFails

LEMMA ReadAgainTyped ==
  ASSUME Typed, NEW c \in Caller, ReadAgain(c)
  PROVE Typed'
<1>1. call[c] \in Call /\ SoundCall(call[c]) /\ call[c].pc = "reread"
  BY DEF Typed, TypeOK, Sound, ReadAgain, At
<1>2. SoundCall([call[c] EXCEPT !.pc = "return"])
  BY <1>1 DEF SoundCall, Call
<1>3. CASE Goto(c, "return") /\ UNCHANGED mixed
  <2>1. call' \in [Caller -> Call] /\ Sound'
    BY <1>2, <1>3, Went DEF ReadAgain, Step
  <2> QED BY <1>3, <2>1 DEF Typed, TypeOK, Sent, ReadAgain
<1>4. CASE Abort(c)
  BY <1>4, Aborted DEF Typed, TypeOK, Sent, ReadAgain
<1> QED BY <1>3, <1>4 DEF ReadAgain

LEMMA ReturnTyped ==
  ASSUME Typed, NEW c \in Caller, Return(c)
  PROVE Typed'
<1>1. call[c] \in Call /\ SoundCall(call[c]) /\ call[c].pc = "return"
  BY DEF Typed, TypeOK, Sound, Return, At
<1>2. CASE Exists(call[c].id) /\ End(c) /\ UNCHANGED mixed
  <2>1. NameOf(call[c].id) \in Name
    BY <1>1, <1>2, FirstRow DEF SoundCall, Typed
  <2>2. call' \in [Caller -> Call] /\ Sound'
    BY <1>2, Ended DEF Return
  <2>3. updates' \in SUBSET Update /\ Sent'
    BY <1>1, <1>2, <2>1 DEF Return, SoundCall, Call, Typed, TypeOK, Update, Sent
  <2> QED BY <1>2, <2>2, <2>3 DEF Typed, TypeOK, Return
<1>3. CASE Abort(c) /\ UNCHANGED updates
  BY <1>3, Aborted DEF Typed, TypeOK, Sent, Return
<1> QED BY <1>2, <1>3 DEF Return

LEMMA RemoveRowTyped ==
  ASSUME Typed, NEW c \in Caller, RemoveRow(c)
  PROVE Typed'
<1>1. call' \in [Caller -> Call] /\ Sound'
  BY Ended DEF RemoveRow
<1> QED BY <1>1 DEF Typed, TypeOK, Sent, RemoveRow

LEMMA AddJobTyped ==
  ASSUME Typed, NEW c \in Caller, AddJob(c)
  PROVE Typed'
<1>1. call[c] \in Call /\ SoundCall(call[c]) /\ call[c].pc = "hub"
  BY DEF Typed, TypeOK, Sound, AddJob, At
<1>2. PICK j \in JobsOf(NoFilter) :
        jobs' = [jobs EXCEPT ![j] = [of |-> call[c].id, name |-> call[c].old]]
  BY DEF AddJob
<1>3. jobs' \in [Job -> JobRow] /\ \A i \in Job : jobs[i].of \in Filter => jobs'[i].of \in Filter
  BY <1>1, <1>2 DEF SoundCall, Call, JobRow, Typed, TypeOK, JobsOf
<1>4. call' \in [Caller -> Call] /\ Sound'
  BY <1>3, CallChanged, IdleSound DEF AddJob, End
<1>5. Sent'
  BY <1>3 DEF Typed, TypeOK, Sent, AddJob, Update
<1> QED BY <1>3, <1>4, <1>5 DEF Typed, TypeOK, AddJob

LEMMA UpdateTyped ==
  ASSUME Typed, NEW u \in updates, UpdateJob(u) \/ LoseUpdate(u)
  PROVE Typed'
<1>1. u \in Update /\ jobs[u.job].of \in Filter
  BY DEF Typed, TypeOK, Sent
<1>2. jobs' \in [Job -> JobRow] /\ \A i \in Job : jobs'[i].of = jobs[i].of
  BY <1>1 DEF UpdateJob, LoseUpdate, Update, JobRow, Typed, TypeOK
<1>3. Sound' /\ Sent'
  BY <1>2 DEF UpdateJob, LoseUpdate, Sound, SoundCall, Sent, Typed, TypeOK, Update, Call
<1>4. mixed' \in SUBSET Filter
  BY <1>1 DEF UpdateJob, LoseUpdate, Typed, TypeOK
<1> QED BY <1>2, <1>3, <1>4 DEF Typed, TypeOK, UpdateJob, LoseUpdate

LEMMA FailTyped ==
  ASSUME Typed, NEW c \in Caller, Fail(c)
  PROVE Typed'
BY Aborted DEF Fail, Typed, TypeOK, Sent

LEMMA TypedStep == Typed /\ [Next]_vars => Typed'
<1> SUFFICES ASSUME Typed, [Next]_vars PROVE Typed'
  OBVIOUS
<1>1. ASSUME NEW c \in Caller, Request(c) PROVE Typed'
  BY <1>1, RequestTyped
<1>2. ASSUME NEW c \in Caller, Continue(c) PROVE Typed'
  BY <1>2, QueryJobsTyped, FindFilterTyped, ReadFilterTyped, CheckNameTyped, RetrieveTyped,
     WriteTyped, DeleteOldTyped, ReadAgainTyped, ReturnTyped, RemoveRowTyped, AddJobTyped
     DEF Continue
<1>3. ASSUME NEW c \in Caller, Fail(c) PROVE Typed'
  BY <1>3, FailTyped
<1>4. ASSUME NEW u \in updates, UpdateJob(u) \/ LoseUpdate(u) PROVE Typed'
  BY <1>4, UpdateTyped
<1>5. CASE UNCHANGED vars
  BY <1>5 DEF vars, Typed, TypeOK, Sound, SoundCall, Sent
<1> QED BY <1>1, <1>2, <1>3, <1>4, <1>5 DEF Next, Proceed

\* Every state has its type, whatever the numbers of filters, names, jobs and
\* callers.
THEOREM FiltersTyped == Spec => []TypeOK
<1>1. Typed => TypeOK
  BY DEF Typed
<1> QED BY <1>1, TypedInit, TypedStep, PTL DEF Spec

-----------------------------------------------------------------------------
(* Names.  While a call that is past the check writes a name, no other filter  *)
(* has it or is about to have it, unless it was contested since or one of the  *)
(* two is a built-in filter a start has written again.                         *)

Claims(f, n) ==
  \/ \E r \in rows : r.id = f /\ r.name = n
  \/ \E d \in Caller : Writing(d, n) /\ call[d].id = f

Excused(f, g, n) ==
  \/ n \in contested \cup {Unnamed}
  \/ \E b \in {f, g} \cap Builtin \cap revived : FirstName[b] = n

WritesAlone ==
  \A c \in Caller : \A n \in Name : \A f \in Filter \ {call[c].id} :
    Writing(c, n) /\ Claims(f, n) => Excused(call[c].id, f, n)

NameInv == UniqueNames /\ WritesAlone

ExcusesStay == contested \subseteq contested' /\ Builtin \cap revived \subseteq revived'

\* No row and no writer is added.
Quiet ==
  /\ rows' \subseteq rows
  /\ ExcusesStay
  /\ \A c \in Caller, n \in Name :
       Writing(c, n)' => Writing(c, n) /\ call'[c].id = call[c].id

LEMMA QuietKeeps ==
  ASSUME NameInv, Quiet
  PROVE NameInv'
<1>1. ASSUME NEW r \in rows', NEW s \in rows', r.name = s.name, r.id # s.id
      PROVE Excused(r.id, s.id, r.name)'
  BY <1>1 DEF NameInv, UniqueNames, Quiet, Excused, ExcusesStay
<1>2. ASSUME NEW c \in Caller, NEW n \in Name, NEW f \in Filter \ {call'[c].id},
             Writing(c, n)', Claims(f, n)'
      PROVE Excused(call[c].id, f, n)'
  <2>1. Writing(c, n) /\ call'[c].id = call[c].id
    BY <1>2 DEF Quiet
  <2>2. Claims(f, n)
    BY <1>2 DEF Quiet, Claims
  <2>3. Excused(call[c].id, f, n)
    BY <1>2, <2>1, <2>2 DEF NameInv, WritesAlone
  <2> QED BY <2>1, <2>3 DEF Quiet, ExcusesStay, Excused
<1>3. UniqueNames'
  BY <1>1 DEF UniqueNames, Excused
<1>4. WritesAlone'
  BY <1>2 DEF WritesAlone, Excused
<1> QED BY <1>3, <1>4 DEF NameInv

LEMMA EndQuiet ==
  ASSUME Typed, NEW c \in Caller, End(c) \/ Abort(c), rows' \subseteq rows,
         UNCHANGED <<revived, contested>>
  PROVE Quiet
<1>1. call \in [Caller -> Call] /\ call' = [call EXCEPT ![c] = Idle]
  BY DEF Typed, TypeOK, End, Abort
<1>2. call'[c] = Idle /\ \A d \in Caller \ {c} : call'[d] = call[d]
  BY <1>1
<1>3. Idle.pc = "done"
  BY DEF Idle, Started
<1> QED BY <1>2, <1>3 DEF Quiet, ExcusesStay, Writing

\* Every step but a check that succeeds, the first step of an initialisation and
\* a write.
LEMMA RequestQuiet ==
  ASSUME Typed, NEW c \in Caller, Request(c)
  PROVE Quiet \/ \E b \in Builtin : InitializeDefaultFilter(c, b)
<1>1. call \in [Caller -> Call]
  BY DEF Typed, TypeOK
<1>2. ASSUME NEW op, NEW pc, NEW f, NEW n, Begin(c, op, pc, f, n), pc \in {"jobs", "any"},
             UNCHANGED <<rows, revived, contested>>
      PROVE Quiet
  <2>1. call'[c].pc = pc /\ \A d \in Caller \ {c} : call'[d] = call[d]
    BY <1>1, <1>2 DEF Begin, Started
  <2> QED BY <1>2, <2>1 DEF Quiet, ExcusesStay, Writing
<1>3. ASSUME NEW n \in Name, NewFilter(c, n) PROVE Quiet
  <2>1. call'[c].pc = "check" /\ \A d \in Caller \ {c} : call'[d] = call[d]
    BY <1>1, <1>3 DEF NewFilter, Started
  <2>2. ExcusesStay
    BY <1>3 DEF NewFilter, Fresh, ExcusesStay
  <2> QED BY <1>3, <2>1, <2>2 DEF Quiet, Writing, NewFilter
<1> QED BY <1>2, <1>3 DEF Request, SaveFilter, DeleteFilter, ScheduleJob

LEMMA ContinueQuiet ==
  ASSUME Typed, NEW c \in Caller,
         \/ QueryJobs(c) \/ FindFilter(c) \/ ReadFilter(c) \/ Retrieve(c) \/ DeleteOld(c)
         \/ DeleteOldFails(c) \/ ReadAgain(c) \/ Return(c) \/ RemoveRow(c) \/ AddJob(c)
         \/ Fail(c)
  PROVE Quiet
<1>1. call \in [Caller -> Call] /\ call[c] \in Call
  BY DEF Typed, TypeOK
<1>2. ASSUME NEW pc \in Step, Goto(c, pc), rows' \subseteq rows,
             UNCHANGED <<revived, contested>>,
             pc \in {"retrieve", "insert", "replace"} => At(c, "retrieve")
      PROVE Quiet
  <2>1. /\ call'[c].pc = pc /\ call'[c].name = call[c].name /\ call'[c].id = call[c].id
        /\ \A d \in Caller \ {c} : call'[d] = call[d]
    BY <1>1, <1>2 DEF Goto, Call
  <2> QED BY <1>2, <2>1 DEF Quiet, ExcusesStay, Writing, At
<1>3. ASSUME call'[c].pc \notin {"retrieve", "insert", "replace"},
             \A d \in Caller \ {c} : call'[d] = call[d], UNCHANGED rows, ExcusesStay
      PROVE Quiet
  BY <1>3 DEF Quiet, Writing
<1>4. CASE QueryJobs(c)
  <2>1. CASE End(c)
    BY <1>4, <2>1, EndQuiet DEF QueryJobs
  <2>2. CASE call' = [call EXCEPT ![c].pc = "any", ![c].found = JobsOf(call[c].for)]
    BY <1>1, <1>3, <1>4, <2>2 DEF QueryJobs, ExcusesStay, Call
  <2> QED BY <1>4, <2>1, <2>2 DEF QueryJobs
<1>5. CASE FindFilter(c)
  <2>1. CASE End(c) /\ UNCHANGED revived
    BY <1>5, <2>1, EndQuiet DEF FindFilter
  <2>2. CASE Goto(c, "first") /\ UNCHANGED revived
    BY <1>2, <1>5, <2>2 DEF FindFilter, Step
  <2>3. ASSUME NEW g, Fresh(g), call' = [call EXCEPT ![c].pc = "check", ![c].id = g],
               revived' = (revived \ {g}) \cup {f \in {call[c].for} : call[c].found # {}}
        PROVE Quiet
    <3>1. ExcusesStay
      BY <1>5, <2>3 DEF FindFilter, Fresh, ExcusesStay
    <3> QED BY <1>1, <1>3, <1>5, <2>3, <3>1 DEF FindFilter, Call
  <2> QED BY <1>5, <2>1, <2>2, <2>3 DEF FindFilter
<1>6. CASE ReadFilter(c)
  <2>1. CASE Abort(c)
    BY <1>6, <2>1, EndQuiet DEF ReadFilter
  <2>2. CASE call' = [call EXCEPT ![c].pc = AfterRead(call[c].op),
                                  ![c].old = NameOf(call[c].id)]
    <3>1. call'[c].pc \in {"check", "hub", "remove"}
      BY <1>1, <2>2 DEF AfterRead, Call
    <3> QED BY <1>1, <1>3, <1>6, <2>2, <3>1 DEF ReadFilter, ExcusesStay
  <2> QED BY <1>6, <2>1, <2>2 DEF ReadFilter
<1>7. CASE Retrieve(c)
  BY <1>2, <1>7 DEF Retrieve, Step
<1>8. CASE DeleteOld(c) \/ DeleteOldFails(c)
  BY <1>2, <1>8 DEF DeleteOld, DeleteOldFails, Step
<1>9. CASE ReadAgain(c)
  BY <1>2, <1>9, EndQuiet DEF ReadAgain, Step
<1>10. CASE Return(c) \/ RemoveRow(c) \/ AddJob(c) \/ Fail(c)
  BY <1>10, EndQuiet DEF Return, RemoveRow, AddJob, Fail
<1> QED BY <1>4, <1>5, <1>6, <1>7, <1>8, <1>9, <1>10

\* One more call starts to write a name: every filter that has it, or is about to,
\* is excused.
LEMMA OneMoreWriter ==
  ASSUME NameInv, NEW c \in Caller, NEW n \in Name, NEW i, UNCHANGED rows,
         \A d \in Caller \ {c} : call'[d] = call[d],
         call'[c].name = n, call'[c].id = i, ExcusesStay,
         \A f \in Filter \ {i} : (\E r \in rows : r.id = f /\ r.name = n) => Excused(i, f, n)',
         \A d \in Caller \ {c} : Writing(d, n) /\ call[d].id # i => n \in contested'
  PROVE NameInv'
<1>1. ASSUME NEW r \in rows, NEW s \in rows, r.name = s.name, r.id # s.id
      PROVE Excused(r.id, s.id, r.name)'
  BY <1>1 DEF NameInv, UniqueNames, Excused, ExcusesStay
<1>2. ASSUME NEW d \in Caller, NEW m \in Name, NEW f \in Filter \ {call'[d].id},
             Writing(d, m)', Claims(f, m)'
      PROVE Excused(call[d].id, f, m)'
  <2>0. (\E r \in rows : r.id = f /\ r.name = m)
          \/ \E e \in Caller : Writing(e, m)' /\ call'[e].id = f
    BY <1>2 DEF Claims
  <2>1. CASE d = c
    <3>1. m = n /\ call'[d].id = i
      BY <1>2, <2>1 DEF Writing
    <3>2. ASSUME NEW e \in Caller, Writing(e, m)', call'[e].id = f
          PROVE n \in contested'
      BY <1>2, <3>1, <3>2 DEF Writing
    <3> QED BY <1>2, <2>0, <3>1, <3>2 DEF Excused
  <2>2. CASE d # c
    <3>1. Writing(d, m) /\ call'[d] = call[d]
      BY <1>2, <2>2 DEF Writing
    <3>2. Claims(f, m) => Excused(call[d].id, f, m)
      BY <1>2, <3>1 DEF NameInv, WritesAlone
    <3>3. ASSUME NEW e \in Caller, Writing(e, m)', call'[e].id = f
          PROVE Claims(f, m) \/ m \in contested'
      <4>1. CASE e = c
        BY <1>2, <2>2, <3>1, <3>3, <4>1 DEF Writing
      <4>2. CASE e # c
        BY <3>3, <4>2 DEF Claims, Writing
      <4> QED BY <4>1, <4>2
    <3>4. Claims(f, m) \/ m \in contested'
      BY <2>0, <3>3 DEF Claims
    <3>5. CASE Claims(f, m)
      BY <3>1, <3>2, <3>5 DEF ExcusesStay, Excused
    <3>6. CASE m \in contested'
      BY <3>6 DEF Excused
    <3> QED BY <3>4, <3>5, <3>6
  <2> QED BY <2>1, <2>2
<1>3. UniqueNames'
  BY <1>1 DEF UniqueNames, Excused
<1>4. WritesAlone'
  BY <1>2 DEF WritesAlone, Excused
<1> QED BY <1>3, <1>4 DEF NameInv

LEMMA CheckNameKeeps ==
  ASSUME Typed, NameInv, NEW c \in Caller, CheckName(c)
  PROVE NameInv'
<1>1. call \in [Caller -> Call] /\ call[c] \in Call /\ SoundCall(call[c]) /\ At(c, "check")
  BY DEF Typed, TypeOK, Sound, CheckName
<1>4. ExcusesStay
  BY DEF CheckName, ExcusesStay
<1>2. CASE End(c)
  <2>1. call'[c].pc = "done" /\ \A d \in Caller \ {c} : call'[d] = call[d]
    BY <1>1, <1>2 DEF End, Idle, Started
  <2> QED BY <1>4, <2>1, QuietKeeps DEF Quiet, Writing, CheckName
<1>3. CASE ~NameTaken(call[c].id, call[c].name) /\ Goto(c, "retrieve")
  <2>0. PICK n, i : n = call[c].name /\ i = call[c].id
    OBVIOUS
  <2>1. n \in Name
    BY <1>1, <2>0 DEF SoundCall, At
  <2>2. /\ call'[c].name = n /\ call'[c].id = i
        /\ \A d \in Caller \ {c} : call'[d] = call[d]
    BY <1>1, <1>3, <2>0 DEF Goto, Call
  <2>3. \A f \in Filter \ {i} : (\E r \in rows : r.id = f /\ r.name = n) => Excused(i, f, n)'
    BY <1>3, <2>0 DEF NameTaken, Excused
  <2>4. \A d \in Caller : Writing(d, n) /\ call[d].id # i => n \in contested'
    BY <2>0 DEF CheckName, Rivalled
  <2> QED BY <1>4, <2>1, <2>2, <2>3, <2>4, OneMoreWriter DEF CheckName
<1> QED BY <1>2, <1>3 DEF CheckName

LEMMA InitializeKeeps ==
  ASSUME Typed, NameInv, NEW c \in Caller, NEW b \in Builtin, InitializeDefaultFilter(c, b)
  PROVE NameInv'
<1>0. PICK n : n = FirstName[b]
  OBVIOUS
<1>1. n \in Name /\ n # Unnamed
  BY <1>0, FilterAssumption
<1>2. /\ call'[c].name = n /\ call'[c].id = b
      /\ \A d \in Caller \ {c} : call'[d] = call[d]
  BY <1>0 DEF InitializeDefaultFilter, Started, Typed, TypeOK
<1>3. ExcusesStay
  BY DEF InitializeDefaultFilter, ExcusesStay
<1>4. ASSUME NEW f \in Filter \ {b}, \E r \in rows : r.id = f /\ r.name = n
      PROVE Excused(b, f, n)'
  <2>1. b \in revived'
    BY <1>0, <1>1, <1>4 DEF InitializeDefaultFilter, NameTaken
  <2> QED BY <1>0, <2>1 DEF Excused
<1>5. \A d \in Caller : Writing(d, n) /\ call[d].id # b => n \in contested'
  BY <1>0 DEF InitializeDefaultFilter, Rivalled
<1> QED BY <1>1, <1>2, <1>3, <1>4, <1>5, OneMoreWriter DEF InitializeDefaultFilter

LEMMA WriteKeeps ==
  ASSUME Typed, NameInv, NEW c \in Caller, Write(c)
  PROVE NameInv'
<1>1. call \in [Caller -> Call] /\ call[c] \in Call /\ SoundCall(call[c])
  BY DEF Typed, TypeOK, Sound
<1>2. CASE Abort(c) /\ UNCHANGED rows
  BY <1>2, EndQuiet, QuietKeeps DEF Write
<1>3. CASE rows' = rows \cup {RowOf(c, call[c].name)} /\ Written(c)
  <2>0. PICK n, i : n = call[c].name /\ i = call[c].id
    OBVIOUS
  <2>1. n \in Name /\ Writing(c, n) /\ i \in Filter
    BY <1>1, <2>0 DEF SoundCall, Writing, Write
  <2>2. \A f \in Filter \ {i} : Claims(f, n) => Excused(i, f, n)
    BY <2>0, <2>1 DEF NameInv, WritesAlone
  <2>3. /\ call'[c].pc \in {"done", "drop", "reread"}
        /\ \A d \in Caller \ {c} : call'[d] = call[d]
    BY <1>1, <1>3 DEF Written, End, Goto, Idle, Started, Call
  <2>4. PICK new : new.id = i /\ new.name = n /\ rows' = rows \cup {new}
    BY <1>3, <2>0 DEF RowOf
  <2>5. ExcusesStay
    BY DEF Write, ExcusesStay
  <2>6. ASSUME NEW r \in rows', NEW s \in rows', r.name = s.name, r.id # s.id
        PROVE Excused(r.id, s.id, r.name)'
    <3>1. CASE r \in rows /\ s \in rows
      BY <2>5, <2>6, <3>1 DEF NameInv, UniqueNames, Excused, ExcusesStay
    <3>2. ASSUME NEW q \in rows, q.id # i, q.name = n PROVE Excused(i, q.id, n)'
      <4>1. q.id \in Filter /\ Claims(q.id, n)
        BY <3>2 DEF Claims, Typed, TypeOK, Row
      <4> QED BY <2>2, <2>5, <3>2, <4>1 DEF ExcusesStay, Excused
    <3>3. CASE r = new /\ s \in rows
      BY <2>4, <2>6, <3>2, <3>3
    <3>4. CASE s = new /\ r \in rows
      <4>1. Excused(i, r.id, n)'
        BY <2>4, <2>6, <3>2, <3>4
      <4> QED BY <2>4, <2>6, <3>4, <4>1 DEF Excused
    <3> QED BY <2>4, <2>6, <3>1, <3>3, <3>4
  <2>7. ASSUME NEW d \in Caller, NEW m \in Name, NEW f \in Filter \ {call'[d].id},
               Writing(d, m)', Claims(f, m)'
        PROVE Excused(call[d].id, f, m)'
    <3>1. d # c /\ Writing(d, m) /\ call'[d] = call[d]
      BY <2>3, <2>7 DEF Writing
    <3>2. Claims(f, m)
      <4>1. ASSUME NEW r \in rows', r.id = f, r.name = m PROVE Claims(f, m)
        BY <2>0, <2>1, <2>4, <4>1 DEF Claims
      <4>2. ASSUME NEW e \in Caller, Writing(e, m)', call'[e].id = f PROVE Claims(f, m)
        <5>1. e # c
          BY <2>3, <4>2 DEF Writing
        <5> QED BY <2>3, <4>2, <5>1 DEF Claims, Writing
      <4> QED BY <2>7, <4>1, <4>2 DEF Claims
    <3>3. Excused(call[d].id, f, m)
      BY <2>7, <3>1, <3>2 DEF NameInv, WritesAlone
    <3> QED BY <2>5, <3>1, <3>3 DEF ExcusesStay, Excused
  <2>8. UniqueNames'
    BY <2>6 DEF UniqueNames, Excused
  <2>9. WritesAlone'
    BY <2>7 DEF WritesAlone, Excused
  <2> QED BY <2>8, <2>9 DEF NameInv
<1> QED BY <1>2, <1>3 DEF Write

LEMMA NameStep == Typed /\ NameInv /\ [Next]_vars => NameInv'
<1> SUFFICES ASSUME Typed, NameInv, [Next]_vars PROVE NameInv'
  OBVIOUS
<1>1. ASSUME NEW c \in Caller, Request(c) PROVE NameInv'
  BY <1>1, RequestQuiet, QuietKeeps, InitializeKeeps
<1>2. ASSUME NEW c \in Caller, Continue(c) \/ Fail(c) PROVE NameInv'
  <2>1. \/ CheckName(c) \/ Write(c)
        \/ QueryJobs(c) \/ FindFilter(c) \/ ReadFilter(c) \/ Retrieve(c) \/ DeleteOld(c)
        \/ DeleteOldFails(c) \/ ReadAgain(c) \/ Return(c) \/ RemoveRow(c) \/ AddJob(c)
        \/ Fail(c)
    BY <1>2 DEF Continue
  <2> QED BY <2>1, ContinueQuiet, QuietKeeps, CheckNameKeeps, WriteKeeps
<1>3. ASSUME UNCHANGED <<rows, call, revived, contested>> PROVE NameInv'
  BY <1>3, QuietKeeps DEF Quiet, ExcusesStay, Writing
<1> QED BY <1>1, <1>2, <1>3 DEF Next, Proceed, UpdateJob, LoseUpdate, vars

\* Two filters have one name only if it was given to both at the same time, since
\* SaveFilterAsync (DeviceListFilterRepository.cs:133) checks before it writes, or
\* if one of them is a built-in filter that a start of the portal wrote again under
\* its first name, which InitializeDefaultFilter (:95) never checks: after a rename
\* or a forced deletion of it, or after another filter was given its name.
THEOREM NamesUnique == Spec => []UniqueNames
<1>1. Init => NameInv
  BY DEF Init, NameInv, UniqueNames, WritesAlone, Writing, Idle, Started
<1>2. NameInv => UniqueNames
  BY DEF NameInv
<1> QED BY <1>1, <1>2, NameStep, TypedInit, TypedStep, PTL DEF Spec

-----------------------------------------------------------------------------
(* Rows.  A filter on which no operations overlapped has one call at a time,  *)
(* which knows its rows.                                                      *)

AtMostOne(S) == \A n, m \in S : n = m

\* What a call k about a filter knows of its names.
Known(k, names) ==
  /\ k.op = "save" /\ k.pc \in {"check", "retrieve", "insert", "replace"} =>
       names = {k.old} \ {NoName}
  /\ k.op = "init" => names \subseteq {k.name}
  /\ k.pc = "drop" => names = {k.old, k.name} /\ k.old # k.name

RowsInv(f) ==
  f \notin Excepted =>
    /\ \A c, d \in Caller : f \in About(c) /\ f \in About(d) => c = d
    /\ \A c \in Caller : call[c].id = f => Known(call[c], NamesOf(f))
    /\ (\A c \in Caller : call[c].id = f => call[c].pc # "drop") => AtMostOne(NamesOf(f))

RowInv == \A f \in Filter : RowsInv(f)

\* A call that is about another filter leaves the rows of f as they are.
LEMMA OtherFilter ==
  ASSUME NEW c \in Caller, NEW f \in Filter, \A d \in Caller \ {c} : call'[d] = call[d],
         f \notin Excepted, RowsInv(f), f \notin About(c), f \notin About(c)',
         NamesOf(f)' = NamesOf(f)
  PROVE RowsInv(f)'
<1>1. call[c].id # f /\ call'[c].id # f
  BY DEF About
<1>2. \A d \in Caller \ {c} : About(d)' = About(d)
  BY DEF About
<1>3. ASSUME NEW d \in Caller, NEW e \in Caller, f \in About(d)', f \in About(e)'
      PROVE d = e
  <2>1. f \in About(d) /\ f \in About(e)
    BY <1>2, <1>3
  <2> QED BY <2>1 DEF RowsInv
<1>4. ASSUME NEW d \in Caller, call'[d].id = f PROVE Known(call'[d], NamesOf(f)')
  <2>1. call'[d] = call[d]
    BY <1>1, <1>4
  <2> QED BY <1>4, <2>1 DEF RowsInv
<1>5. ASSUME \A d \in Caller : call'[d].id = f => call'[d].pc # "drop"
      PROVE AtMostOne(NamesOf(f)')
  <2>1. \A d \in Caller : call[d].id = f => call[d].pc # "drop"
    BY <1>1, <1>5
  <2> QED BY <2>1 DEF RowsInv
<1> QED BY <1>3, <1>4, <1>5 DEF RowsInv, Known, AtMostOne

\* A call is the only one that is about f, and knows its rows.
LEMMA OnlyCall ==
  ASSUME NEW c \in Caller, NEW f \in Filter, \A d \in Caller \ {c} : call'[d] = call[d],
         \A d \in Caller \ {c} : f \notin About(d),
         call'[c].id = f => Known(call'[c], NamesOf(f)'),
         (call'[c].id = f /\ call'[c].pc = "drop") \/ AtMostOne(NamesOf(f)')
  PROVE RowsInv(f)'
<1>1. \A d \in Caller \ {c} : f \notin About(d)' /\ call'[d].id # f
  BY DEF About
<1>2. \A d, e \in Caller : f \in About(d)' /\ f \in About(e)' => d = e
  BY <1>1
<1>3. \A d \in Caller : call'[d].id = f => Known(call'[d], NamesOf(f)')
  BY <1>1
<1>4. (\A d \in Caller : call'[d].id = f => call'[d].pc # "drop") => AtMostOne(NamesOf(f)')
  OBVIOUS
<1> QED BY <1>2, <1>3, <1>4 DEF RowsInv, Known, AtMostOne

LEMMA RowAdded ==
  ASSUME NEW i, NEW n, rows' = rows \cup {[id |-> i, name |-> n]}, NEW f
  PROVE NamesOf(f)' = IF f = i THEN NamesOf(f) \cup {n} ELSE NamesOf(f)
<1>1. \A m : m \in NamesOf(f)' <=> \E r \in rows' : r.id = f /\ r.name = m
  BY DEF NamesOf
<1>2. \A m : m \in NamesOf(f) <=> \E r \in rows : r.id = f /\ r.name = m
  BY DEF NamesOf
<1> DEFINE new == [id |-> i, name |-> n]
<1>4. new.id = i /\ new.name = n
  OBVIOUS
<1> HIDE DEF new
<1>5. \A r : r \in rows' <=> r \in rows \/ r = new
  BY DEF new
<1>3. \A m : m \in NamesOf(f)' <=> m \in NamesOf(f) \/ (f = i /\ m = n)
  BY <1>1, <1>2, <1>4, <1>5
<1> QED BY <1>3

LEMMA RowDeleted ==
  ASSUME TypeOK, NEW i, NEW n, rows' = rows \ {[id |-> i, name |-> n]}, NEW f
  PROVE NamesOf(f)' = IF f = i THEN NamesOf(f) \ {n} ELSE NamesOf(f)
<1>1. \A m : m \in NamesOf(f)' <=> \E r \in rows' : r.id = f /\ r.name = m
  BY DEF NamesOf
<1>2. \A m : m \in NamesOf(f) <=> \E r \in rows : r.id = f /\ r.name = m
  BY DEF NamesOf
<1>3. \A r \in rows : r = [id |-> r.id, name |-> r.name]
  BY DEF TypeOK, Row
<1>4. \A m : m \in NamesOf(f)' <=> m \in NamesOf(f) /\ ~(f = i /\ m = n)
  BY <1>1, <1>2, <1>3
<1> QED BY <1>4

\* A call that is about a filter without others knows whether it has one row.
LEMMA OneRow ==
  ASSUME NEW c \in Caller, NEW f \in Filter, RowsInv(f), f \notin Excepted,
         \A d \in Caller \ {c} : f \notin About(d),
         call[c].pc # "drop" \/ call[c].id # f
  PROVE AtMostOne(NamesOf(f))
<1>1. \A d \in Caller : call[d].id = f => call[d].pc # "drop"
  BY DEF About
<1> QED BY <1>1 DEF RowsInv

\* A step of a call that changes no row.  What it comes to be about, nobody else is.
LEMMA Moved ==
  ASSUME RowInv, NEW c \in Caller, UNCHANGED rows, \A d \in Caller \ {c} : call'[d] = call[d],
         \A f \in Filter \ Excepted' :
           f \in Excepted => f = call'[c].id /\ Active(f) = {} /\ NamesOf(f) = {},
         \A f \in Filter \ Excepted' : f \in About(c)' => f \in About(c) \/ Active(f) = {},
         call[c].pc # "drop" \/ call[c].id \in Excepted',
         call'[c].pc # "drop",
         call'[c].id \in Filter \ Excepted' => Known(call'[c], NamesOf(call'[c].id))
  PROVE RowInv'
<1>1. ASSUME NEW f \in Filter, f \notin Excepted' PROVE RowsInv(f)'
  <2>1. NamesOf(f)' = NamesOf(f)
    BY DEF NamesOf
  <2>2. CASE f \notin About(c) /\ f \notin About(c)'
    <3>1. f \notin Excepted
      BY <1>1, <2>2 DEF About
    <3> QED BY <2>1, <2>2, <3>1, OtherFilter DEF RowInv
  <2>3. CASE f \in About(c) \/ f \in About(c)'
    <3>1. \A d \in Caller \ {c} : f \notin About(d)
      <4>1. CASE f \in About(c) /\ f \notin Excepted
        BY <4>1 DEF RowInv, RowsInv
      <4>2. CASE Active(f) = {}
        BY <4>2 DEF Active
      <4> QED BY <1>1, <2>3, <4>1, <4>2
    <3>2. AtMostOne(NamesOf(f))
      <4>1. CASE f \in Excepted
        BY <1>1, <4>1 DEF AtMostOne
      <4>2. CASE f \notin Excepted
        <5>1. call[c].pc # "drop" \/ call[c].id # f
          BY <1>1
        <5> QED BY <3>1, <4>2, <5>1, OneRow DEF RowInv
      <4> QED BY <4>1, <4>2
    <3>3. call'[c].id = f => Known(call'[c], NamesOf(f))
      BY <1>1
    <3> QED BY <2>1, <3>1, <3>2, <3>3, OnlyCall
  <2> QED BY <2>2, <2>3
<1>2. ASSUME NEW f \in Filter, f \in Excepted' PROVE RowsInv(f)'
  BY <1>2 DEF RowsInv
<1> QED BY <1>1, <1>2 DEF RowInv

\* A step of a call about f with which the rows of f only become what it knows.
LEMMA Changed ==
  ASSUME RowInv, NEW c \in Caller, NEW i \in Filter, i = call[c].id, UNCHANGED Excepted,
         \A d \in Caller \ {c} : call'[d] = call[d],
         \A f \in Filter \ {i} : NamesOf(f)' = NamesOf(f),
         \A f \in Filter : f \in About(c)' => f \in About(c),
         call'[c].id \in {i, NoFilter},
         i \notin Excepted =>
           /\ call'[c].id = i => Known(call'[c], NamesOf(i)')
           /\ (call'[c].id = i /\ call'[c].pc = "drop") \/ AtMostOne(NamesOf(i)')
  PROVE RowInv'
<1>1. ASSUME NEW f \in Filter, f \notin Excepted PROVE RowsInv(f)'
  <2>1. CASE f \notin About(c)
    <3>1. f # i /\ f \notin About(c)'
      BY <2>1 DEF About
    <3> QED BY <1>1, <2>1, <3>1, OtherFilter DEF RowInv
  <2>2. CASE f \in About(c)
    <3>1. \A d \in Caller \ {c} : f \notin About(d)
      BY <1>1, <2>2 DEF RowInv, RowsInv
    <3>2. CASE f = i
      BY <1>1, <3>1, <3>2, OnlyCall
    <3>3. CASE f # i
      <4>1. AtMostOne(NamesOf(f))
        BY <1>1, <3>1, <3>3, OneRow DEF RowInv
      <4>2. call'[c].id # f
        BY <3>3, FilterAssumption
      <4> QED BY <3>1, <3>3, <4>1, <4>2, OnlyCall
    <3> QED BY <3>2, <3>3
  <2> QED BY <2>1, <2>2
<1>2. ASSUME NEW f \in Filter, f \in Excepted PROVE RowsInv(f)'
  BY <1>2 DEF RowsInv
<1> QED BY <1>1, <1>2 DEF RowInv

LEMMA NothingKnown ==
  ASSUME NEW names
  PROVE /\ Known(Idle, names)
        /\ \A k : k.pc \in {"jobs", "any", "first", "hub", "remove", "reread", "return"}
                   /\ k.op # "init" => Known(k, names)
BY DEF Known, Idle, Started

\* The calls before and after a step of c.
LEMMA OneCall ==
  ASSUME Typed, NEW c \in Caller
  PROVE /\ call[c] \in Call /\ SoundCall(call[c])
        /\ \A k : call' = [call EXCEPT ![c] = k] =>
             call'[c] = k /\ \A d \in Caller \ {c} : call'[d] = call[d]
        /\ \A pc : Goto(c, pc) =>
             /\ call'[c] = [call[c] EXCEPT !.pc = pc]
             /\ \A d \in Caller \ {c} : call'[d] = call[d]
        /\ End(c) => call'[c] = Idle /\ \A d \in Caller \ {c} : call'[d] = call[d]
BY DEF Typed, TypeOK, Sound, Goto, End

LEMMA EndRows ==
  ASSUME Typed, RowInv, NEW c \in Caller, End(c), UNCHANGED rows, Excepted \subseteq Excepted',
         call[c].pc # "drop" \/ call[c].id \in Excepted'
  PROVE RowInv'
<1>1. call'[c] = Idle /\ \A d \in Caller \ {c} : call'[d] = call[d]
  BY OneCall
<1>2. About(c)' = {NoFilter} /\ Idle.pc = "done"
  BY <1>1 DEF About, Idle, Started
<1>3. \A f \in Filter \ Excepted' : f \notin Excepted /\ f \notin About(c)'
  BY <1>2, FilterAssumption
<1> QED BY <1>1, <1>2, <1>3, Moved, NothingKnown

LEMMA AbortRows ==
  ASSUME Typed, RowInv, NEW c \in Caller, Abort(c), UNCHANGED <<rows, revived>>
  PROVE RowInv'
<1>1. call[c].pc = "drop" => call[c].id \in Excepted'
  <2>1. ASSUME call[c].pc = "drop" PROVE call[c].id \in Excepted'
    <3>1. call[c].op = "save" /\ call[c].id \in Filter
      BY <2>1, OneCall DEF SoundCall
    <3>2. Unfinished(c)
      BY <2>1, <3>1 DEF Unfinished, At
    <3> QED BY <3>1, <3>2 DEF Abort, About, Excepted
  <2> QED BY <2>1
<1> QED BY <1>1, EndRows DEF Abort, Excepted

\* A call goes on without changing rows, and with nothing more to know.
LEMMA GoneOn ==
  ASSUME Typed, RowInv, NEW c \in Caller, UNCHANGED rows, Excepted \subseteq Excepted',
         \A d \in Caller \ {c} : call'[d] = call[d],
         call'[c].for = call[c].for, call'[c].id = call[c].id,
         call[c].pc # "drop" \/ call[c].id \in Excepted', call'[c].pc # "drop",
         call'[c].id \in Filter \ Excepted' => Known(call'[c], NamesOf(call'[c].id))
  PROVE RowInv'
<1>1. About(c)' = About(c)
  BY DEF About
<1>2. \A f \in Filter \ Excepted' : f \notin Excepted
  OBVIOUS
<1> QED BY <1>1, <1>2, Moved

\* A call begins.
LEMMA BegunRows ==
  ASSUME Typed, RowInv, NEW c \in Caller, NEW k, UNCHANGED rows,
         call' = [call EXCEPT ![c] = k], call[c] = Idle, k.id \in Filter,
         k.for \in {k.id, NoFilter}, k.pc # "drop",
         Excepted \subseteq Excepted' \/ (Fresh(k.id) /\ Excepted \subseteq Excepted' \cup {k.id}),
         Busy(k.id) => k.id \in Excepted',
         k.id \notin Excepted' => Known(k, NamesOf(k.id))
  PROVE RowInv'
<1>1. call'[c] = k /\ \A d \in Caller \ {c} : call'[d] = call[d]
  BY OneCall
<1>2. call[c].pc # "drop"
  BY DEF Idle, Started
<1>3. ASSUME NEW f \in Filter \ Excepted', f \in About(c)' PROVE f = k.id /\ Active(f) = {}
  <2>1. f = k.id
    BY <1>1, <1>3, FilterAssumption DEF About
  <2> QED BY <1>3, <2>1 DEF Busy
<1>4. ASSUME NEW f \in Filter \ Excepted', f \in Excepted
      PROVE f = k.id /\ Active(f) = {} /\ NamesOf(f) = {}
  BY <1>4 DEF Fresh, Exists
<1> QED BY <1>1, <1>2, <1>3, <1>4, Moved

LEMMA RequestRows ==
  ASSUME Typed, RowInv, NEW c \in Caller, Request(c)
  PROVE RowInv'
<1>1. ASSUME NEW op, NEW pc \in {"jobs", "any"}, NEW f \in Filter, NEW n, op # "init",
             Begin(c, op, pc, f, n), UNCHANGED <<rows, revived>>
      PROVE RowInv'
  <2> DEFINE k == Started(op, pc, f, f, n)
  <2>1. k.id = f /\ k.for = f /\ k.pc = pc /\ k.op = op
    BY DEF Started
  <2>2. Known(k, NamesOf(f))
    BY <1>1, <2>1, NothingKnown
  <2>3. call' = [call EXCEPT ![c] = k] /\ call[c] = Idle /\ Excepted \subseteq Excepted'
        /\ (Busy(f) => f \in Excepted')
    BY <1>1 DEF Begin, Excepted
  <2> HIDE DEF k
  <2> QED BY <1>1, <2>1, <2>2, <2>3, BegunRows
<1>2. ASSUME NEW n \in Name, NewFilter(c, n) PROVE RowInv'
  <2>1. PICK g \in Filter :
          Fresh(g) /\ call' = [call EXCEPT ![c] = Started("save", "check", NoFilter, g, n)]
          /\ Excepted' = Excepted \ {g}
    BY <1>2 DEF NewFilter, Excepted
  <2> DEFINE k == Started("save", "check", NoFilter, g, n)
  <2>2. k.id = g /\ k.for = NoFilter /\ k.pc = "check" /\ k.old = NoName /\ k.op = "save"
    BY DEF Started
  <2>3. NamesOf(g) = {} /\ ~Busy(g)
    <3>1. \A u \in updates : jobs[u.job].of = g => u.job \in JobsOf(g)
      BY DEF Typed, TypeOK, Update, JobsOf
    <3> QED BY <2>1, <3>1 DEF Fresh, Exists, Busy, Updating
  <2>4. Known(k, NamesOf(g))
    BY <2>2, <2>3 DEF Known
  <2> HIDE DEF k
  <2> QED BY <1>2, <2>1, <2>2, <2>3, <2>4, BegunRows DEF NewFilter, k
<1>3. ASSUME NEW b \in Builtin, InitializeDefaultFilter(c, b) PROVE RowInv'
  <2> DEFINE k == Started("init", "retrieve", NoFilter, b, FirstName[b])
  <2>1. k.id = b /\ k.for = NoFilter /\ k.pc = "retrieve" /\ k.op = "init"
        /\ k.name = FirstName[b]
    BY DEF Started
  <2>2. call' = [call EXCEPT ![c] = k] /\ call[c] = Idle /\ Excepted \subseteq Excepted'
        /\ (Busy(b) \/ Altered(b) => b \in Excepted')
    BY <1>3 DEF InitializeDefaultFilter, Excepted
  <2>3. b \notin Excepted' => Known(k, NamesOf(b))
    BY <2>1, <2>2 DEF Altered, Known
  <2> HIDE DEF k
  <2> QED BY <1>3, <2>1, <2>2, <2>3, BegunRows, FilterAssumption DEF InitializeDefaultFilter
<1> QED BY <1>1, <1>2, <1>3 DEF Request, SaveFilter, DeleteFilter, ScheduleJob

LEMMA FindFilterRows ==
  ASSUME Typed, RowInv, NEW c \in Caller, FindFilter(c)
  PROVE RowInv'
<1>1. call[c] \in Call /\ SoundCall(call[c]) /\ call[c].pc = "any"
  BY OneCall DEF FindFilter, At
<1>2. CASE Goto(c, "first") /\ UNCHANGED Excepted
  <2>1. /\ call'[c] = [call[c] EXCEPT !.pc = "first"]
        /\ \A d \in Caller \ {c} : call'[d] = call[d]
    BY <1>2, OneCall
  <2>2. /\ call'[c].pc = "first" /\ call'[c].op # "init"
        /\ call'[c].for = call[c].for /\ call'[c].id = call[c].id
    BY <1>1, <2>1 DEF SoundCall, Call
  <2> QED BY <1>1, <1>2, <2>1, <2>2, GoneOn, NothingKnown DEF FindFilter
<1>3. CASE call[c].op = "save" /\ ~Exists(call[c].id)
  <2>1. PICK g \in Filter :
          /\ Fresh(g)
          /\ call' = [call EXCEPT ![c].pc = "check", ![c].id = g]
          /\ Excepted' = (Excepted \ {g}) \cup {f \in {call[c].for} : call[c].found # {}}
    BY <1>3 DEF FindFilter, Excepted
  <2>2. /\ call'[c] = [call[c] EXCEPT !.pc = "check", !.id = g]
        /\ \A d \in Caller \ {c} : call'[d] = call[d]
    BY <2>1 DEF Typed, TypeOK
  <2>3. /\ call'[c].pc = "check" /\ call'[c].op = "save" /\ call'[c].for = call[c].for
        /\ call'[c].id = g /\ call'[c].old = NoName
    BY <1>1, <1>3, <2>2 DEF SoundCall, Call
  <2>4. NamesOf(g) = {} /\ Active(g) = {}
    BY <2>1 DEF Fresh, Exists
  <2>5. Known(call'[c], NamesOf(g))
    BY <2>3, <2>4 DEF Known
  <2>6. \A f \in About(c)' : f \in About(c) \/ f = g
    BY <2>3 DEF About
  <2> QED BY <1>1, <2>1, <2>2, <2>3, <2>4, <2>5, <2>6, Moved DEF FindFilter
<1>4. CASE End(c) /\ UNCHANGED Excepted
  BY <1>1, <1>4, EndRows DEF FindFilter
<1> QED BY <1>2, <1>3, <1>4 DEF FindFilter, Excepted

LEMMA ReadFilterRows ==
  ASSUME Typed, RowInv, NEW c \in Caller, ReadFilter(c)
  PROVE RowInv'
<1>1. call[c] \in Call /\ SoundCall(call[c]) /\ call[c].pc = "first"
  BY OneCall DEF ReadFilter, At
<1>2. CASE Exists(call[c].id) /\ UNCHANGED Excepted
           /\ call' = [call EXCEPT ![c].pc = AfterRead(call[c].op),
                                   ![c].old = NameOf(call[c].id)]
  <2> DEFINE i == call[c].id
  <2>1. /\ call'[c] = [call[c] EXCEPT !.pc = AfterRead(call[c].op), !.old = NameOf(i)]
        /\ \A d \in Caller \ {c} : call'[d] = call[d]
    BY <1>2 DEF Typed, TypeOK
  <2>2. /\ call'[c].pc = AfterRead(call[c].op) /\ call'[c].op = call[c].op
        /\ call'[c].for = call[c].for /\ call'[c].id = i /\ call'[c].old = NameOf(i)
    BY <1>1, <2>1 DEF Call
  <2>3. call'[c].pc \in {"check", "hub", "remove"} /\ call'[c].op # "init"
    BY <1>1, <2>2 DEF AfterRead, SoundCall
  <2>4. i \in Filter
    BY <1>1 DEF SoundCall
  <2>5. ASSUME i \notin Excepted PROVE NamesOf(i) = {NameOf(i)} \ {NoName}
    <3>1. \A d \in Caller \ {c} : i \notin About(d)
      BY <2>4, <2>5 DEF RowInv, RowsInv, About
    <3>2. AtMostOne(NamesOf(i))
      BY <1>1, <2>4, <2>5, <3>1, OneRow DEF RowInv
    <3>3. NameOf(i) \in NamesOf(i) /\ NameOf(i) \in Name
      BY <1>2, <2>4, FirstRow DEF Typed
    <3>4. NameOf(i) # NoName
      BY <3>3, FilterAssumption
    <3> QED BY <3>2, <3>3, <3>4 DEF AtMostOne
  <2>6. i \notin Excepted => Known(call'[c], NamesOf(i))
    BY <2>2, <2>3, <2>5 DEF Known
  <2> QED BY <1>1, <1>2, <2>1, <2>2, <2>3, <2>6, GoneOn DEF ReadFilter, Excepted
<1>3. CASE Abort(c)
  BY <1>3, AbortRows DEF ReadFilter
<1> QED BY <1>2, <1>3 DEF ReadFilter, Excepted

LEMMA StepRows ==
  ASSUME Typed, RowInv, NEW c \in Caller,
         QueryJobs(c) \/ CheckName(c) \/ Retrieve(c) \/ DeleteOldFails(c) \/ ReadAgain(c)
  PROVE RowInv'
<1>1. call[c] \in Call /\ SoundCall(call[c])
  BY OneCall
<1>2. ASSUME NEW pc \in Step, pc # "drop", Goto(c, pc), UNCHANGED rows, Excepted \subseteq Excepted',
             call[c].pc # "drop" \/ call[c].id \in Excepted',
             \/ pc \in {"return", "reread"} /\ call[c].op # "init"
             \/ /\ pc \in {"retrieve", "insert", "replace"}
                /\ call[c].pc \in {"check", "retrieve"}
      PROVE RowInv'
  <2>1. /\ call'[c] = [call[c] EXCEPT !.pc = pc]
        /\ \A d \in Caller \ {c} : call'[d] = call[d]
    BY <1>2, OneCall
  <2>2. /\ call'[c].pc = pc /\ call'[c].op = call[c].op /\ call'[c].name = call[c].name
        /\ call'[c].for = call[c].for /\ call'[c].id = call[c].id /\ call'[c].old = call[c].old
    BY <1>1, <2>1 DEF Call
  <2>3. call[c].id \in Filter \ Excepted' => Known(call[c], NamesOf(call[c].id))
    BY <1>2 DEF RowInv, RowsInv
  <2>4. call'[c].id \in Filter \ Excepted' => Known(call'[c], NamesOf(call'[c].id))
    BY <1>2, <2>2, <2>3 DEF Known
  <2> QED BY <1>2, <2>1, <2>2, <2>4, GoneOn
<1>3. CASE QueryJobs(c)
  <2>1. CASE End(c)
    BY <1>3, <2>1, EndRows DEF QueryJobs, At, Excepted
  <2>2. CASE call' = [call EXCEPT ![c].pc = "any", ![c].found = JobsOf(call[c].for)]
    <3>1. /\ call'[c] = [call[c] EXCEPT !.pc = "any", !.found = JobsOf(call[c].for)]
          /\ \A d \in Caller \ {c} : call'[d] = call[d]
      BY <2>2 DEF Typed, TypeOK
    <3>2. /\ call'[c].pc = "any" /\ call'[c].op # "init"
          /\ call'[c].for = call[c].for /\ call'[c].id = call[c].id
      BY <1>1, <1>3, <3>1 DEF Call, SoundCall, QueryJobs, At
    <3> QED BY <1>3, <3>1, <3>2, GoneOn, NothingKnown DEF QueryJobs, At, Excepted
  <2> QED BY <1>3, <2>1, <2>2 DEF QueryJobs
<1>4. CASE CheckName(c)
  BY <1>2, <1>4, EndRows DEF CheckName, Step, At, Excepted
<1>5. CASE Retrieve(c)
  BY <1>2, <1>5 DEF Retrieve, Step, At, Excepted
<1>6. CASE DeleteOldFails(c)
  <2>1. call[c].op # "init"
    BY <1>1, <1>6 DEF SoundCall, DeleteOldFails, At
  <2> QED BY <1>2, <1>6, <2>1 DEF DeleteOldFails, Step, Excepted
<1>7. CASE ReadAgain(c)
  <2>1. call[c].op # "init" /\ call[c].pc = "reread"
    BY <1>1, <1>7 DEF SoundCall, ReadAgain, At
  <2> QED BY <1>2, <1>7, <2>1, AbortRows DEF ReadAgain, Step, Excepted
<1> QED BY <1>3, <1>4, <1>5, <1>6, <1>7

LEMMA WriteRows ==
  ASSUME Typed, RowInv, NEW c \in Caller, Write(c)
  PROVE RowInv'
<1>1. call[c] \in Call /\ SoundCall(call[c]) /\ call[c].pc \in {"insert", "replace"}
  BY OneCall DEF Write
<1>5. PICK i \in Filter : i = call[c].id
  BY <1>1 DEF SoundCall
<1>6. PICK n \in Name : n = call[c].name /\ n # NoName
  BY <1>1, FilterAssumption DEF SoundCall
<1>7. PICK o : o = call[c].old
  OBVIOUS
<1>2. i = call[c].id /\ n = call[c].name /\ o = call[c].old /\ n # NoName
  BY <1>5, <1>6, <1>7
<1>3. CASE Abort(c) /\ UNCHANGED rows
  BY <1>3, AbortRows DEF Write
<1>4. CASE rows' = rows \cup {RowOf(c, n)} /\ Written(c) /\ UNCHANGED Excepted
  <2>1. \A f \in Filter : NamesOf(f)' = IF f = i THEN NamesOf(f) \cup {n} ELSE NamesOf(f)
    BY <1>2, <1>4, RowAdded DEF RowOf
  <2>5. \A f \in Filter \ {i} : NamesOf(f)' = NamesOf(f)
    BY <2>1
  <2>2. i \notin Excepted => Known(call[c], NamesOf(i))
    BY <1>2 DEF RowInv, RowsInv
  <2>3. CASE call[c].op = "init"
    <3>1. call'[c] = Idle /\ \A d \in Caller \ {c} : call'[d] = call[d]
      BY <1>4, <2>3, OneCall DEF Written
    <3>2. i \notin Excepted => AtMostOne(NamesOf(i)')
      BY <1>2, <2>1, <2>2, <2>3 DEF Known, AtMostOne
    <3>3. call'[c].id = NoFilter /\ About(c)' = {NoFilter}
      BY <3>1 DEF Idle, Started, About
    <3> QED BY <1>2, <1>4, <2>1, <3>1, <3>2, <3>3, Changed, FilterAssumption
  <2>4. CASE call[c].op # "init"
    <3> DEFINE pc == IF Renames(c) THEN "drop" ELSE "reread"
    <3>1. call'[c] = [call[c] EXCEPT !.pc = pc] /\ \A d \in Caller \ {c} : call'[d] = call[d]
      BY <1>4, <2>4, OneCall DEF Written
    <3>2. /\ call'[c].pc = pc /\ call'[c].id = i /\ call'[c].name = n /\ call'[c].old = o
          /\ call'[c].op = "save" /\ About(c)' = About(c)
      BY <1>1, <1>2, <2>4, <3>1 DEF Call, SoundCall, About
    <3>3. i \notin Excepted => NamesOf(i)' = ({o} \ {NoName}) \cup {n}
      <4>1. call[c].op = "save"
        BY <1>1, <2>4 DEF SoundCall
      <4>2. i \notin Excepted => NamesOf(i) = {o} \ {NoName}
        BY <1>1, <1>2, <2>2, <4>1 DEF Known
      <4> QED BY <2>1, <4>2
    <3>4. CASE Renames(c)
      <4>1. o # NoName /\ o # n
        BY <1>2, <3>4 DEF Renames
      <4>2. i \notin Excepted => NamesOf(i)' = {o, n}
        BY <3>3, <4>1
      <4>3. i \notin Excepted => Known(call'[c], NamesOf(i)')
        BY <3>2, <3>4, <4>1, <4>2 DEF Known
      <4>4. call'[c].id = i /\ call'[c].pc = "drop"
        BY <3>2, <3>4
      <4> HIDE DEF pc
      <4> QED BY <1>2, <1>4, <2>5, <3>1, <3>2, <4>3, <4>4, Changed
    <3>5. CASE ~Renames(c)
      <4>1. o = NoName \/ o = n
        BY <1>2, <3>5 DEF Renames
      <4>2. i \notin Excepted => AtMostOne(NamesOf(i)')
        BY <3>3, <4>1 DEF AtMostOne
      <4>3. Known(call'[c], NamesOf(i)')
        BY <3>2, <3>5 DEF Known
      <4>4. call'[c].id = i
        BY <3>2
      <4> HIDE DEF pc
      <4> QED BY <1>2, <1>4, <2>5, <3>1, <3>2, <4>2, <4>3, <4>4, Changed
    <3> QED BY <3>4, <3>5
  <2> QED BY <2>3, <2>4
<1> QED BY <1>2, <1>3, <1>4 DEF Write, Excepted

\* A renamed filter keeps its new row.
LEMMA DropsOne ==
  ASSUME Typed, RowInv, NEW c \in Caller, DeleteOld(c), NEW i, i = call[c].id
  PROVE /\ i \in Filter
        /\ i \notin Excepted => NamesOf(i)' = {call[c].name}
        /\ \A f \in Filter \ {i} : NamesOf(f)' = NamesOf(f)
<1>1. i \in Filter
  BY OneCall DEF DeleteOld, At, SoundCall
<1>2. i \notin Excepted => NamesOf(i) = {call[c].old, call[c].name} /\ call[c].old # call[c].name
  BY <1>1 DEF DeleteOld, At, RowInv, RowsInv, Known
<1>3. PICK o : o = call[c].old
  OBVIOUS
<1>4. \A f : NamesOf(f)' = IF f = i THEN NamesOf(f) \ {o} ELSE NamesOf(f)
  BY <1>3, RowDeleted DEF DeleteOld, RowOf, Typed
<1> QED BY <1>1, <1>2, <1>3, <1>4

LEMMA DeleteOldRows ==
  ASSUME Typed, RowInv, NEW c \in Caller, DeleteOld(c)
  PROVE RowInv'
<1>1. PICK i : i = call[c].id
  OBVIOUS
<1>2. /\ call'[c] = [call[c] EXCEPT !.pc = "reread"]
      /\ \A d \in Caller \ {c} : call'[d] = call[d]
  BY OneCall DEF DeleteOld
<1>3. call'[c].pc = "reread" /\ call'[c].id = i /\ About(c)' = About(c)
      /\ call'[c].op = call[c].op
  BY <1>1, <1>2, OneCall DEF Call, About
<1>4. call[c].op = "save"
  BY OneCall DEF SoundCall, DeleteOld, At
<1>5. Known(call'[c], NamesOf(i)')
  BY <1>3, <1>4, NothingKnown
<1>6. i \notin Excepted => AtMostOne(NamesOf(i)')
  BY <1>1, DropsOne DEF AtMostOne
<1> QED BY <1>1, <1>2, <1>3, <1>5, <1>6, DropsOne, Changed DEF DeleteOld, Excepted

LEMMA RemoveRowRows ==
  ASSUME Typed, RowInv, NEW c \in Caller, RemoveRow(c)
  PROVE RowInv'
<1>0. PICK i, o : i = call[c].id /\ o = call[c].old
  OBVIOUS
<1>1. i \in Filter /\ i = call[c].id /\ call[c].pc = "remove"
  BY <1>0, OneCall DEF RemoveRow, At, SoundCall
<1>2. \A f : NamesOf(f)' = IF f = i THEN NamesOf(f) \ {o} ELSE NamesOf(f)
  BY <1>0, RowDeleted DEF RemoveRow, RowOf, Typed
<1>3. call'[c] = Idle /\ \A d \in Caller \ {c} : call'[d] = call[d]
  BY OneCall DEF RemoveRow
<1>4. call'[c].id = NoFilter /\ About(c)' = {NoFilter}
  BY <1>3 DEF Idle, Started, About
<1>5. i \notin Excepted => AtMostOne(NamesOf(i)')
  <2>1. ASSUME i \notin Excepted PROVE AtMostOne(NamesOf(i))
    <3>1. \A d \in Caller \ {c} : i \notin About(d)
      BY <1>1, <2>1 DEF RowInv, RowsInv, About
    <3> QED BY <1>1, <2>1, <3>1, OneRow DEF RowInv
  <2> QED BY <1>2, <2>1 DEF AtMostOne
<1> QED BY <1>1, <1>2, <1>3, <1>4, <1>5, Changed, FilterAssumption DEF RemoveRow, Excepted

LEMMA RowStep == Typed /\ RowInv /\ [Next]_vars => RowInv'
<1> SUFFICES ASSUME Typed, RowInv, [Next]_vars PROVE RowInv'
  OBVIOUS
<1>1. ASSUME NEW c \in Caller, Request(c) PROVE RowInv'
  BY <1>1, RequestRows
<1>2. ASSUME NEW c \in Caller, Return(c) \/ AddJob(c) \/ Fail(c) PROVE RowInv'
  <2>1. CASE Return(c)
    BY <2>1, AbortRows, EndRows DEF Return, At, Excepted
  <2>2. CASE AddJob(c)
    BY <2>2, EndRows DEF AddJob, At, Excepted
  <2>3. CASE Fail(c)
    BY <2>3, AbortRows DEF Fail
  <2> QED BY <1>2, <2>1, <2>2, <2>3
<1>3. ASSUME NEW c \in Caller, Continue(c) PROVE RowInv'
  BY <1>2, <1>3, FindFilterRows, ReadFilterRows, StepRows, WriteRows, DeleteOldRows,
     RemoveRowRows DEF Continue
<1>4. ASSUME UNCHANGED <<rows, call>>, Excepted \subseteq Excepted' PROVE RowInv'
  <2>1. \A f : NamesOf(f)' = NamesOf(f)
    BY <1>4 DEF NamesOf
  <2>2. \A d \in Caller : About(d)' = About(d)
    BY <1>4 DEF About
  <2>3. ASSUME NEW f \in Filter PROVE RowsInv(f)'
    BY <1>4, <2>1, <2>2 DEF RowInv, RowsInv, Known, AtMostOne
  <2> QED BY <2>3 DEF RowInv
<1> QED BY <1>1, <1>2, <1>3, <1>4 DEF Next, Proceed, UpdateJob, LoseUpdate, vars, Excepted

LEMMA RowInit == Init => RowInv
<1> SUFFICES ASSUME Init PROVE RowInv
  OBVIOUS
<1>1. \A c \in Caller : call[c] = Idle
  BY DEF Init
<1>2. \A f \in Filter : NamesOf(f) = {} /\ \A c \in Caller : f \notin About(c) /\ call[c].id # f
  BY <1>1, FilterAssumption DEF Init, NamesOf, About, Idle, Started
<1> QED BY <1>2 DEF RowInv, RowsInv, AtMostOne

\* A filter has one row but between the two writes of a renaming
\* (DeviceListFilterRepository.cs:150 and :158), unless it is excepted: operations on
\* it overlapped, one was left half done, or a start of the portal wrote it again
\* after it had been renamed, deleted or its first name given away (:95).
THEOREM RowsSingle == Spec => []OneRowPerFilter
<1>1. Typed /\ RowInv => OneRowPerFilter
  <2> SUFFICES ASSUME Typed, RowInv, NEW r \in rows, NEW s \in rows,
                      r.id = s.id, r # s, r.id \notin Excepted
               PROVE \E c \in Active(r.id) :
                       At(c, "drop") /\ {r.name, s.name} = {call[c].name, call[c].old}
    BY DEF OneRowPerFilter
  <2> DEFINE f == r.id
  <2>1. f \in Filter /\ r.name \in NamesOf(f) /\ s.name \in NamesOf(f) /\ r.name # s.name
    BY DEF NamesOf, Typed, TypeOK, Row
  <2>2. PICK c \in Caller : call[c].id = f /\ call[c].pc = "drop"
    BY <2>1 DEF RowInv, RowsInv, AtMostOne
  <2>3. NamesOf(f) = {call[c].old, call[c].name}
    BY <2>1, <2>2 DEF RowInv, RowsInv, Known
  <2> QED BY <2>1, <2>2, <2>3 DEF Active, About, At
<1> QED BY <1>1, TypedInit, TypedStep, RowInit, RowStep, PTL DEF Spec

\* A renaming does not make a filter that is not excepted disappear, whatever fails:
\* "Safely delete old filter after the new renamed filter is saved successfully"
\* (DeviceListFilterRepository.cs:154).
THEOREM RenamedStays == Spec => RenamingKeeps
<1>1. ASSUME Typed, RowInv, [Next]_vars, NEW f \in Filter, Exists(f), ~Exists(f)', f \notin Excepted
      PROVE \E c \in Active(f) : call[c].op \in {"delete", "force"}
  <2>1. ~(rows \subseteq rows')
    BY <1>1 DEF Exists, NamesOf
  <2>2. PICK c \in Caller : DeleteOld(c) \/ RemoveRow(c)
    BY <1>1, <2>1
       DEF Next, Proceed, Request, Continue, vars, SaveFilter, NewFilter, DeleteFilter,
           ScheduleJob, InitializeDefaultFilter, QueryJobs, FindFilter, ReadFilter, CheckName,
           Retrieve, Write, DeleteOldFails, ReadAgain, Return, AddJob, Fail, UpdateJob,
           LoseUpdate
  <2>3. CASE DeleteOld(c)
    <3>0. PICK i : i = call[c].id
      OBVIOUS
    <3>1. f = i
      BY <1>1, <2>3, <3>0, DropsOne DEF Exists
    <3>2. NamesOf(f)' = {call[c].name}
      BY <1>1, <2>3, <3>0, <3>1, DropsOne
    <3> QED BY <1>1, <3>2 DEF Exists
  <2>4. CASE RemoveRow(c)
    <3>1. call[c].op \in {"delete", "force"}
      BY <1>1, <2>4, OneCall DEF RemoveRow, At, SoundCall
    <3>2. PICK i, o : i = call[c].id /\ o = call[c].old
      OBVIOUS
    <3>3. \A g : NamesOf(g)' = IF g = i THEN NamesOf(g) \ {o} ELSE NamesOf(g)
      BY <1>1, <2>4, <3>2, RowDeleted DEF RemoveRow, RowOf, Typed
    <3>4. c \in Active(f)
      BY <1>1, <3>2, <3>3 DEF Exists, Active, About
    <3> QED BY <3>1, <3>4
  <2> QED BY <2>2, <2>3, <2>4
<1>2. Typed /\ RowInv /\ [Next]_vars =>
        \A f \in Filter : Exists(f) /\ ~Exists(f)' /\ f \notin Excepted =>
          \E c \in Active(f) : call[c].op \in {"delete", "force"}
  BY <1>1
<1> QED BY <1>2, TypedInit, TypedStep, RowInit, RowStep, PTL DEF Spec, RenamingKeeps

-----------------------------------------------------------------------------
(* Jobs.  As long as no operations on a filter overlap, the call that is about  *)
(* it knows which jobs it has and which updates of them are on their way.       *)

NameNow(f) == IF Exists(f) THEN NameOf(f) ELSE NoName

\* Every job of f has the name n, or is about to have it.
Settled(f, n) ==
  \A j \in JobsOf(f) :
    /\ jobs[j].name = n \/ [job |-> j, name |-> n] \in updates
    /\ \A u \in updates : u.job = j => u.name = n

\* A forced deletion has sent the updates that clear the names.
Clearing(k) == k.op = "force" /\ k.pc # "jobs"

\* What a call k about f knows of its jobs.
KnowsJobs(k, f) ==
  /\ Clearing(k) => Settled(f, NoName)
  /\ ~Clearing(k) => ~Updating(f)
  /\ ~Clearing(k) /\ k.pc \notin {"drop", "reread", "return"} => Settled(f, NameNow(f))
  /\ k.op \in {"save", "force"} /\ k.pc # "jobs" => JobsOf(f) \subseteq k.found
  /\ k.op = "delete" /\ k.pc # "jobs" => JobsOf(f) = {}
  /\ k.op = "init" /\ ~Exists(f) => JobsOf(f) = {}
  /\ k.id # f => JobsOf(f) = {}
  /\ k.id = f /\ k.pc \in {"remove", "hub"} => NamesOf(f) = {k.old}

JobsInv(f) ==
  f \notin Excepted =>
    /\ Active(f) = {} => Settled(f, NameNow(f))
    /\ \A c \in Active(f) : KnowsJobs(call[c], f)

FoundJobs == \A c \in Caller : \A j \in call[c].found : jobs[j].of = call[c].for

JobInv == FoundJobs /\ \A f \in Filter : JobsInv(f)

\* The rows and the jobs of f are as they were, and so is what is on its way.
Same(f) ==
  /\ NamesOf(f)' = NamesOf(f)
  /\ JobsOf(f)' = JobsOf(f)
  /\ \A j \in JobsOf(f) : jobs'[j].name = jobs[j].name
  /\ \A u : u.job \in JobsOf(f) => (u \in updates' <=> u \in updates)

LEMMA UpdatingJobs ==
  ASSUME TypeOK, NEW f \in Filter
  PROVE Updating(f) <=> \E u \in updates : u.job \in JobsOf(f)
BY DEF TypeOK, Update, Updating, JobsOf

LEMMA NameKept ==
  ASSUME NEW f, NamesOf(f)' = NamesOf(f)
  PROVE (Exists(f)' <=> Exists(f)) /\ NameNow(f)' = NameNow(f)
<1>1. Exists(f)' <=> Exists(f)
  BY DEF Exists
<1>2. NameOf(f)' = NameOf(f)
  BY DEF NameOf
<1> QED BY <1>1, <1>2 DEF NameNow

LEMMA NoJobs ==
  ASSUME TypeOK, NEW f \in Filter, JobsOf(f) = {}
  PROVE ~Updating(f) /\ \A n : Settled(f, n)
BY UpdatingJobs DEF Settled

LEMMA SettledSame ==
  ASSUME NEW f, NEW n, Settled(f, n), Same(f)
  PROVE Settled(f, n)'
<1>1. ASSUME NEW j \in JobsOf(f)
      PROVE /\ jobs'[j].name = n \/ [job |-> j, name |-> n] \in updates'
            /\ \A u \in updates' : u.job = j => u.name = n
  <2>1. [job |-> j, name |-> n].job = j
    OBVIOUS
  <2> QED BY <1>1, <2>1 DEF Settled, Same
<1> QED BY <1>1 DEF Settled, Same

LEMMA KnowsSame ==
  ASSUME TypeOK, TypeOK', NEW f \in Filter, NEW k, KnowsJobs(k, f), Same(f)
  PROVE KnowsJobs(k, f)'
<1>1. (Exists(f)' <=> Exists(f)) /\ NameNow(f)' = NameNow(f)
  BY NameKept DEF Same
<1>2. PICK n : n = NameNow(f)
  OBVIOUS
<1>3. Settled(f, n) => Settled(f, n)'
  BY SettledSame
<1>4. Settled(f, NoName) => Settled(f, NoName)'
  BY SettledSame
<1>5. Settled(f, NameNow(f)) => Settled(f, NameNow(f))'
  BY <1>1, <1>2, <1>3 DEF Settled
<1>6. Updating(f)' => Updating(f)
  <2>1. Updating(f)' <=> \E u \in updates' : u.job \in JobsOf(f)'
    BY DEF TypeOK, Update, Updating, JobsOf
  <2> QED BY <2>1, UpdatingJobs DEF Same
<1> QED BY <1>1, <1>4, <1>5, <1>6 DEF KnowsJobs, Same, Clearing

\* A step of a caller that was the only one about f, and where it leaves f.
LEMMA StepJobs ==
  ASSUME RowInv, NEW c \in Caller, \A d \in Caller \ {c} : call'[d] = call[d],
         NEW f \in Filter \ Excepted',
         (f \in About(c) /\ f \notin Excepted) \/ Active(f) = {},
         f \in About(c)' => KnowsJobs(call[c], f)',
         f \notin About(c)' => Settled(f, NameNow(f))'
  PROVE JobsInv(f)'
<1>1. \A d \in Caller \ {c} : f \notin About(d)
  BY DEF RowInv, RowsInv, Active
<1>2. \A d \in Caller \ {c} : d \notin Active(f)'
  BY <1>1 DEF Active, About
<1>3. CASE f \in About(c)'
  <2>1. Active(f)' = {c}
    BY <1>2, <1>3 DEF Active
  <2> QED BY <1>3, <2>1 DEF JobsInv
<1>4. CASE f \notin About(c)'
  <2>1. Active(f)' = {}
    BY <1>2, <1>4 DEF Active
  <2> QED BY <1>4, <2>1 DEF JobsInv
<1> QED BY <1>3, <1>4

LEMMA SameJobs ==
  ASSUME TypeOK, TypeOK', NEW f \in Filter, f \notin Excepted, JobsInv(f), Same(f),
         Active(f)' = Active(f), \A d \in Active(f) : call'[d] = call[d]
  PROVE JobsInv(f)'
<1>1. ASSUME NEW d \in Active(f) PROVE KnowsJobs(call[d], f)'
  <2>1. PICK k : k = call[d] /\ k = call'[d]
    BY <1>1
  <2>2. KnowsJobs(k, f)'
    BY <1>1, <2>1, KnowsSame DEF JobsInv
  <2> QED BY <2>1, <2>2 DEF KnowsJobs, Clearing
<1>2. Active(f) = {} => Settled(f, NameNow(f))'
  <2>1. PICK n : n = NameNow(f)
    OBVIOUS
  <2>2. NameNow(f)' = n
    BY <2>1, NameKept DEF Same
  <2>3. Settled(f, n) => Settled(f, n)'
    BY SettledSame
  <2> QED BY <2>1, <2>2, <2>3 DEF JobsInv, Settled
<1> QED BY <1>1, <1>2 DEF JobsInv

LEMMA OtherJobs ==
  ASSUME TypeOK, TypeOK', NEW c \in Caller, \A d \in Caller \ {c} : call'[d] = call[d],
         NEW f \in Filter, f \notin Excepted, JobsInv(f), f \notin About(c), f \notin About(c)',
         Same(f)
  PROVE JobsInv(f)'
<1>1. \A d \in Caller : f \in About(d)' <=> f \in About(d)
  <2>1. \A d \in Caller \ {c} : About(d)' = About(d)
    BY DEF About
  <2> QED BY <2>1
<1>2. Active(f)' = Active(f) /\ c \notin Active(f)
  BY <1>1 DEF Active
<1> QED BY <1>2, SameJobs DEF Active

\* A step of a call that changes neither table and sends nothing.
LEMMA TalkJobs ==
  ASSUME Typed, Typed', RowInv, JobInv, NEW c \in Caller,
         \A d \in Caller \ {c} : call'[d] = call[d],
         UNCHANGED <<rows, jobs, updates>>, Excepted \subseteq Excepted',
         \A f \in Filter : f \in About(c)' => f \in About(c),
         \A f \in Filter \ Excepted' : f \in About(c) /\ KnowsJobs(call[c], f) =>
           /\ f \in About(c)' => KnowsJobs(call'[c], f)
           /\ f \notin About(c)' => Settled(f, NameNow(f))
  PROVE \A f \in Filter : JobsInv(f)'
<1> SUFFICES ASSUME NEW f \in Filter \ Excepted' PROVE JobsInv(f)'
  BY DEF JobsInv
<1>1. Same(f)
  BY DEF Same, NamesOf, JobsOf
<1>2. CASE f \notin About(c)
  BY <1>1, <1>2, OtherJobs DEF Typed, JobInv
<1>3. CASE f \in About(c)
  <2>1. KnowsJobs(call[c], f)
    BY <1>3 DEF JobInv, JobsInv, Active
  <2>2. ASSUME f \in About(c)' PROVE KnowsJobs(call[c], f)'
    <3>1. PICK k : k = call'[c]
      OBVIOUS
    <3>2. KnowsJobs(k, f)
      BY <1>3, <2>1, <2>2, <3>1
    <3>3. KnowsJobs(k, f)'
      BY <1>1, <3>2, KnowsSame DEF Typed
    <3> QED BY <3>1, <3>3 DEF KnowsJobs, Clearing
  <2>3. ASSUME f \notin About(c)' PROVE Settled(f, NameNow(f))'
    <3>1. PICK n : n = NameNow(f)
      OBVIOUS
    <3>2. NameNow(f)' = n
      BY <1>1, <3>1, NameKept DEF Same
    <3>3. Settled(f, n)'
      BY <1>1, <1>3, <2>1, <2>3, <3>1, SettledSame
    <3> QED BY <3>2, <3>3 DEF Settled
  <2> QED BY <1>3, <2>2, <2>3, StepJobs
<1> QED BY <1>2, <1>3

\* A call that ends is about filters no more.
LEMMA EndAbout ==
  ASSUME Typed, NEW c \in Caller, End(c) \/ Abort(c)
  PROVE /\ \A d \in Caller \ {c} : call'[d] = call[d]
        /\ \A f \in Filter : f \notin About(c)'
<1>1. call'[c] = Idle /\ \A d \in Caller \ {c} : call'[d] = call[d]
  BY OneCall DEF Abort
<1> QED BY <1>1, FilterAssumption DEF About, Idle, Started

LEMMA EndJobs ==
  ASSUME Typed, Typed', RowInv, JobInv, NEW c \in Caller, End(c) \/ Abort(c),
         UNCHANGED <<rows, jobs, updates>>, Excepted \subseteq Excepted',
         \A f \in Filter \ Excepted' :
           f \in About(c) /\ KnowsJobs(call[c], f) => Settled(f, NameNow(f))
  PROVE \A f \in Filter : JobsInv(f)'
BY EndAbout, TalkJobs

\* A call that is aborted before it has changed anything for the jobs of f, or
\* that finds none, leaves them as they should be.
LEMMA AbortJobs ==
  ASSUME Typed, Typed', RowInv, JobInv, NEW c \in Caller, Abort(c),
         UNCHANGED <<rows, jobs, updates, revived>>
  PROVE \A f \in Filter : JobsInv(f)'
<1>1. PICK k : k = call[c]
  OBVIOUS
<1>2. SoundCall(k)
  BY <1>1, OneCall
<1>3. ASSUME NEW f \in Filter \ Excepted', f \in About(c), KnowsJobs(k, f)
      PROVE Settled(f, NameNow(f))
  <2>1. ~Unfinished(c)
    BY <1>3 DEF Abort, Excepted
  <2>2. k.pc = "done" => f = NoFilter
    BY <1>1, <1>2, <1>3 DEF SoundCall, Idle, Started, About
  <2>3. CASE k.op = "force" /\ k.pc # "jobs"
    <3>1. k.pc \in {"any", "first", "remove"} \/ k.pc = "done"
      BY <1>1, <1>2, <2>3, OneCall DEF SoundCall, Call, Step
    <3>2. JobsOf(f) = {}
      BY <1>1, <1>3, <2>1, <2>2, <2>3, <3>1, FilterAssumption
         DEF Unfinished, KnowsJobs, At
    <3> QED BY <3>2, NoJobs DEF Typed
  <2>4. CASE k.pc \in {"drop", "reread", "return"}
    <3>1. k.op = "save"
      BY <1>2, <2>4 DEF SoundCall
    <3>2. JobsOf(f) = {}
      BY <1>1, <1>3, <2>1, <2>4, <3>1 DEF Unfinished, KnowsJobs, At
    <3> QED BY <3>2, NoJobs DEF Typed
  <2>5. CASE ~Clearing(k) /\ k.pc \notin {"drop", "reread", "return"}
    BY <1>3, <2>5 DEF KnowsJobs
  <2> QED BY <2>3, <2>4, <2>5 DEF Clearing
<1> QED BY <1>1, <1>3, EndJobs DEF Abort, Excepted

\* A call begins about f, on which nothing is under way unless f is excepted.
LEMMA BegunJobs ==
  ASSUME Typed, Typed', RowInv, JobInv, NEW c \in Caller, NEW k,
         call' = [call EXCEPT ![c] = k], call[c] = Idle, UNCHANGED <<rows, jobs, updates>>,
         k.id \in Filter, k.for \in {k.id, NoFilter}, k.old = NoName, k.found = {},
         \A f \in Filter \ Excepted' : f \in Excepted => f = k.id,
         k.id \notin Excepted' =>
           /\ Active(k.id) = {}
           /\ ~Updating(k.id)
           /\ k.id \in Excepted => JobsOf(k.id) = {},
         \/ k.op \in {"save", "delete", "force"} /\ k.pc = "jobs"
         \/ k.op = "schedule" /\ k.pc = "any"
         \/ k.op = "save" /\ k.pc = "check" /\ JobsOf(k.id) = {}
         \/ k.op = "init" /\ k.pc = "retrieve"
              /\ (k.id \notin Excepted' /\ ~Exists(k.id) => JobsOf(k.id) = {})
  PROVE \A f \in Filter : JobsInv(f)'
<1> SUFFICES ASSUME NEW f \in Filter \ Excepted' PROVE JobsInv(f)'
  BY DEF JobsInv
<1>1. call'[c] = k /\ \A d \in Caller \ {c} : call'[d] = call[d]
  BY OneCall
<1>2. f \notin About(c)
  BY FilterAssumption DEF About, Idle, Started
<1>3. Same(f)
  BY DEF Same, NamesOf, JobsOf
<1>4. CASE f # k.id
  <2>1. f \notin About(c)' /\ f \notin Excepted
    BY <1>1, <1>4, FilterAssumption DEF About
  <2> QED BY <1>1, <1>2, <1>3, <2>1, OtherJobs DEF Typed, JobInv
<1>5. CASE f = k.id
  <2>1. Active(f) = {} /\ ~Updating(f)
    BY <1>5
  <2>2. Settled(f, NameNow(f))
    <3>1. CASE f \in Excepted
      BY <1>5, <3>1, NoJobs DEF Typed
    <3>2. CASE f \notin Excepted
      BY <2>1, <3>2 DEF JobInv, JobsInv
    <3> QED BY <3>1, <3>2
  <2>3. KnowsJobs(k, f)
    BY <1>5, <2>1, <2>2 DEF KnowsJobs, Clearing
  <2>4. KnowsJobs(k, f)'
    BY <1>3, <2>3, KnowsSame DEF Typed
  <2>5. KnowsJobs(call[c], f)'
    BY <1>1, <2>4 DEF KnowsJobs, Clearing
  <2>6. f \in About(c)'
    BY <1>1, <1>5 DEF About
  <2> QED BY <1>1, <2>1, <2>5, <2>6, StepJobs
<1> QED BY <1>4, <1>5

LEMMA RequestJobs ==
  ASSUME Typed, Typed', RowInv, JobInv, NEW c \in Caller, Request(c)
  PROVE \A f \in Filter : JobsInv(f)'
<1>1. ASSUME NEW op, NEW pc, NEW f \in Filter, NEW n,
             \/ op \in {"save", "delete", "force"} /\ pc = "jobs"
             \/ op = "schedule" /\ pc = "any",
             Begin(c, op, pc, f, n), UNCHANGED <<rows, jobs, updates, revived>>
      PROVE \A g \in Filter : JobsInv(g)'
  <2> DEFINE k == Started(op, pc, f, f, n)
  <2>1. /\ k.id = f /\ k.for = f /\ k.pc = pc /\ k.op = op
        /\ k.old = NoName /\ k.found = {}
    BY DEF Started
  <2>2. /\ call' = [call EXCEPT ![c] = k] /\ call[c] = Idle /\ Excepted \subseteq Excepted'
        /\ Busy(f) => f \in Excepted'
    BY <1>1 DEF Begin, Excepted
  <2>3. f \notin Excepted' => Active(f) = {} /\ ~Updating(f) /\ f \notin Excepted
    BY <2>2 DEF Busy
  <2> HIDE DEF k
  <2> QED BY <1>1, <2>1, <2>2, <2>3, BegunJobs
<1>2. ASSUME NEW n \in Name, NewFilter(c, n) PROVE \A f \in Filter : JobsInv(f)'
  <2>1. PICK g \in Filter :
          Fresh(g) /\ call' = [call EXCEPT ![c] = Started("save", "check", NoFilter, g, n)]
          /\ Excepted' = Excepted \ {g}
    BY <1>2 DEF NewFilter, Excepted
  <2> DEFINE k == Started("save", "check", NoFilter, g, n)
  <2>2. /\ k.id = g /\ k.for = NoFilter /\ k.pc = "check" /\ k.op = "save"
        /\ k.old = NoName /\ k.found = {}
    BY DEF Started
  <2>3. Active(g) = {} /\ JobsOf(g) = {} /\ ~Updating(g)
    BY <2>1, NoJobs DEF Fresh, Typed
  <2>4. call' = [call EXCEPT ![c] = k] /\ call[c] = Idle /\ UNCHANGED <<rows, jobs, updates>>
    BY <1>2, <2>1 DEF NewFilter
  <2> HIDE DEF k
  <2> QED BY <2>1, <2>2, <2>3, <2>4, BegunJobs
<1>3. ASSUME NEW b \in Builtin, InitializeDefaultFilter(c, b)
      PROVE \A f \in Filter : JobsInv(f)'
  <2> DEFINE k == Started("init", "retrieve", NoFilter, b, FirstName[b])
  <2>1. /\ k.id = b /\ k.for = NoFilter /\ k.pc = "retrieve" /\ k.op = "init"
        /\ k.old = NoName /\ k.found = {}
    BY DEF Started
  <2>2. /\ call' = [call EXCEPT ![c] = k] /\ call[c] = Idle /\ Excepted \subseteq Excepted'
        /\ UNCHANGED <<rows, jobs, updates>>
        /\ Busy(b) \/ Altered(b) => b \in Excepted'
    BY <1>3 DEF InitializeDefaultFilter, Excepted
  <2>3. b \notin Excepted' => Active(b) = {} /\ ~Updating(b) /\ b \notin Excepted
    BY <2>2 DEF Busy
  <2>4. b \notin Excepted' /\ ~Exists(b) => JobsOf(b) = {}
    BY <2>2 DEF Altered
  <2> HIDE DEF k
  <2> QED BY <2>1, <2>2, <2>3, <2>4, BegunJobs, FilterAssumption
<1> QED BY <1>1, <1>2, <1>3 DEF Request, SaveFilter, DeleteFilter, ScheduleJob

\* The updates sent about other jobs leave those of f as they are.
LEMMA SentElsewhere ==
  ASSUME UNCHANGED <<rows, jobs>>, NEW S, updates' = updates \cup S, NEW f,
         \A u \in S : u.job \notin JobsOf(f)
  PROVE Same(f)
BY DEF Same, NamesOf, JobsOf

LEMMA QueryJobsJobs ==
  ASSUME Typed, Typed', RowInv, JobInv, NEW c \in Caller, QueryJobs(c)
  PROVE \A f \in Filter : JobsInv(f)'
<1>1. PICK k : k = call[c]
  OBVIOUS
<1>2. PICK i : i = k.id /\ i = k.for
  BY <1>1, OneCall DEF QueryJobs, At, SoundCall
<1>3. /\ k.pc = "jobs" /\ k.op \in {"save", "delete", "force"} /\ i \in Filter /\ k \in Call
      /\ About(c) = {i}
  BY <1>1, <1>2, OneCall DEF QueryJobs, At, SoundCall, About
<1>4. PICK S : S = {[job |-> j, name |-> NoName] : j \in {h \in JobsOf(i) : k.op = "force"}}
  OBVIOUS
<1>5. updates' = updates \cup S /\ UNCHANGED <<rows, jobs, Excepted>>
  BY <1>1, <1>2, <1>4 DEF QueryJobs, Excepted
<1>6. \A u \in S : u.job \in JobsOf(i) /\ u.name = NoName /\ k.op = "force"
  BY <1>4
<1>7. \A d \in Caller \ {c} : call'[d] = call[d]
  BY OneCall DEF QueryJobs, Typed, TypeOK
<1>8. CASE k.op = "delete" /\ JobsOf(i) # {}
  <2>1. End(c) /\ updates' = updates
    BY <1>1, <1>2, <1>5, <1>6, <1>8 DEF QueryJobs
  <2>2. \A f \in Filter \ Excepted' :
          f \in About(c) /\ KnowsJobs(call[c], f) => Settled(f, NameNow(f))
    BY <1>1, <1>3 DEF KnowsJobs, Clearing
  <2> QED BY <1>5, <2>1, <2>2, EndJobs
<1>9. CASE ~(k.op = "delete" /\ JobsOf(i) # {})
  <2>1. call' = [call EXCEPT ![c].pc = "any", ![c].found = JobsOf(i)]
    BY <1>1, <1>2, <1>9 DEF QueryJobs
  <2>2. PICK m : m = [k EXCEPT !.pc = "any", !.found = JobsOf(i)]
    OBVIOUS
  <2>3. call'[c] = m
    BY <1>1, <2>1, <2>2 DEF Typed, TypeOK
  <2>4. /\ m.pc = "any" /\ m.op = k.op /\ m.id = i /\ m.for = i /\ m.old = k.old
        /\ m.found = JobsOf(i)
    BY <1>2, <1>3, <2>2 DEF Call
  <2>5. About(c)' = {i}
    BY <2>3, <2>4 DEF About
  <2> SUFFICES ASSUME NEW f \in Filter \ Excepted' PROVE JobsInv(f)'
    BY DEF JobsInv
  <2>6. CASE f # i
    <3>1. Same(f)
      <4>1. \A u \in S : u.job \notin JobsOf(f)
        BY <1>6, <2>6 DEF JobsOf
      <4> QED BY <1>5, <4>1, SentElsewhere
    <3> QED BY <1>3, <1>5, <1>7, <2>5, <2>6, <3>1, OtherJobs DEF Typed, JobInv
  <2>7. CASE f = i
    <3>1. KnowsJobs(k, f)
      BY <1>1, <1>3, <1>5, <2>7 DEF JobInv, JobsInv, Active
    <3>2. Settled(f, NameNow(f)) /\ ~Updating(f)
      BY <1>3, <3>1 DEF KnowsJobs, Clearing
    <3>3. JobsOf(f)' = JobsOf(f) /\ NamesOf(f)' = NamesOf(f)
      BY <1>5 DEF JobsOf, NamesOf
    <3>4. KnowsJobs(m, f)'
      <4>1. CASE k.op = "force"
        <5>1. \A u \in updates : u.job \notin JobsOf(f)
          BY <3>2, UpdatingJobs DEF Typed
        <5>2. \A j \in JobsOf(f) : [job |-> j, name |-> NoName] \in S
          BY <1>4, <2>7, <4>1
        <5>3. Settled(f, NoName)'
          BY <1>5, <1>6, <3>3, <5>1, <5>2 DEF Settled
        <5> QED BY <2>4, <2>7, <3>3, <4>1, <5>3 DEF KnowsJobs, Clearing
      <4>2. CASE k.op # "force"
        <5>1. updates' = updates
          BY <1>5, <1>6, <4>2
        <5>2. Same(f)
          BY <1>5, <5>1 DEF Same, JobsOf, NamesOf
        <5>3. KnowsJobs(m, f)
          BY <1>3, <1>9, <2>4, <2>7, <3>2, <4>2 DEF KnowsJobs, Clearing
        <5> QED BY <5>2, <5>3, KnowsSame DEF Typed
      <4> QED BY <4>1, <4>2
    <3>5. KnowsJobs(call[c], f)'
      BY <2>3, <3>4 DEF KnowsJobs, Clearing
    <3> QED BY <1>3, <1>5, <1>7, <2>5, <2>7, <3>5, StepJobs
  <2> QED BY <2>6, <2>7
<1> QED BY <1>8, <1>9

LEMMA FindFilterJobs ==
  ASSUME Typed, Typed', RowInv, JobInv, NEW c \in Caller, FindFilter(c)
  PROVE \A f \in Filter : JobsInv(f)'
<1>1. PICK k : k = call[c]
  OBVIOUS
<1>2. k \in Call /\ SoundCall(k) /\ k.pc = "any"
  BY <1>1, OneCall DEF FindFilter, At
<1>3. CASE Goto(c, "first") /\ UNCHANGED Excepted
  <2>1. /\ call'[c] = [k EXCEPT !.pc = "first"]
        /\ \A d \in Caller \ {c} : call'[d] = call[d]
    BY <1>1, <1>3, OneCall
  <2>2. PICK m : m = call'[c]
    OBVIOUS
  <2>3. /\ m.pc = "first" /\ m.op = k.op /\ m.for = k.for /\ m.id = k.id
        /\ m.old = k.old /\ m.found = k.found
    BY <1>2, <2>1, <2>2 DEF Call
  <2>4. \A f : KnowsJobs(k, f) => KnowsJobs(m, f)
    BY <1>2, <2>3 DEF KnowsJobs, Clearing
  <2>5. About(c)' = About(c)
    BY <1>1, <2>2, <2>3 DEF About
  <2> QED BY <1>1, <1>3, <2>1, <2>2, <2>4, <2>5, TalkJobs DEF FindFilter
<1>4. CASE End(c) /\ UNCHANGED Excepted /\ ~Exists(k.id) /\ k.op # "save"
  <2>1. ASSUME NEW f \in Filter, f \in About(c), KnowsJobs(k, f) PROVE Settled(f, NameNow(f))
    <3>1. CASE f = k.id
      <4>1. NameNow(f) = NoName
        BY <1>4, <3>1 DEF NameNow
      <4> QED BY <1>2, <2>1, <4>1 DEF KnowsJobs, Clearing
    <3>2. CASE f # k.id
      BY <2>1, <3>2, NoJobs DEF KnowsJobs, Typed
    <3> QED BY <3>1, <3>2
  <2> QED BY <1>1, <1>4, <2>1, EndJobs DEF FindFilter
<1>5. CASE k.op = "save" /\ ~Exists(k.id)
  <2>1. PICK g \in Filter :
          /\ Fresh(g)
          /\ call' = [call EXCEPT ![c].pc = "check", ![c].id = g]
          /\ Excepted' = (Excepted \ {g}) \cup {f \in {k.for} : k.found # {}}
    BY <1>1, <1>5 DEF FindFilter, Excepted
  <2>2. PICK m : m = call'[c]
    OBVIOUS
  <2>3. /\ m = [k EXCEPT !.pc = "check", !.id = g]
        /\ \A d \in Caller \ {c} : call'[d] = call[d]
    BY <1>1, <2>1, <2>2 DEF Typed, TypeOK
  <2>4. /\ m.pc = "check" /\ m.op = "save" /\ m.for = k.for /\ m.id = g
        /\ m.found = k.found
    BY <1>2, <1>5, <2>3 DEF Call
  <2>5. Active(g) = {} /\ JobsOf(g) = {}
    BY <2>1 DEF Fresh
  <2> SUFFICES ASSUME NEW f \in Filter \ Excepted' PROVE JobsInv(f)'
    BY DEF JobsInv
  <2>6. Same(f)
    BY DEF FindFilter, Same, NamesOf, JobsOf
  <2>7. CASE f \notin About(c) /\ f # g
    <3>1. f \notin About(c)' /\ f \notin Excepted
      BY <1>1, <2>1, <2>2, <2>4, <2>7 DEF About
    <3> QED BY <2>3, <2>6, <2>7, <3>1, OtherJobs DEF Typed, JobInv
  <2>8. CASE f \in About(c) \/ f = g
    <3>1. (f \in About(c) /\ f \notin Excepted) \/ Active(f) = {}
      BY <2>1, <2>5, <2>8
    <3>2. CASE f \in About(c)'
      <4>1. JobsOf(f) = {}
        <5>1. CASE f = g
          BY <2>5, <5>1
        <5>2. CASE f # g
          <6>1. f = k.for /\ f \notin Excepted /\ f \in About(c)
            BY <1>1, <2>1, <2>2, <2>4, <2>8, <3>2, <5>2 DEF About
          <6>2. k.found = {}
            BY <2>1, <6>1
          <6>3. KnowsJobs(k, f)
            BY <1>1, <6>1 DEF JobInv, JobsInv, Active
          <6> QED BY <1>2, <1>5, <6>2, <6>3 DEF KnowsJobs
        <5> QED BY <5>1, <5>2
      <4>2. KnowsJobs(m, f)
        BY <2>4, <4>1, NoJobs DEF KnowsJobs, Clearing, Typed
      <4>3. KnowsJobs(m, f)'
        BY <2>6, <4>2, KnowsSame DEF Typed
      <4>4. KnowsJobs(call[c], f)'
        BY <2>2, <4>3 DEF KnowsJobs, Clearing
      <4> QED BY <2>3, <3>1, <3>2, <4>4, StepJobs
    <3>3. CASE f \notin About(c)'
      <4>1. f # g /\ f \in About(c) /\ f \notin Excepted
        BY <2>1, <2>2, <2>4, <2>8, <3>3 DEF About
      <4>2. KnowsJobs(k, f)
        BY <1>1, <4>1 DEF JobInv, JobsInv, Active
      <4>3. PICK n : n = NameNow(f)
        OBVIOUS
      <4>4. Settled(f, n)
        BY <1>2, <1>5, <4>2, <4>3 DEF KnowsJobs, Clearing
      <4>5. Settled(f, n)' /\ NameNow(f)' = n
        BY <2>6, <4>3, <4>4, SettledSame, NameKept DEF Same
      <4>6. Settled(f, NameNow(f))'
        BY <4>5 DEF Settled
      <4> QED BY <2>3, <3>1, <3>3, <4>6, StepJobs
    <3> QED BY <3>2, <3>3
  <2> QED BY <2>7, <2>8
<1> QED BY <1>1, <1>3, <1>4, <1>5 DEF FindFilter, Excepted

LEMMA ReadFilterJobs ==
  ASSUME Typed, Typed', RowInv, JobInv, NEW c \in Caller, ReadFilter(c)
  PROVE \A f \in Filter : JobsInv(f)'
<1>1. PICK k : k = call[c]
  OBVIOUS
<1>2. k \in Call /\ SoundCall(k) /\ k.pc = "first"
  BY <1>1, OneCall DEF ReadFilter, At
<1>3. CASE Abort(c)
  BY <1>3, AbortJobs DEF ReadFilter
<1>4. CASE Exists(k.id) /\ UNCHANGED Excepted
           /\ call' = [call EXCEPT ![c].pc = AfterRead(k.op), ![c].old = NameOf(k.id)]
  <2>1. PICK m : m = call'[c]
    OBVIOUS
  <2>2. /\ m = [k EXCEPT !.pc = AfterRead(k.op), !.old = NameOf(k.id)]
        /\ \A d \in Caller \ {c} : call'[d] = call[d]
    BY <1>1, <1>4, <2>1 DEF Typed, TypeOK
  <2>3. /\ m.pc \in {"check", "hub", "remove"} /\ m.op = k.op /\ m.for = k.for /\ m.id = k.id
        /\ m.old = NameOf(k.id) /\ m.found = k.found
    BY <1>2, <2>2 DEF Call, AfterRead
  <2>4. About(c)' = About(c)
    BY <1>1, <2>1, <2>3 DEF About
  <2>5. ASSUME NEW f \in Filter \ Excepted, f \in About(c), KnowsJobs(k, f) PROVE KnowsJobs(m, f)
    <3>1. ASSUME k.id = f PROVE NamesOf(f) = {NameOf(f)}
      <4>1. \A d \in Caller \ {c} : f \notin About(d)
        BY <2>5 DEF RowInv, RowsInv
      <4>2. AtMostOne(NamesOf(f))
        BY <1>1, <1>2, <2>5, <4>1, OneRow DEF RowInv
      <4>3. NameOf(f) \in NamesOf(f)
        BY <1>4, <3>1, FirstRow DEF Typed
      <4> QED BY <4>2, <4>3 DEF AtMostOne
    <3> QED BY <1>2, <2>3, <2>5, <3>1 DEF KnowsJobs, Clearing
  <2> QED BY <1>1, <1>4, <2>1, <2>2, <2>4, <2>5, TalkJobs DEF ReadFilter
<1> QED BY <1>1, <1>3, <1>4 DEF ReadFilter, Excepted

\* A call goes on, and what it knew of the jobs is not affected.
LEMMA GoneJobs ==
  ASSUME Typed, Typed', RowInv, JobInv, NEW c \in Caller, NEW pc \in Step, Goto(c, pc),
         UNCHANGED <<rows, jobs, updates>>, Excepted \subseteq Excepted',
         call[c].op \in {"save", "init"}, call[c].pc # "jobs",
         \/ pc \in {"reread", "return"}
         \/ /\ pc \in {"retrieve", "insert", "replace"}
            /\ call[c].pc \in {"check", "retrieve"}
  PROVE \A f \in Filter : JobsInv(f)'
<1>1. PICK k, m : k = call[c] /\ m = call'[c]
  OBVIOUS
<1>2. /\ m = [k EXCEPT !.pc = pc] /\ k \in Call
      /\ \A d \in Caller \ {c} : call'[d] = call[d]
  BY <1>1, OneCall
<1>3. /\ m.pc = pc /\ m.op = k.op /\ m.for = k.for /\ m.id = k.id
      /\ m.old = k.old /\ m.found = k.found
  BY <1>2 DEF Call
<1>4. About(c)' = About(c)
  BY <1>1, <1>3 DEF About
<1>5. \A f : KnowsJobs(k, f) => KnowsJobs(m, f)
  BY <1>1, <1>3 DEF KnowsJobs, Clearing
<1> QED BY <1>1, <1>2, <1>4, <1>5, TalkJobs

LEMMA StepOnJobs ==
  ASSUME Typed, Typed', RowInv, JobInv, NEW c \in Caller,
         CheckName(c) \/ Retrieve(c) \/ DeleteOldFails(c) \/ ReadAgain(c)
  PROVE \A f \in Filter : JobsInv(f)'
<1>1. PICK k : k = call[c]
  OBVIOUS
<1>2. SoundCall(k)
  BY <1>1, OneCall
<1>3. CASE CheckName(c)
  <2>1. k.pc = "check" /\ k.op = "save"
    BY <1>1, <1>2, <1>3 DEF CheckName, At, SoundCall
  <2>2. CASE End(c)
    <3>1. \A f : KnowsJobs(k, f) => Settled(f, NameNow(f))
      BY <2>1 DEF KnowsJobs, Clearing
    <3> QED BY <1>1, <1>3, <2>2, <3>1, EndJobs DEF CheckName, Excepted
  <2>3. CASE Goto(c, "retrieve")
    BY <1>1, <1>3, <2>1, <2>3, GoneJobs DEF CheckName, Step, Excepted
  <2> QED BY <1>3, <2>2, <2>3 DEF CheckName
<1>4. CASE Retrieve(c)
  <2>1. k.pc = "retrieve" /\ k.op \in {"save", "init"}
    BY <1>1, <1>2, <1>4 DEF Retrieve, At, SoundCall
  <2>2. PICK pc \in {"insert", "replace"} : Goto(c, pc)
    BY <1>4 DEF Retrieve
  <2> QED BY <1>1, <1>4, <2>1, <2>2, GoneJobs DEF Retrieve, Step, Excepted
<1>5. CASE DeleteOldFails(c)
  <2>1. k.pc = "drop" /\ k.op = "save"
    BY <1>1, <1>2, <1>5 DEF DeleteOldFails, At, SoundCall
  <2> QED BY <1>1, <1>5, <2>1, GoneJobs DEF DeleteOldFails, Step, Excepted
<1>6. CASE ReadAgain(c)
  <2>1. k.pc = "reread" /\ k.op = "save"
    BY <1>1, <1>2, <1>6 DEF ReadAgain, At, SoundCall
  <2> QED BY <1>1, <1>6, <2>1, GoneJobs, AbortJobs DEF ReadAgain, Step, Excepted
<1> QED BY <1>3, <1>4, <1>5, <1>6

\* A step of a call that changes rows of its filter only.
LEMMA RowsJobs ==
  ASSUME Typed, Typed', RowInv, JobInv, NEW c \in Caller, NEW k, k = call[c],
         \A d \in Caller \ {c} : call'[d] = call[d],
         UNCHANGED <<jobs, updates, Excepted>>,
         \A f \in Filter \ {k.id} : NamesOf(f)' = NamesOf(f),
         \A f \in Filter : f \in About(c)' => f \in About(c),
         \A f \in Filter \ Excepted : f \in About(c) /\ KnowsJobs(k, f) =>
           /\ f \in About(c)' => KnowsJobs(call[c], f)'
           /\ f \notin About(c)' => Settled(f, NameNow(f))'
  PROVE \A f \in Filter : JobsInv(f)'
<1> SUFFICES ASSUME NEW f \in Filter \ Excepted PROVE JobsInv(f)'
  BY DEF JobsInv
<1>1. CASE f \notin About(c)
  <2>1. Same(f)
    BY <1>1 DEF Same, JobsOf, About
  <2> QED BY <1>1, <2>1, OtherJobs DEF Typed, JobInv
<1>2. CASE f \in About(c)
  <2>1. KnowsJobs(k, f)
    BY <1>2 DEF JobInv, JobsInv, Active
  <2> QED BY <1>2, <2>1, StepJobs
<1> QED BY <1>1, <1>2

LEMMA Unjobbed ==
  ASSUME Typed, Typed', NEW f \in Filter, JobsOf(f) = {}, UNCHANGED <<jobs, updates>>
  PROVE ~Updating(f)' /\ JobsOf(f)' = {} /\ \A n : Settled(f, n)'
<1>1. ~Updating(f)' /\ JobsOf(f)' = {}
  BY NoJobs DEF JobsOf, Updating, Typed
<1> QED BY <1>1 DEF Settled

LEMMA WriteJobs ==
  ASSUME Typed, Typed', RowInv, JobInv, NEW c \in Caller, Write(c)
  PROVE \A f \in Filter : JobsInv(f)'
<1>1. PICK k, i, n : k = call[c] /\ i = call[c].id /\ n = call[c].name
  OBVIOUS
<1>2. /\ k \in Call /\ SoundCall(k) /\ k.pc \in {"insert", "replace"} /\ i = k.id
      /\ n = k.name /\ i \in Filter /\ k.op \in {"save", "init"}
  BY <1>1, OneCall DEF Write, SoundCall
<1>3. CASE Abort(c) /\ UNCHANGED rows
  BY <1>3, AbortJobs DEF Write
<1>4. CASE rows' = rows \cup {RowOf(c, n)} /\ Written(c) /\ UNCHANGED Excepted
  <2>1. \A f \in Filter : NamesOf(f)' = IF f = i THEN NamesOf(f) \cup {n} ELSE NamesOf(f)
    BY <1>1, <1>4, RowAdded DEF RowOf
  <2>2. \A f \in Filter \ {i} : NamesOf(f)' = NamesOf(f)
    BY <2>1
  <2>3. UNCHANGED <<jobs, updates>>
    BY DEF Write
  <2>4. CASE k.op = "init"
    <3>1. End(c)
      BY <1>1, <1>4, <2>4 DEF Written
    <3>2. ASSUME NEW f \in Filter \ Excepted, f \in About(c), KnowsJobs(k, f)
          PROVE Settled(f, NameNow(f))'
      <4>1. CASE JobsOf(f) = {}
        BY <2>3, <4>1, Unjobbed DEF Settled
      <4>2. CASE JobsOf(f) # {}
        <5>1. f = i /\ Exists(f)
          BY <1>2, <2>4, <3>2, <4>2 DEF KnowsJobs
        <5>2. NamesOf(f) \subseteq {n}
          BY <1>1, <1>2, <2>4, <3>2, <5>1 DEF RowInv, RowsInv, Known
        <5>3. NamesOf(f)' = NamesOf(f)
          BY <2>1, <5>1, <5>2 DEF Exists
        <5>4. Same(f)
          BY <2>3, <5>3 DEF Same, JobsOf
        <5>5. PICK e : e = NameNow(f)
          OBVIOUS
        <5>6. Settled(f, e)
          BY <1>2, <2>4, <3>2, <5>5 DEF KnowsJobs, Clearing
        <5>7. Settled(f, e)' /\ NameNow(f)' = e
          BY <5>3, <5>4, <5>5, <5>6, SettledSame, NameKept
        <5> QED BY <5>7 DEF Settled
      <4> QED BY <4>1, <4>2
    <3> QED BY <1>1, <1>2, <1>4, <2>2, <2>3, <3>1, <3>2, EndAbout, RowsJobs
  <2>5. CASE k.op = "save"
    <3>1. PICK pc \in {"drop", "reread"} : Goto(c, pc)
      BY <1>1, <1>4, <2>5 DEF Written
    <3>2. PICK m : m = call'[c]
      OBVIOUS
    <3>3. m = [k EXCEPT !.pc = pc] /\ \A d \in Caller \ {c} : call'[d] = call[d]
      BY <1>1, <3>1, <3>2, OneCall
    <3>4. m.pc = pc /\ m.op = "save" /\ m.for = k.for /\ m.id = k.id /\ m.found = k.found
      BY <1>2, <2>5, <3>3 DEF Call
    <3>5. About(c)' = About(c)
      BY <1>1, <3>2, <3>4 DEF About
    <3>6. ASSUME NEW f \in Filter \ Excepted, KnowsJobs(k, f) PROVE KnowsJobs(call[c], f)'
      <4>1. /\ ~Updating(f) /\ JobsOf(f) \subseteq k.found
            /\ k.id # f => JobsOf(f) = {}
        BY <1>2, <2>5, <3>6 DEF KnowsJobs, Clearing
      <4>2. ~Updating(f)' /\ JobsOf(f)' = JobsOf(f)
        BY <2>3, <4>1 DEF Updating, JobsOf
      <4>3. KnowsJobs(m, f)'
        BY <3>4, <4>1, <4>2 DEF KnowsJobs, Clearing
      <4> QED BY <3>2, <4>3 DEF KnowsJobs, Clearing
    <3> QED BY <1>1, <1>2, <1>4, <2>2, <2>3, <3>3, <3>5, <3>6, RowsJobs
  <2> QED BY <1>2, <2>4, <2>5
<1> QED BY <1>1, <1>3, <1>4 DEF Write, Excepted

LEMMA DeleteOldJobs ==
  ASSUME Typed, Typed', RowInv, JobInv, NEW c \in Caller, DeleteOld(c)
  PROVE \A f \in Filter : JobsInv(f)'
<1>1. PICK k, i, m : k = call[c] /\ i = call[c].id /\ m = call'[c]
  OBVIOUS
<1>2. k \in Call /\ k.pc = "drop" /\ k.op = "save" /\ i = k.id
  BY <1>1, OneCall DEF DeleteOld, SoundCall, At
<1>3. m = [k EXCEPT !.pc = "reread"] /\ \A d \in Caller \ {c} : call'[d] = call[d]
  BY <1>1, OneCall DEF DeleteOld
<1>4. m.pc = "reread" /\ m.op = "save" /\ m.for = k.for /\ m.id = k.id /\ m.found = k.found
  BY <1>2, <1>3 DEF Call
<1>5. About(c)' = About(c)
  BY <1>1, <1>4 DEF About
<1>6. \A f \in Filter \ {i} : NamesOf(f)' = NamesOf(f)
  BY <1>1, DropsOne
<1>7. UNCHANGED <<jobs, updates, Excepted>>
  BY DEF DeleteOld, Excepted
<1>8. ASSUME NEW f \in Filter \ Excepted, KnowsJobs(k, f) PROVE KnowsJobs(call[c], f)'
  <2>1. /\ ~Updating(f) /\ JobsOf(f) \subseteq k.found
        /\ k.id # f => JobsOf(f) = {}
    BY <1>2, <1>8 DEF KnowsJobs, Clearing
  <2>2. ~Updating(f)' /\ JobsOf(f)' = JobsOf(f)
    BY <1>7, <2>1 DEF Updating, JobsOf
  <2>3. KnowsJobs(m, f)'
    BY <1>4, <2>1, <2>2 DEF KnowsJobs, Clearing
  <2> QED BY <1>1, <2>3 DEF KnowsJobs, Clearing
<1> QED BY <1>1, <1>2, <1>3, <1>5, <1>6, <1>7, <1>8, RowsJobs

LEMMA RemoveRowJobs ==
  ASSUME Typed, Typed', RowInv, JobInv, NEW c \in Caller, RemoveRow(c)
  PROVE \A f \in Filter : JobsInv(f)'
<1>1. PICK k, i, o : k = call[c] /\ i = call[c].id /\ o = call[c].old
  OBVIOUS
<1>2. /\ k.pc = "remove" /\ k.op \in {"delete", "force"} /\ i = k.id /\ o = k.old
      /\ i \in Filter
  BY <1>1, OneCall DEF RemoveRow, SoundCall, At
<1>3. \A f : NamesOf(f)' = IF f = i THEN NamesOf(f) \ {o} ELSE NamesOf(f)
  BY <1>1, RowDeleted DEF RemoveRow, RowOf, Typed
<1>4. UNCHANGED <<jobs, updates, Excepted>> /\ End(c)
  BY DEF RemoveRow, Excepted
<1>5. ASSUME NEW f \in Filter \ Excepted, KnowsJobs(k, f) PROVE Settled(f, NameNow(f))'
  <2>1. CASE JobsOf(f) = {}
    BY <1>4, <2>1, Unjobbed DEF Settled
  <2>2. CASE JobsOf(f) # {}
    <3>1. f = i /\ k.op = "force" /\ Settled(f, NoName) /\ NamesOf(f) = {o}
      BY <1>2, <1>5, <2>2 DEF KnowsJobs, Clearing
    <3>2. NameNow(f)' = NoName
      BY <1>3, <3>1 DEF NameNow, Exists
    <3>3. Settled(f, NoName)'
      BY <1>4, <3>1 DEF Settled, JobsOf
    <3> QED BY <3>2, <3>3 DEF Settled
  <2> QED BY <2>1, <2>2
<1>6. \A f \in Filter \ {i} : NamesOf(f)' = NamesOf(f)
  BY <1>3
<1> QED BY <1>1, <1>2, <1>4, <1>5, <1>6, EndAbout, RowsJobs

LEMMA ReturnJobs ==
  ASSUME Typed, Typed', RowInv, JobInv, NEW c \in Caller, Return(c)
  PROVE \A f \in Filter : JobsInv(f)'
<1>1. PICK k, i : k = call[c] /\ i = call[c].id
  OBVIOUS
<1>2. k.pc = "return" /\ k.op = "save" /\ i = k.id /\ i \in Filter
  BY <1>1, OneCall DEF Return, SoundCall, At
<1>3. CASE Abort(c) /\ UNCHANGED updates
  BY <1>3, AbortJobs DEF Return
<1>4. CASE Exists(i) /\ End(c) /\ UNCHANGED Excepted
           /\ updates' = updates \cup {[job |-> j, name |-> NameOf(i)] : j \in k.found}
  <2>1. PICK S, n : n = NameOf(i) /\ S = {[job |-> j, name |-> n] : j \in k.found}
    OBVIOUS
  <2>2. updates' = updates \cup S /\ UNCHANGED <<rows, jobs>>
    BY <1>4, <2>1 DEF Return
  <2>3. /\ \A u \in S : u.job \in k.found /\ u.name = n
        /\ \A j \in k.found : [job |-> j, name |-> n] \in S
    BY <2>1
  <2>4. \A j \in k.found : jobs[j].of = k.for
    BY <1>1 DEF JobInv, FoundJobs
  <2> SUFFICES ASSUME NEW f \in Filter \ Excepted' PROVE JobsInv(f)'
    BY DEF JobsInv
  <2>5. f \notin Excepted /\ f \notin About(c)' /\ \A d \in Caller \ {c} : call'[d] = call[d]
    BY <1>4, EndAbout
  <2>6. CASE f \notin About(c)
    <3>1. \A u \in S : u.job \notin JobsOf(f)
      BY <1>1, <2>3, <2>4, <2>6 DEF JobsOf, About
    <3>2. Same(f)
      BY <2>2, <3>1, SentElsewhere
    <3> QED BY <2>5, <2>6, <3>2, OtherJobs DEF Typed, JobInv
  <2>7. CASE f \in About(c)
    <3>1. KnowsJobs(k, f)
      BY <1>1, <2>5, <2>7 DEF JobInv, JobsInv, Active
    <3>2. /\ ~Updating(f) /\ JobsOf(f) \subseteq k.found
          /\ i # f => JobsOf(f) = {}
      BY <1>2, <3>1 DEF KnowsJobs, Clearing
    <3>3. NamesOf(f)' = NamesOf(f) /\ JobsOf(f)' = JobsOf(f)
      BY <2>2 DEF NamesOf, JobsOf
    <3>4. \A u \in updates : u.job \notin JobsOf(f)
      BY <3>2, UpdatingJobs DEF Typed
    <3>5. Settled(f, n)'
      BY <2>2, <2>3, <3>2, <3>3, <3>4 DEF Settled
    <3>6. i = f => NameNow(f)' = n
      BY <1>4, <2>1, <3>3, NameKept DEF NameNow
    <3>7. Settled(f, NameNow(f))'
      BY <3>2, <3>3, <3>5, <3>6 DEF Settled
    <3> QED BY <2>5, <2>7, <3>7, StepJobs
  <2> QED BY <2>6, <2>7
<1> QED BY <1>1, <1>3, <1>4 DEF Return, Excepted

LEMMA AddJobJobs ==
  ASSUME Typed, Typed', RowInv, JobInv, NEW c \in Caller, AddJob(c)
  PROVE \A f \in Filter : JobsInv(f)'
<1>1. PICK k, i, o : k = call[c] /\ i = call[c].id /\ o = call[c].old
  OBVIOUS
<1>2. k.pc = "hub" /\ k.op = "schedule" /\ i = k.id /\ o = k.old /\ i \in Filter
  BY <1>1, OneCall DEF AddJob, SoundCall, At
<1>3. PICK j \in JobsOf(NoFilter) : jobs' = [jobs EXCEPT ![j] = [of |-> i, name |-> o]]
  BY <1>1 DEF AddJob
<1>4. /\ j \in Job /\ jobs[j].of = NoFilter /\ jobs'[j].of = i /\ jobs'[j].name = o
      /\ \A h \in Job \ {j} : jobs'[h] = jobs[h]
  BY <1>3 DEF JobsOf, Typed, TypeOK
<1>5. UNCHANGED <<rows, updates, Excepted>> /\ End(c)
  BY DEF AddJob, Excepted
<1>6. \A u \in updates : u.job # j
  BY <1>4, FilterAssumption DEF Typed, Sent
<1>7. \A f \in Filter : JobsOf(f)' = IF f = i THEN JobsOf(f) \cup {j} ELSE JobsOf(f)
  BY <1>4, FilterAssumption DEF JobsOf
<1>8. \A f \in Filter : j \notin JobsOf(f) /\ JobsOf(f) \subseteq Job
  BY <1>4, FilterAssumption DEF JobsOf
<1> SUFFICES ASSUME NEW f \in Filter \ Excepted' PROVE JobsInv(f)'
  BY DEF JobsInv
<1>9. f \notin Excepted /\ f \notin About(c)' /\ \A d \in Caller \ {c} : call'[d] = call[d]
  BY <1>5, EndAbout
<1>10. NamesOf(f)' = NamesOf(f)
  BY <1>5 DEF NamesOf
<1>11. f # i => Same(f)
  BY <1>4, <1>5, <1>7, <1>8, <1>10 DEF Same
<1>12. CASE f \notin About(c)
  <2>1. f # i
    BY <1>1, <1>12 DEF About
  <2> QED BY <1>9, <1>11, <1>12, <2>1, OtherJobs DEF Typed, JobInv
<1>13. CASE f \in About(c)
  <2>1. KnowsJobs(k, f)
    BY <1>1, <1>9, <1>13 DEF JobInv, JobsInv, Active
  <2>2. CASE f # i
    <3>1. JobsOf(f)' = {}
      BY <1>2, <1>7, <2>1, <2>2 DEF KnowsJobs
    <3>2. Settled(f, NameNow(f))'
      BY <3>1 DEF Settled
    <3> QED BY <1>9, <1>13, <3>2, StepJobs
  <2>3. CASE f = i
    <3>1. Settled(f, NameNow(f)) /\ NamesOf(f) = {o}
      BY <1>2, <2>1, <2>3 DEF KnowsJobs, Clearing
    <3>2. Exists(f) /\ NameOf(f) = o
      <4>1. Exists(f)
        BY <3>1 DEF Exists
      <4> QED BY <3>1, <4>1, FirstRow DEF Typed
    <3>3. NameNow(f) = o /\ NameNow(f)' = o
      BY <1>10, <3>2, NameKept DEF NameNow
    <3>4. Settled(f, o)'
      <4>1. Settled(f, o)
        BY <3>1, <3>3
      <4> QED BY <1>4, <1>5, <1>6, <1>7, <1>8, <2>3, <4>1 DEF Settled
    <3>5. Settled(f, NameNow(f))'
      BY <3>3, <3>4 DEF Settled
    <3> QED BY <1>9, <1>13, <3>5, StepJobs
  <2> QED BY <2>2, <2>3
<1> QED BY <1>12, <1>13

\* An update of a job of f gives it the name that is due.
LEMMA UpdateJobJobs ==
  ASSUME Typed, Typed', JobInv, NEW u \in updates, UpdateJob(u)
  PROVE \A f \in Filter : JobsInv(f)'
<1> SUFFICES ASSUME NEW f \in Filter \ Excepted' PROVE JobsInv(f)'
  BY DEF JobsInv
<1>1. /\ UNCHANGED <<rows, call, Excepted>> /\ updates' = updates \ {u}
      /\ u.job \in Job /\ f \notin Excepted
  BY DEF UpdateJob, Typed, TypeOK, Update, Excepted
<1>2. /\ \A j \in Job : jobs'[j].of = jobs[j].of
      /\ \A j \in Job \ {u.job} : jobs'[j].name = jobs[j].name
      /\ jobs'[u.job].name = u.name
  BY <1>1 DEF UpdateJob, Typed, TypeOK, JobRow
<1>3. NamesOf(f)' = NamesOf(f) /\ JobsOf(f)' = JobsOf(f) /\ Active(f)' = Active(f)
  BY <1>1, <1>2 DEF NamesOf, JobsOf, Active, About
<1>4. CASE u.job \notin JobsOf(f)
  <2>1. Same(f)
    BY <1>1, <1>2, <1>3, <1>4 DEF Same, JobsOf
  <2> QED BY <1>1, <1>3, <2>1, SameJobs DEF Typed, JobInv
<1>5. CASE u.job \in JobsOf(f)
  <2>1. Updating(f)
    BY <1>5, UpdatingJobs DEF Typed
  <2>2. ASSUME NEW n, Settled(f, n) PROVE Settled(f, n)'
    <3>1. u.name = n
      BY <1>5, <2>2 DEF Settled
    <3>2. ASSUME NEW j \in JobsOf(f)
          PROVE /\ jobs'[j].name = n \/ [job |-> j, name |-> n] \in updates'
                /\ \A v \in updates' : v.job = j => v.name = n
      <4>1. CASE j = u.job
        BY <1>1, <1>2, <2>2, <3>1, <3>2, <4>1 DEF Settled
      <4>2. CASE j # u.job
        <5>1. [job |-> j, name |-> n] # u
          BY <4>2
        <5>2. j \in Job
          BY <3>2 DEF JobsOf
        <5> QED BY <1>1, <1>2, <2>2, <3>2, <4>2, <5>1, <5>2 DEF Settled
      <4> QED BY <4>1, <4>2
    <3> QED BY <1>3, <3>2 DEF Settled
  <2>3. ASSUME Active(f)' = {} PROVE Settled(f, NameNow(f))'
    <3>1. PICK n : n = NameNow(f)
      OBVIOUS
    <3>2. Settled(f, n)' /\ NameNow(f)' = n
      BY <1>1, <1>3, <2>2, <2>3, <3>1, NameKept DEF JobInv, JobsInv
    <3> QED BY <3>2 DEF Settled
  <2>4. ASSUME NEW d \in Active(f)' PROVE KnowsJobs(call[d], f)'
    <3>1. PICK k : k = call[d] /\ k = call'[d]
      BY <1>1
    <3>2. KnowsJobs(k, f)
      BY <1>1, <1>3, <2>4, <3>1 DEF JobInv, JobsInv
    <3>3. Clearing(k) /\ Settled(f, NoName)
      BY <2>1, <3>2 DEF KnowsJobs
    <3>4. Settled(f, NoName)'
      BY <2>2, <3>3
    <3>5. KnowsJobs(k, f)'
      BY <1>3, <3>2, <3>3, <3>4 DEF KnowsJobs, Clearing
    <3> QED BY <3>1, <3>5 DEF KnowsJobs, Clearing
  <2> QED BY <2>3, <2>4 DEF JobsInv
<1> QED BY <1>4, <1>5

LEMMA LoseUpdateJobs ==
  ASSUME Typed, Typed', JobInv, NEW u \in updates, LoseUpdate(u)
  PROVE \A f \in Filter : JobsInv(f)'
<1> SUFFICES ASSUME NEW f \in Filter \ Excepted' PROVE JobsInv(f)'
  BY DEF JobsInv
<1>1. /\ UNCHANGED <<rows, jobs, call>> /\ updates' = updates \ {u}
      /\ f \notin Excepted /\ u.job \notin JobsOf(f)
  BY DEF LoseUpdate, JobsOf, Excepted
<1>2. Same(f)
  BY <1>1 DEF Same, NamesOf, JobsOf
<1>3. Active(f)' = Active(f)
  BY <1>1 DEF Active, About
<1> QED BY <1>1, <1>2, <1>3, SameJobs DEF Typed, JobInv

LEMMA StillJobs ==
  ASSUME Typed, Typed', JobInv, UNCHANGED vars
  PROVE \A f \in Filter : JobsInv(f)'
<1> SUFFICES ASSUME NEW f \in Filter PROVE JobsInv(f)'
  OBVIOUS
<1>1. Same(f) /\ Active(f)' = Active(f) /\ call' = call /\ Excepted' = Excepted
  BY DEF vars, Same, NamesOf, JobsOf, Active, About, Excepted
<1>2. CASE f \in Excepted
  BY <1>1, <1>2 DEF JobsInv
<1>3. CASE f \notin Excepted
  BY <1>1, <1>3, SameJobs DEF Typed, JobInv
<1> QED BY <1>2, <1>3

\* The jobs a call has found belong to the filter it was asked about.
LEMMA FoundStep ==
  ASSUME Typed, Typed', JobInv, [Next]_vars
  PROVE FoundJobs'
<1>1. ASSUME NEW j \in Job, jobs[j].of \in Filter PROVE jobs'[j].of = jobs[j].of
  <2>1. CASE jobs' = jobs
    BY <2>1
  <2>2. ASSUME NEW u \in updates, UpdateJob(u) PROVE jobs'[j].of = jobs[j].of
    BY <2>2 DEF UpdateJob, Typed, TypeOK, JobRow
  <2>3. ASSUME NEW c \in Caller, AddJob(c) PROVE jobs'[j].of = jobs[j].of
    BY <1>1, <2>3, FilterAssumption DEF AddJob, JobsOf, Typed, TypeOK
  <2> QED
    BY <2>1, <2>2, <2>3
       DEF Next, Proceed, Request, Continue, vars, SaveFilter, NewFilter, DeleteFilter,
           ScheduleJob, InitializeDefaultFilter, QueryJobs, FindFilter, ReadFilter, CheckName,
           Retrieve, Write, DeleteOld, DeleteOldFails, ReadAgain, Return, RemoveRow, Fail,
           LoseUpdate
<1>2. \A c \in Caller : \A j \in call[c].found :
        j \in Job /\ jobs[j].of = call[c].for /\ jobs[j].of \in Filter
  BY OneCall DEF JobInv, FoundJobs, SoundCall, Call
<1>3. ASSUME NEW c \in Caller, \A d \in Caller \ {c} : call'[d] = call[d],
             \/ call'[c].found = {}
             \/ call'[c].found = call[c].found /\ call'[c].for = call[c].for
             \/ jobs' = jobs /\ call'[c].found = JobsOf(call'[c].for)
      PROVE FoundJobs'
  <2>1. ASSUME NEW d \in Caller, NEW j \in call'[d].found PROVE jobs'[j].of = call'[d].for
    <3>1. CASE call'[d].found = call[d].found /\ call'[d].for = call[d].for
      BY <1>1, <1>2, <2>1, <3>1
    <3>2. CASE d = c /\ jobs' = jobs /\ call'[c].found = JobsOf(call'[c].for)
      BY <2>1, <3>2 DEF JobsOf
    <3> QED BY <1>3, <2>1, <3>1, <3>2
  <2> QED BY <2>1 DEF FoundJobs
<1>4. ASSUME NEW c \in Caller, Request(c) PROVE FoundJobs'
  <2>1. PICK op, pc, e, f, n : call' = [call EXCEPT ![c] = Started(op, pc, e, f, n)]
    BY <1>4
       DEF Request, SaveFilter, DeleteFilter, ScheduleJob, NewFilter, InitializeDefaultFilter,
           Begin
  <2>2. PICK k : k = Started(op, pc, e, f, n)
    OBVIOUS
  <2>3. k.found = {}
    BY <2>2 DEF Started
  <2> QED BY <1>3, <2>1, <2>2, <2>3, OneCall
<1>5. ASSUME NEW c \in Caller, End(c) \/ Abort(c) PROVE FoundJobs'
  <2>1. call'[c] = Idle /\ \A d \in Caller \ {c} : call'[d] = call[d]
    BY <1>5, OneCall DEF Abort
  <2> QED BY <1>3, <2>1 DEF Idle, Started
<1>6. ASSUME NEW c \in Caller, NEW pc, Goto(c, pc) PROVE FoundJobs'
  <2>1. call'[c] = [call[c] EXCEPT !.pc = pc] /\ \A d \in Caller \ {c} : call'[d] = call[d]
    BY <1>6, OneCall
  <2>2. call'[c].found = call[c].found /\ call'[c].for = call[c].for
    BY <2>1, OneCall DEF Call
  <2> QED BY <1>3, <2>1, <2>2
<1>7. ASSUME NEW c \in Caller, QueryJobs(c) PROVE FoundJobs'
  <2>1. PICK f : f = call[c].for
    OBVIOUS
  <2>2. CASE call' = [call EXCEPT ![c].pc = "any", ![c].found = JobsOf(f)]
    <3>1. /\ call'[c] = [call[c] EXCEPT !.pc = "any", !.found = JobsOf(f)]
          /\ \A d \in Caller \ {c} : call'[d] = call[d]
      BY <2>2 DEF Typed, TypeOK
    <3>2. call'[c].found = JobsOf(f) /\ call'[c].for = f
      BY <2>1, <3>1, OneCall DEF Call
    <3> QED BY <1>3, <1>7, <3>1, <3>2 DEF QueryJobs
  <2> QED BY <1>5, <1>7, <2>1, <2>2 DEF QueryJobs
<1>8. ASSUME NEW c \in Caller, FindFilter(c) PROVE FoundJobs'
  <2>1. ASSUME NEW g, call' = [call EXCEPT ![c].pc = "check", ![c].id = g] PROVE FoundJobs'
    <3>1. /\ call'[c] = [call[c] EXCEPT !.pc = "check", !.id = g]
          /\ \A d \in Caller \ {c} : call'[d] = call[d]
      BY <2>1 DEF Typed, TypeOK
    <3>2. call'[c].found = call[c].found /\ call'[c].for = call[c].for
      BY <3>1, OneCall DEF Call
    <3> QED BY <1>3, <3>1, <3>2
  <2> QED BY <1>5, <1>6, <1>8, <2>1 DEF FindFilter
<1>9. ASSUME NEW c \in Caller, ReadFilter(c) PROVE FoundJobs'
  <2>1. ASSUME NEW pc, NEW o, call' = [call EXCEPT ![c].pc = pc, ![c].old = o]
        PROVE FoundJobs'
    <3>1. /\ call'[c] = [call[c] EXCEPT !.pc = pc, !.old = o]
          /\ \A d \in Caller \ {c} : call'[d] = call[d]
      BY <2>1 DEF Typed, TypeOK
    <3>2. call'[c].found = call[c].found /\ call'[c].for = call[c].for
      BY <3>1, OneCall DEF Call
    <3> QED BY <1>3, <3>1, <3>2
  <2> QED BY <1>5, <1>9, <2>1 DEF ReadFilter
<1>10. ASSUME NEW c \in Caller, Continue(c) \/ Fail(c) PROVE FoundJobs'
  BY <1>5, <1>6, <1>7, <1>8, <1>9, <1>10
     DEF Continue, Fail, CheckName, Retrieve, Write, Written, DeleteOld, DeleteOldFails,
         ReadAgain, Return, RemoveRow, AddJob
<1>11. CASE call' = call
  BY <1>1, <1>2, <1>11 DEF FoundJobs
<1> QED BY <1>4, <1>10, <1>11 DEF Next, Proceed, UpdateJob, LoseUpdate, vars

LEMMA JobStep == Typed /\ RowInv /\ JobInv /\ [Next]_vars => JobInv'
<1> SUFFICES ASSUME Typed, RowInv, JobInv, [Next]_vars PROVE JobInv'
  OBVIOUS
<1>0. Typed' /\ FoundJobs'
  BY TypedStep, FoundStep
<1>1. ASSUME NEW c \in Caller, Request(c) PROVE \A f \in Filter : JobsInv(f)'
  BY <1>0, <1>1, RequestJobs
<1>2. ASSUME NEW c \in Caller, Continue(c) PROVE \A f \in Filter : JobsInv(f)'
  BY <1>0, <1>2, QueryJobsJobs, FindFilterJobs, ReadFilterJobs, StepOnJobs, WriteJobs,
     DeleteOldJobs, ReturnJobs, RemoveRowJobs, AddJobJobs DEF Continue
<1>3. ASSUME NEW c \in Caller, Fail(c) PROVE \A f \in Filter : JobsInv(f)'
  BY <1>0, <1>3, AbortJobs DEF Fail
<1>4. ASSUME NEW u \in updates, UpdateJob(u) \/ LoseUpdate(u)
      PROVE \A f \in Filter : JobsInv(f)'
  BY <1>0, <1>4, UpdateJobJobs, LoseUpdateJobs
<1>5. ASSUME UNCHANGED vars PROVE \A f \in Filter : JobsInv(f)'
  BY <1>0, <1>5, StillJobs
<1>6. \A f \in Filter : JobsInv(f)'
  BY <1>1, <1>2, <1>3, <1>4, <1>5 DEF Next, Proceed
<1> QED BY <1>0, <1>6 DEF JobInv

LEMMA JobInit == Init => JobInv
<1> SUFFICES ASSUME Init PROVE JobInv
  OBVIOUS
<1>1. \A c \in Caller : call[c] = Idle
  BY DEF Init
<1>2. FoundJobs /\ \A f \in Filter : JobsOf(f) = {} /\ Active(f) = {}
  BY <1>1, FilterAssumption
     DEF Init, FoundJobs, JobsOf, NoJob, Active, About, Idle, Started
<1> QED BY <1>2 DEF JobInv, JobsInv, Settled

\* The table of jobs agrees with that of filters: once nothing about a filter is on
\* its way its jobs have its name, or none if it was deleted (FilterLogic and the
\* tasks JobRepository starts), unless it is excepted: operations on it overlapped,
\* one was left half done, a built-in filter was written again by a start, or a page
\* saved a filter deleted in the meantime, which saves it under a new id and gives
\* the new name to the jobs the deleted one has left (FilterLogic.cs:28 to :35).
THEOREM JobsFollow == Spec => []JobsAgree
<1>1. Typed /\ JobInv => JobsAgree
  <2> SUFFICES ASSUME Typed, JobInv, NEW j \in Job, NEW f, f = jobs[j].of,
                      f \in Filter \ Excepted, ~Busy(f)
               PROVE jobs[j].name = NameNow(f)
    BY DEF JobsAgree, NameNow
  <2>1. j \in JobsOf(f) /\ Active(f) = {} /\ ~Updating(f)
    BY DEF JobsOf, Busy
  <2>2. Settled(f, NameNow(f))
    BY <2>1 DEF JobInv, JobsInv
  <2>3. PICK n : n = NameNow(f)
    OBVIOUS
  <2>4. [job |-> j, name |-> n].job = j
    OBVIOUS
  <2>5. [job |-> j, name |-> n] \notin updates
    BY <2>1, <2>4, UpdatingJobs DEF Typed
  <2> QED BY <2>1, <2>2, <2>3, <2>5 DEF Settled
<1> QED BY <1>1, TypedInit, TypedStep, RowInit, RowStep, JobInit, JobStep, PTL DEF Spec

=============================================================================
