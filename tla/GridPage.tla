------------------------------ MODULE GridPage ------------------------------
(***************************************************************************)
(* The pages of device rules, of location rules (the same code over other  *)
(* rows) and of jobs.  A click on a row asks for its details.  Every draw  *)
(* of the table, also one that only sorts it, selects the row that was     *)
(* selected when the last list arrived, or closes the pane.                *)
(***************************************************************************)
EXTENDS DetailsPane

VARIABLES
  selected,   \* self.selectedRuleId, self.selectedJobId
  deflt,      \* the row of self.defaultSelectedRow, NoItem if not available
  mark        \* the row with class selected

gridVars == <<selected, deflt, mark>>

OnGrid == page \in {"rules", "jobs"}

\* The page of jobs may be opened for one job (resources.jobId).
FirstSelected(p) == IF p = "jobs" THEN Item \cup {NoItem} ELSE {NoItem}

GridInit ==
  /\ selected \in FirstSelected(page)
  /\ deflt = NoItem
  /\ mark = NoItem

GridLoad(p) ==
  /\ selected' \in FirstSelected(p)
  /\ deflt' = NoItem
  /\ mark' = NoItem

-----------------------------------------------------------------------------
\* Mutant of SelectRow: an open pane keeps what its buttons act on.
SelectRowKeepsTarget(x) ==
  /\ mark' = x
  /\ selected' = x
  /\ target' = IF visible THEN target ELSE x
  /\ Ask(x, TRUE)
  /\ UNCHANGED <<visible, content, posts>>

\* Mutant of SelectRow: the id is not remembered.
SelectRowUnsaved(x) ==
  /\ mark' = x
  /\ target' = x
  /\ Ask(x, TRUE)
  /\ UNCHANGED <<visible, content, posts, selected>>

SelectRow(x) ==
  /\ mark' = x
  /\ selected' = x
  /\ target' = x
  /\ Ask(x, TRUE)
  /\ UNCHANGED <<visible, content, posts>>

CloseAndClear(m) ==
  /\ visible' = FALSE
  /\ content' = Blank
  /\ mark' = m
  /\ UNCHANGED <<selected, target, asks, posts, raced>>

\* _setDefaultRowAndPage: m is the row that keeps the class, if any does.
Draw(d, m) == IF d # NoItem THEN SelectRow(d) ELSE CloseAndClear(m)

ClickRow(x) ==
  /\ ~covered /\ x \in rows
  /\ SelectRow(x)
  /\ spinner' = TRUE
  /\ UNCHANGED <<listVars, deflt>>

SortOrPage ==
  /\ ~covered
  /\ Draw(deflt, mark)
  /\ spinner' = (spinner \/ deflt # NoItem)
  /\ UNCHANGED <<listVars, deflt>>

Chosen(snap) == IF selected \in snap THEN selected ELSE NoItem

\* successCallback and the draw of the new rows.  The end of the processing
\* uncovers the pane as well, also when the draw has just asked for details.
ListAnswered(i, snap) ==
  /\ rows' = snap
  /\ lists' = Without(i)
  /\ covered' = FALSE
  /\ spinner' = FALSE
  /\ deflt' = Chosen(snap)
  /\ Draw(deflt', NoItem)

-----------------------------------------------------------------------------
(* The pane.                                                               *)

\* The answer opens a closed pane.
DetailsShown(x) ==
  /\ Filled(x, "shown")
  /\ visible' = TRUE
  /\ UNCHANGED <<listVars, gridVars>>

DetailsRefused(x) ==
  /\ Filled(x, "retry")
  /\ UNCHANGED <<listVars, gridVars, visible>>

RetryDetails ==
  /\ PaneInReach
  /\ content.kind = "retry"
  /\ Ask(target, TRUE)
  /\ spinner' = TRUE
  /\ UNCHANGED <<listVars, gridVars, visible, content, target, posts>>

\* The form that enables or disables a rule covers the pane until it is
\* answered; the link that cancels a job does not.
SendChange ==
  /\ PaneInReach
  /\ content.kind = "shown"
  /\ posts + Len(lists) < MaxLists
  /\ posts' = posts + 1
  /\ spinner' = (page = "rules")
  /\ UNCHANGED <<listVars, gridVars, visible, content, target, asks, raced>>

\* The table is loaded again and covers page and pane.  The page of jobs aborts
\* the request before, whose failure handler uncovers both.
Reload ==
  IF page = "jobs"
  THEN /\ lists' = <<FALSE>>
       /\ covered' = (lists = <<>>)
       /\ spinner' = (lists = <<>>)
  ELSE /\ lists' = Append(lists, FALSE)
       /\ covered' = TRUE
       /\ spinner' = FALSE

\* The handler of the form uncovers the pane at the end, whatever happened.
ChangeAnswered(ok) ==
  /\ posts > 0
  /\ posts' = posts - 1
  /\ IF ok THEN Reload
     ELSE spinner' = (spinner /\ page = "jobs") /\ UNCHANGED <<lists, covered>>
  /\ UNCHANGED <<rows, gridVars, visible, content, target, asks, raced>>

-----------------------------------------------------------------------------
GridAnswer ==
  \/ \E i \in DOMAIN lists :
       \/ \E snap \in SUBSET Item : ListAnswered(i, snap)
       \/ ListFails(i) /\ UNCHANGED gridVars
  \/ \E x \in Item : DetailsShown(x) \/ DetailsRefused(x)
  \/ \E ok \in BOOLEAN : ChangeAnswered(ok)

GridUser ==
  \/ \E x \in Item : ClickRow(x)
  \/ SortOrPage
  \/ RetryDetails
  \/ SendChange
  \/ TogglePane /\ UNCHANGED gridVars

GridNext == OnGrid /\ (GridAnswer \/ GridUser) /\ UNCHANGED page

-----------------------------------------------------------------------------
GridTypeOK ==
  /\ selected \in Item \cup {NoItem}
  /\ deflt \in Item \cup {NoItem}
  /\ mark \in Item \cup {NoItem}

\* The pane is never left under its spinner: if it is covered, a request is
\* outstanding whose answer uncovers it.
PaneSpinsForAnswer ==
  OnGrid /\ spinner => Waiting \/ lists # <<>> \/ (page = "rules" /\ posts > 0)

\* The page is never left covered ("otherwise grid will spin
\* forever", DeviceRulesIndex.js:215).
CoveredForList == OnGrid /\ covered => lists # <<>>

\* The row that a draw will select is a row of the table that is drawn.
DefaultIsDrawn == deflt # NoItem => deflt \in rows

\* Remove, cancel and retry act on self.ruleId or self.jobId, which is set when
\* a request is sent; what the pane shows is set by answers.  Once nothing is
\* outstanding they agree, unless two requests overlapped.
ButtonsActOnShown ==
  OnGrid /\ ~Waiting /\ ~raced /\ content.kind = "shown" => content.of = target

\* The marked row is the selected one and the one the buttons act on.
MarkIsTarget == mark # NoItem => mark = selected /\ mark = target

\* The page of jobs aborts a list request before it sends the next: the answer
\* to an older one never replaces that to a newer one.
NoOldJobs == page = "jobs" => \A i \in DOMAIN lists : ~lists[i]

GridInv ==
  /\ GridTypeOK
  /\ PaneSpinsForAnswer
  /\ CoveredForList
  /\ DefaultIsDrawn
  /\ ButtonsActOnShown
  /\ MarkIsTarget
  /\ NoOldJobs

GridSpec == PaneInit /\ OnGrid /\ GridInit /\ [][GridNext]_<<page, sharedVars, gridVars>>
=============================================================================
