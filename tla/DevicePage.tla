----------------------------- MODULE DevicePage -----------------------------
(***************************************************************************)
(* The page of devices: DeviceIndex, DeviceDetails and the editors that    *)
(* share its pane.  The grid is paged by the server, every sort or page is *)
(* a new list request, and the row to select is selected by a timer after  *)
(* the draw.  The selected device is kept in a cookie, which outlives the  *)
(* page.  Several devices may be checked instead of one selected.          *)
(*                                                                         *)
(* While the columns are loaded again the table does not exist: the answer *)
(* to a list request from before is taken after it exists again.           *)
(***************************************************************************)
EXTENDS DetailsPane, FiniteSets

CONSTANTS
  MaxTicks,   \* bound: timers of draws that have not run, and tables that are made
  MaxPanels   \* bound: requests of the pane that are outstanding at once

ASSUME DevicePageAssumption == {MaxTicks, MaxPanels} \subseteq Nat \ {0}

VARIABLES
  cookie,      \* device-id
  boot,        \* what the page is waiting for before it has a table
  filterReady, \* self.initialized of DeviceFilter
  bound,       \* how often the handlers of the table have been attached
  marked,      \* rows with class selected
  choice,      \* the row of isDefaultDeviceDetailsAvailable, or NoItem
  known,       \* isDefaultDeviceIdAvailable
  ticks,       \* draws whose _setDefaultRowAndPage has not run
  loader,      \* the request self.loader can abort: an editor's
  asked,       \* what the title of the pane names: the panel asked for last
  multi,       \* selectedDeviceIds
  saving,      \* what a filter is saved for
  change,      \* the request sent from the pane
  keys         \* the device whose keys are in the pane

tableVars == <<marked, choice, known, ticks, multi>>
bootVars == <<boot, filterReady, bound>>
workVars == <<saving, change>>
deviceVars == <<cookie, bootVars, tableVars, loader, asked, keys, workVars>>

Editor == {"columns", "schedule"}
Boot == {"off", "columns", "retry", "clauses", "filter", "dead", "done"}
OnDevices == page = "devices"
FirstBoot(p) == IF p = "devices" THEN "columns" ELSE "off"

\* A change of a device or of the columns; "keys" reads, but its answer changes
\* the pane as the others' do.
DeviceChange == {"status", "sim", "keys"}
NoChange == [kind |-> "none", of |-> NoItem]

DeviceInit ==
  /\ cookie \in Item \cup {NoItem}
  /\ boot = FirstBoot(page)
  /\ filterReady = FALSE /\ bound = 0
  /\ marked = {} /\ choice = NoItem /\ known = FALSE
  /\ ticks = 0
  /\ loader = "none" /\ asked = NoItem
  /\ multi = {} /\ keys = NoItem
  /\ saving = "no" /\ change = NoChange

\* Everything but the cookie is lost with the page.
DeviceLoad(p) ==
  /\ boot' = FirstBoot(p)
  /\ filterReady' = FALSE /\ bound' = 0
  /\ marked' = {} /\ choice' = NoItem /\ known' = FALSE
  /\ ticks' = 0
  /\ loader' = "none" /\ asked' = NoItem
  /\ multi' = {} /\ keys' = NoItem
  /\ saving' = "no" /\ change' = NoChange

\* Both covers are .loader_container: they are shown and hidden together.
Cover(b) == covered' = b /\ spinner' = b

-----------------------------------------------------------------------------
(* Before there is a table: the columns, the suggested clauses, the filter. *)

\* The table asks for its list.  The request before it is aborted, whose
\* failure handler uncovers the page.
AskList ==
  /\ lists' = <<FALSE>>
  /\ Cover(lists = <<>>)

MakeTable ==
  /\ boot' = "done"
  /\ bound' = bound + 1
  /\ AskList

BootKept == UNCHANGED <<rows, visible, content, target, asks, posts, raced, cookie,
                        marked, choice, known, ticks, multi, loader, asked, keys, workVars>>

ColumnsRead ==
  /\ boot = "columns"
  /\ filterReady' = TRUE
  /\ IF filterReady
     THEN MakeTable
     ELSE boot' = "clauses" /\ UNCHANGED <<bound, lists, covered, spinner>>
  /\ BootKept

ColumnsFailed ==
  /\ boot = "columns"
  /\ boot' = "retry"
  /\ Cover(FALSE)
  /\ BootKept
  /\ UNCHANGED <<filterReady, bound, lists>>

RetryColumns ==
  /\ boot = "retry"
  /\ boot' = "columns"
  /\ Cover(TRUE)
  /\ BootKept
  /\ UNCHANGED <<filterReady, bound, lists>>

\* The handler of a failure shows a message; nobody calls back.
ClausesAnswered(ok) ==
  /\ boot = "clauses"
  /\ boot' = IF ok THEN "filter" ELSE "dead"
  /\ BootKept
  /\ UNCHANGED <<filterReady, bound, lists, covered, spinner>>

\* The table is made, whether the filter is found or not.
FilterAnswered ==
  /\ boot = "filter"
  /\ MakeTable
  /\ BootKept
  /\ UNCHANGED filterReady

-----------------------------------------------------------------------------
(* Opening something in the pane.                                          *)

\* showDetails opens the pane and aborts the request for an editor that is
\* outstanding, whose failure handler runs at once.
Aborted == loader # "none" /\ asks[loader] > 0
Left == IF Aborted THEN [asks EXCEPT ![loader] = @ - 1] ELSE asks

ShowDetails ==
  /\ visible' = TRUE
  /\ content' = IF Aborted THEN [kind |-> "retry", of |-> loader] ELSE content
  /\ keys' = IF Aborted THEN NoItem ELSE keys

Requests(left) ==
  Cardinality({q \in Panel : left[q] > 0}) + IF change = NoChange THEN 0 ELSE 1

\* A request for panel p when the requests in left are outstanding.  The
\* answer for keys or a SIM card comes to whatever the pane shows then.
AskAmong(left, p, fresh) ==
  /\ left[p] < MaxAsks
  /\ Requests(left) < MaxPanels
  /\ asks' = [left EXCEPT ![p] = @ + 1]
  /\ raced' = \/ \E q \in Panel \ {p} : left[q] > 0
              \/ change.kind \in {"sim", "keys"}
              \/ raced /\ (left[p] > 0 \/ ~fresh)
  /\ asked' = p

\* Mutant of SelectDevice: details that were asked for last are not asked again.
SelectDeviceOnce(x) ==
  /\ marked' = {x}
  /\ cookie' = x
  /\ ShowDetails
  /\ IF x = target
     THEN asked' = x /\ asks' = Left /\ UNCHANGED <<raced, spinner>>
     ELSE AskAmong(Left, x, TRUE) /\ spinner' = TRUE
  /\ target' = x
  /\ loader' = "none"

\* _selectRowFromDataTable.  The request for the details is not kept:
\* DeviceDetails.init returns nothing that could be aborted.
SelectDevice(x) ==
  /\ marked' = {x}
  /\ cookie' = x
  /\ ShowDetails
  /\ AskAmong(Left, x, TRUE)
  /\ spinner' = TRUE
  /\ target' = x
  /\ loader' = "none"

\* The button that edits the columns.
EditColumns ==
  /\ boot = "done" /\ ~covered
  /\ marked' = {} /\ cookie' = NoItem
  /\ ShowDetails
  /\ AskAmong(Left, "columns", TRUE)
  /\ spinner' = TRUE
  /\ loader' = "columns"
  /\ UNCHANGED <<listVars, target, posts, bootVars, choice, known, ticks, multi, workVars>>

\* The button that schedules a job: a filter that was changed is saved first.
ScheduleJob ==
  /\ boot = "done" /\ ~covered
  /\ marked' = {} /\ cookie' = NoItem
  /\ ShowDetails
  /\ \/ /\ AskAmong(Left, "schedule", TRUE)
        /\ loader' = "schedule"
        /\ spinner' = TRUE
        /\ UNCHANGED <<covered, saving>>
     \/ /\ saving \in {"no", "lost"}
        /\ saving' = "filter"
        /\ Cover(TRUE)
        /\ asks' = Left
        /\ UNCHANGED <<raced, asked, loader>>
  /\ UNCHANGED <<rows, lists, target, posts, bootVars, choice, known, ticks, multi,
                 change>>

FilterSaved ==
  /\ saving = "filter"
  /\ saving' = "no"
  /\ covered' = FALSE
  /\ AskAmong(asks, "schedule", TRUE)
  /\ spinner' = TRUE
  /\ loader' = "schedule"
  /\ UNCHANGED <<rows, lists, visible, content, target, posts, cookie, bootVars, marked,
                 choice, known, ticks, multi, keys, change>>

-----------------------------------------------------------------------------
(* The grid.                                                               *)

GridKept == UNCHANGED <<posts, bootVars, choice, known, ticks, saving, change>>

\* stopMultiSelectionIfNeeded
StopMulti ==
  /\ multi' = {}
  /\ IF multi # {} THEN marked' = {} /\ cookie' = NoItem
     ELSE UNCHANGED <<marked, cookie>>

\* Mutant of ClickDevice: the selection of several devices is not ended.
ClickDeviceToo(x) ==
  /\ boot = "done" /\ ~covered /\ x \in rows
  /\ SelectDevice(x)
  /\ GridKept
  /\ UNCHANGED <<listVars, multi>>

ClickDevice(x) ==
  /\ boot = "done" /\ ~covered /\ x \in rows
  /\ SelectDevice(x)
  /\ multi' = {}
  /\ GridKept
  /\ UNCHANGED listVars

\* A sort, another page, another filter.
ListAgain ==
  /\ boot = "done" /\ ~covered
  /\ AskList
  /\ GridKept
  /\ UNCHANGED <<rows, visible, content, target, asks, raced, multi, marked, cookie, loader,
                 asked, keys>>

\* The answer for a saved filter the user has chosen; bound: one filter is opened
\* or saved at a time.
FilterOpened ==
  /\ boot = "done" /\ saving = "no"
  /\ StopMulti
  /\ AskList
  /\ GridKept
  /\ UNCHANGED <<rows, visible, content, target, asks, raced, loader, asked, keys>>

\* Mutant of DevicesListed: the device of the cookie is looked for in the old rows.
DevicesListedLate(i, snap) ==
  /\ boot = "done"
  /\ ticks + bound <= MaxTicks
  /\ rows' = snap
  /\ lists' = Without(i)
  /\ Cover(FALSE)
  /\ known' = (cookie # NoItem)
  /\ choice' = IF cookie \in rows THEN cookie ELSE NoItem
  /\ ticks' = ticks + bound
  /\ marked' = multi \cap snap
  /\ UNCHANGED <<visible, content, target, asks, posts, raced, cookie, bootVars, multi,
                 loader, asked, keys, workVars>>

\* successCallback; the rows are drawn with those that are checked marked, and
\* each handler of draw.dt sets a timer.
DevicesListed(i, snap) ==
  /\ boot = "done"
  /\ ticks + bound <= MaxTicks
  /\ rows' = snap
  /\ lists' = Without(i)
  /\ Cover(FALSE)
  /\ known' = (cookie # NoItem)
  /\ choice' = IF cookie \in snap THEN cookie ELSE NoItem
  /\ ticks' = ticks + bound
  /\ marked' = multi \cap snap
  /\ UNCHANGED <<visible, content, target, asks, posts, raced, cookie, bootVars, multi,
                 loader, asked, keys, workVars>>

DevicesRefused(i) ==
  /\ boot = "done"
  /\ ListFails(i)
  /\ UNCHANGED <<cookie, bootVars, marked, choice, known, ticks, multi, loader, asked,
                 keys, workVars>>

CloseDetails ==
  /\ visible' = FALSE
  /\ content' = Blank
  /\ keys' = NoItem
  /\ cookie' = NoItem

\* _setDefaultRowAndPage, in the timer of a draw.  A table that has been
\* cleared since has no such row.
Tick ==
  /\ ticks > 0
  /\ ticks' = ticks - 1
  /\ choice' = NoItem
  /\ \/ choice \in rows /\ SelectDevice(choice)
     \/ /\ choice = NoItem /\ known
        /\ CloseDetails
        /\ UNCHANGED <<marked, loader, target, asked, asks, raced, spinner>>
     \/ /\ choice \notin rows /\ ~(choice = NoItem /\ known)
        /\ UNCHANGED <<visible, content, keys, cookie, marked, loader, target, asked, asks,
                       raced, spinner>>
  /\ known' = (known /\ ticks > 1)
  /\ UNCHANGED <<listVars, posts, bootVars, multi, workVars>>

\* checkboxClickHandler
CheckDevice(x) ==
  /\ boot = "done" /\ ~covered /\ x \in rows
  /\ IF multi = {}
     THEN CloseDetails /\ multi' = {x} /\ marked' = {x}
     ELSE /\ multi' = IF x \in multi THEN multi \ {x} ELSE multi \cup {x}
          /\ marked' = IF multi' = {} THEN {}
                       ELSE IF x \in multi THEN marked \ {x} ELSE marked \cup {x}
          /\ cookie' = IF multi' = {} THEN NoItem ELSE cookie
          /\ UNCHANGED <<visible, content, keys>>
  /\ GridKept
  /\ UNCHANGED <<listVars, spinner, target, asks, raced, loader, asked>>

\* A filter of the checked devices is saved, to be kept, to be opened or to
\* schedule a job for.
SaveSelected(what) ==
  /\ multi # {} /\ ~covered /\ saving \in {"no", "lost"}
  /\ saving' = what
  /\ Cover(TRUE)
  /\ UNCHANGED <<rows, lists, visible, content, target, asks, posts, raced, cookie, bootVars,
                 marked, choice, known, ticks, multi, loader, asked, keys, change>>

SelectedSaved ==
  /\ \/ saving = "keep" /\ saving' = "no" /\ Cover(FALSE) /\ StopMulti
     \/ saving = "open" /\ saving' = "opening" /\ UNCHANGED <<covered, spinner, multi, marked, cookie>>
  /\ UNCHANGED <<rows, lists, visible, content, target, asks, posts, raced, bootVars,
                 choice, known, ticks, loader, asked, keys, change>>

SelectedOpened ==
  /\ saving = "opening" /\ boot = "done"
  /\ saving' = "no"
  /\ StopMulti
  /\ AskList
  /\ UNCHANGED <<rows, visible, content, target, asks, posts, raced, bootVars,
                 choice, known, ticks, loader, asked, keys, change>>

\* Nothing uncovers the page when the filter for a job is not saved, or one
\* that was saved is not found.
SavingFailed ==
  /\ saving \in {"filter", "keep", "open", "opening", "job"}
  /\ IF saving \in {"opening", "job"}
     THEN saving' = "lost" /\ UNCHANGED <<covered, spinner>>
     ELSE saving' = "no" /\ Cover(FALSE)
  /\ UNCHANGED <<rows, lists, visible, content, target, asks, posts, raced, cookie, bootVars,
                 marked, choice, known, ticks, multi, loader, asked, keys, change>>

-----------------------------------------------------------------------------
(* The pane.                                                               *)

PaneKept == UNCHANGED <<rows, cookie, marked, choice, known, ticks, multi>>

\* Only the editor of the columns opens a closed pane when it comes.
PanelShown(p) ==
  /\ Filled(p, "shown")
  /\ visible' = (visible \/ p = "columns")
  /\ keys' = NoItem
  /\ loader' = IF loader = p THEN "none" ELSE loader
  /\ PaneKept
  /\ UNCHANGED <<lists, covered, bootVars, asked, workVars>>

PanelRefused(p) ==
  /\ Filled(p, "retry")
  /\ keys' = NoItem
  /\ loader' = IF loader = p THEN "none" ELSE loader
  /\ PaneKept
  /\ UNCHANGED <<lists, covered, visible, bootVars, asked, workVars>>

\* The button of the message asks again for what it was left by, and self.loader
\* does not learn of it.
RetryPanel ==
  /\ PaneInReach
  /\ content.kind = "retry"
  /\ AskAmong(asks, content.of, FALSE)
  /\ target' = IF content.of \in Item THEN content.of ELSE target
  /\ spinner' = TRUE
  /\ PaneKept
  /\ UNCHANGED <<lists, covered, visible, content, posts, loader, keys, bootVars, workVars>>

\* A request about self.deviceId, or the columns of the editor.
SendDeviceChange(kind) ==
  /\ PaneInReach /\ change = NoChange /\ Requests(asks) < MaxPanels
  /\ content.kind = "shown"
  /\ IF kind = "columns" THEN content.of = "columns" ELSE content.of \in Item
  /\ change' = [kind |-> kind, of |-> IF kind = "keys" THEN target ELSE NoItem]
  /\ spinner' = (kind # "sim")
  /\ raced' = (raced \/ (kind \in {"sim", "keys"} /\ Waiting))
  /\ PaneKept
  /\ UNCHANGED <<lists, covered, visible, content, target, asks, posts, asked, loader,
                 keys, bootVars, saving>>

ChangeEnds == change' = NoChange

\* A status is answered by relabelling the marked rows; a failure by a message.
StatusAnswered ==
  /\ change.kind = "status"
  /\ spinner' = FALSE
  /\ ChangeEnds /\ PaneKept
  /\ UNCHANGED <<lists, covered, visible, content, target, asks, posts, raced, asked,
                 loader, keys, bootVars, saving>>

\* The keys are put where the pane has the link that asks for them.
KeysAnswered(ok) ==
  /\ change.kind = "keys"
  /\ spinner' = FALSE
  /\ keys' = IF ok /\ content.kind = "shown" /\ content.of \in Item
             THEN change.of ELSE keys
  /\ ChangeEnds /\ PaneKept
  /\ UNCHANGED <<lists, covered, visible, content, target, asks, posts, raced, asked,
                 loader, bootVars, saving>>

\* The details of the device of the pane are asked for again.
SimRemoved ==
  /\ change.kind = "sim" /\ asks[target] < MaxAsks
  /\ asks' = [asks EXCEPT ![target] = @ + 1]
  /\ raced' = (raced \/ Overlaps(target))
  /\ asked' = target
  /\ spinner' = TRUE
  /\ ChangeEnds /\ PaneKept
  /\ UNCHANGED <<lists, covered, visible, content, target, posts, loader, keys, bootVars,
                 saving>>

SimKept ==
  /\ change.kind = "sim"
  /\ ChangeEnds /\ PaneKept
  /\ UNCHANGED <<lists, covered, visible, content, spinner, target, asks, posts, raced,
                 asked, loader, keys, bootVars, saving>>

\* The pane is toggled, which closes it if nobody did before; the table is taken
\* down and the page starts again.
ColumnsSaved ==
  /\ change.kind = "columns" /\ boot = "done" /\ bound < MaxTicks
  /\ visible' = ~visible
  /\ boot' = "columns"
  /\ rows' = {} /\ marked' = {}
  /\ Cover(TRUE)
  /\ ChangeEnds
  /\ UNCHANGED <<lists, content, target, asks, posts, raced, cookie, filterReady, bound,
                 choice, known, ticks, multi, loader, asked, keys, saving>>

ColumnsKept ==
  /\ change.kind = "columns"
  /\ spinner' = FALSE
  /\ ChangeEnds /\ PaneKept
  /\ UNCHANGED <<lists, covered, visible, content, target, asks, posts, raced, asked,
                 loader, keys, bootVars, saving>>

-----------------------------------------------------------------------------
DeviceAnswer ==
  \/ ColumnsRead \/ ColumnsFailed
  \/ \E ok \in BOOLEAN : ClausesAnswered(ok)
  \/ FilterAnswered
  \/ \E i \in DOMAIN lists :
       \/ \E snap \in SUBSET Item : DevicesListed(i, snap)
       \/ DevicesRefused(i)
  \/ \E p \in Panel : PanelShown(p) \/ PanelRefused(p)
  \/ FilterOpened \/ FilterSaved \/ SelectedSaved \/ SelectedOpened \/ SavingFailed
  \/ StatusAnswered
  \/ \E ok \in BOOLEAN : KeysAnswered(ok)
  \/ SimRemoved \/ SimKept \/ ColumnsSaved \/ ColumnsKept

DeviceUser ==
  \/ RetryColumns
  \/ \E x \in Item : ClickDevice(x) \/ CheckDevice(x)
  \/ ListAgain
  \/ EditColumns \/ ScheduleJob
  \/ \E what \in {"keep", "open", "job"} : SaveSelected(what)
  \/ RetryPanel
  \/ \E kind \in DeviceChange \cup {"columns"} : SendDeviceChange(kind)
  \/ /\ TogglePane
     /\ PaneKept
     /\ UNCHANGED <<bootVars, asked, loader, keys, workVars>>

\* A timer without delay is due before the next answer or click.
DeviceNext ==
  /\ OnDevices
  /\ \/ Tick
     \/ ticks = 0 /\ (DeviceAnswer \/ DeviceUser)
  /\ UNCHANGED page

-----------------------------------------------------------------------------
DeviceTypeOK ==
  /\ cookie \in Item \cup {NoItem}
  /\ boot \in Boot
  /\ filterReady \in BOOLEAN
  /\ bound \in 0..MaxTicks
  /\ marked \in SUBSET Item
  /\ choice \in Item \cup {NoItem}
  /\ known \in BOOLEAN
  /\ ticks \in 0..MaxTicks
  /\ loader \in Editor \cup {"none"}
  /\ asked \in Panel \cup {NoItem}
  /\ multi \in SUBSET Item
  /\ saving \in {"no", "filter", "keep", "open", "opening", "job", "lost"}
  /\ change \in [kind : DeviceChange \cup {"none", "columns"}, of : Item \cup {NoItem}]
  /\ keys \in Item \cup {NoItem}

\* The page is covered only while something is outstanding that uncovers it,
\* except after a filter could not be loaded or saved.
DeviceCovered ==
  OnDevices /\ covered =>
    lists # <<>> \/ boot \notin {"retry", "done"} \/ saving # "no"

\* So is the pane.
DevicePaneSpins ==
  OnDevices /\ spinner =>
    covered \/ Waiting \/ change.kind \in {"status", "keys", "columns"}

\* What the pane shows is what its title names and, for a device, what its
\* buttons act on and whose keys it shows, unless two requests for the pane
\* overlapped.
PaneShowsAsked ==
  OnDevices /\ ~Waiting /\ ~raced =>
    /\ content.kind # "blank" => content.of = asked /\ (asked \in Item => target = asked)
    /\ keys # NoItem => content.of = keys

\* A marked row is that of the cookie or a checked one, and the two ways to
\* select never mix.  A table that was made twice has two timers for each draw:
\* the second one closes what the first has selected.  Once the timers have run,
\* the device of the cookie is in the grid ("clear the cookie so we don't
\* unexpectedly pop the details pane open later", DeviceIndex.js:450).
SelectionIsOne ==
  OnDevices =>
    /\ bound <= 1 => marked \subseteq multi \cup {cookie} /\ (multi # {} => cookie = NoItem)
    /\ ticks = 0 /\ rows # {} /\ cookie \in Item => cookie \in rows

\* On the same condition a draw never closes the details of a device that is
\* still displayed (the comment at DeviceIndex.js:113 says when it does).
StaysSelected ==
  [][OnDevices /\ Tick /\ bound <= 1 /\ cookie \in rows => cookie' = cookie]_<<ticks, cookie>>

DeviceSpec ==
  PaneInit /\ OnDevices /\ DeviceInit /\ [][DeviceNext]_<<page, sharedVars, deviceVars>>
=============================================================================
