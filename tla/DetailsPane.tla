---------------------------- MODULE DetailsPane ----------------------------
(***************************************************************************)
(* What the list pages of the portal (rules, jobs, devices) have in        *)
(* common: a grid that is filled by list requests and, beside it, a        *)
(* details pane that is filled by requests of its own.  A browser runs one *)
(* handler at a time, so one action is one handler: a click, the answer or *)
(* the failure of a request, a timer.  Requests are answered in any order. *)
(*                                                                         *)
(* What a list holds and which requests fail is up to the server: other    *)
(* users add and remove rows at any time.                                  *)
(***************************************************************************)
EXTENDS Integers, Sequences

CONSTANTS
  Item,      \* rules, jobs or devices
  NoItem,
  MaxAsks,   \* bound: requests for one panel that are outstanding at once
  MaxLists   \* bound: list requests that are outstanding at once

ASSUME PaneAssumption ==
  /\ NoItem \notin Item
  /\ {"columns", "schedule"} \cap (Item \cup {NoItem}) = {}
  /\ MaxAsks \in Nat \ {0} /\ MaxLists \in Nat \ {0}

\* What the pane can show: the details of an item or one of the two editors of
\* the device page.
Panel == Item \cup {"columns", "schedule"}

VARIABLES
  page,       \* the page that is open
  rows,       \* the rows of the grid
  lists,      \* outstanding list requests, oldest first: TRUE if the answer to
              \* a later one has been shown already
  covered,    \* the page is covered (.loader_container of the layout)
  visible,    \* .details_grid is open
  content,    \* #details_grid_container
  spinner,    \* the pane is covered (#loadingElement, a .loader_container too)
  target,     \* self.ruleId, self.jobId, self.deviceId: what the buttons act on
  asks,       \* outstanding requests for each panel
  posts,      \* outstanding changes sent from the pane
  raced       \* history: requests for two panels have been outstanding at once

listVars == <<rows, lists, covered>>
paneVars == <<visible, content, spinner, target, asks, posts, raced>>
sharedVars == <<listVars, paneVars>>

Content == [kind : {"blank", "shown", "retry"}, of : Panel \cup {NoItem}]
Blank == [kind |-> "blank", of |-> NoItem]
NoAsks == [p \in Panel |-> 0]

Page == {"rules", "jobs", "devices"}

\* A page that is opened: the grid of rules and jobs asks for its list at once,
\* that of devices only after other requests.
FirstLists(p) == IF p = "devices" THEN <<>> ELSE <<FALSE>>

PaneInit ==
  /\ page \in Page
  /\ rows = {}
  /\ lists = FirstLists(page)
  /\ covered = TRUE
  /\ visible = FALSE
  /\ content = Blank
  /\ spinner = TRUE
  /\ target = NoItem
  /\ asks = NoAsks
  /\ posts = 0
  /\ raced = FALSE

PaneLoad(p) ==
  /\ page' = p
  /\ rows' = {}
  /\ lists' = FirstLists(p)
  /\ covered' = TRUE
  /\ visible' = FALSE
  /\ content' = Blank
  /\ spinner' = TRUE
  /\ target' = NoItem
  /\ asks' = NoAsks
  /\ posts' = 0
  /\ raced' = FALSE

-----------------------------------------------------------------------------
(* Requests for the pane.                                                  *)

Waiting == \E p \in Panel : asks[p] > 0
Overlaps(p) == \E q \in Panel \ {p} : asks[q] > 0

\* A request for panel p is sent; fresh says that what it asks for was chosen
\* just now, and not by an earlier message in the pane.
Ask(p, fresh) ==
  /\ asks[p] < MaxAsks
  /\ asks' = [asks EXCEPT ![p] = @ + 1]
  /\ raced' = (Overlaps(p) \/ (raced /\ (asks[p] > 0 \/ ~fresh)))

\* Mutant of Filled: a request that was aborted is answered all the same.
FilledUnasked(p, kind) ==
  /\ asks' = [asks EXCEPT ![p] = @ - 1]
  /\ spinner' = FALSE
  /\ content' = [kind |-> kind, of |-> p]
  /\ UNCHANGED <<target, posts, raced>>

\* Mutant of Filled: a failure does not uncover the pane.
FilledCovered(p, kind) ==
  /\ asks[p] > 0
  /\ asks' = [asks EXCEPT ![p] = @ - 1]
  /\ spinner' = (spinner /\ kind = "retry")
  /\ content' = [kind |-> kind, of |-> p]
  /\ UNCHANGED <<target, posts, raced>>

\* Its answer fills the pane, whatever has been asked for since; its failure
\* leaves a message with a button that tries again.
Filled(p, kind) ==
  /\ asks[p] > 0
  /\ asks' = [asks EXCEPT ![p] = @ - 1]
  /\ spinner' = FALSE
  /\ content' = [kind |-> kind, of |-> p]
  /\ UNCHANGED <<target, posts, raced>>

\* What is covered cannot be clicked.
PaneInReach == visible /\ ~spinner /\ ~covered

TogglePane ==
  /\ ~covered
  /\ visible' = ~visible
  /\ UNCHANGED <<listVars, content, spinner, target, asks, posts, raced>>

-----------------------------------------------------------------------------
(* Answers to list requests.                                               *)

\* The requests that are left when request i is answered: those sent before it
\* have been overtaken.
Without(i) == [j \in 1..(Len(lists) - 1) |-> IF j < i THEN TRUE ELSE lists[j + 1]]
Dropped(i) == [j \in 1..(Len(lists) - 1) |-> IF j < i THEN lists[j] ELSE lists[j + 1]]

ListFails(i) ==
  /\ lists' = Dropped(i)
  /\ covered' = FALSE
  /\ spinner' = FALSE
  /\ UNCHANGED <<rows, visible, content, target, asks, posts, raced>>

-----------------------------------------------------------------------------
PaneTypeOK ==
  /\ page \in Page
  /\ rows \in SUBSET Item
  /\ lists \in Seq(BOOLEAN)
  /\ covered \in BOOLEAN
  /\ visible \in BOOLEAN
  /\ content \in Content
  /\ spinner \in BOOLEAN
  /\ target \in Item \cup {NoItem}
  /\ asks \in [Panel -> Nat]
  /\ posts \in Nat
  /\ raced \in BOOLEAN
=============================================================================
