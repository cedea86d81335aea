---------------------------- MODULE PortalProofs ----------------------------
(***************************************************************************)
(* The pages of rules and jobs keep IInv and the page of devices keeps     *)
(* DeviceInv, for any items and bounds, in a window that may be on any     *)
(* page.                                                                   *)
(*                                                                         *)
(* What the buttons act on is what the pane shows because, unless requests *)
(* overlapped, only details of the target are on their way (OnlyTarget;    *)
(* Alone for the page of devices).  The page of jobs has at most one list  *)
(* request (OneJobList), and each of the two halves leaves the variables   *)
(* of the other as they are (OffGrid, ElsewhereStep).  A draw keeps the    *)
(* selected device because the row its timer will select is that of the    *)
(* cookie (Timers).                                                        *)
(***************************************************************************)
EXTENDS Portal, TLAPS

Typed == OnGrid => PaneTypeOK

OnlyTarget ==
  OnGrid /\ ~raced => \A p \in Panel : asks[p] > 0 => p = target

\* What is asked for or left in the pane was asked for by the target.
AskedTarget == OnGrid /\ (Waiting \/ content.kind # "blank") => target \in Item

OneJobList == page = "jobs" => Len(lists) <= 1

OffGrid == ~OnGrid => deflt = NoItem /\ mark = NoItem

\* The parts of the invariant that only the requests for the pane can disturb.
PaneInv == ButtonsActOnShown /\ OnlyTarget /\ AskedTarget

\* Those that the list and the selection can.
ListInv == CoveredForList /\ NoOldJobs /\ OneJobList
MarkInv == GridTypeOK /\ DefaultIsDrawn /\ MarkIsTarget /\ OffGrid

IInv == Typed /\ PaneInv /\ ListInv /\ MarkInv /\ PaneSpinsForAnswer

-----------------------------------------------------------------------------
\* The numbers of requests stay a function; the panel that was asked for has one.
LEMMA AskStep ==
  ASSUME PaneTypeOK, NEW x \in Item, NEW fresh \in BOOLEAN, Ask(x, fresh)
  PROVE  /\ asks' \in [Panel -> Nat]
         /\ asks'[x] > 0
         /\ \A p \in Panel \ {x} : asks'[p] = asks[p]
         /\ raced' \in BOOLEAN
         /\ fresh /\ ~raced' => \A p \in Panel \ {x} : ~(asks[p] > 0)
<1>1. x \in Panel /\ asks \in [Panel -> Nat] /\ raced \in BOOLEAN
  BY DEF Panel, PaneTypeOK
<1>2. asks' = [asks EXCEPT ![x] = @ + 1]
  BY DEF Ask
<1>3. asks[x] \in Nat
  BY <1>1
<1>4. asks' \in [Panel -> Nat] /\ asks'[x] > 0 /\ \A p \in Panel \ {x} : asks'[p] = asks[p]
  BY <1>1, <1>2, <1>3
<1>5. raced' = (Overlaps(x) \/ (raced /\ (asks[x] > 0 \/ ~fresh)))
  BY DEF Ask
<1>6. raced' \in BOOLEAN
  BY <1>5 DEF Overlaps
<1>7. ~raced' => \A p \in Panel \ {x} : ~(asks[p] > 0)
  BY <1>5 DEF Overlaps
<1> QED BY <1>4, <1>6, <1>7

\* Details of the target are asked for.
LEMMA AskedPane ==
  ASSUME PaneTypeOK, NEW x \in Item, Ask(x, TRUE), target' = x
  PROVE  PaneInv' /\ Waiting'
<1>1. /\ asks' \in [Panel -> Nat] /\ asks'[x] > 0
      /\ \A p \in Panel \ {x} : asks'[p] = asks[p]
      /\ ~raced' => \A p \in Panel \ {x} : ~(asks[p] > 0)
  BY AskStep, Zenon
<1>2. Waiting'
  BY <1>1 DEF Waiting, Panel
<1>3. OnlyTarget'
  <2>1. ASSUME ~raced', NEW p \in Panel, asks'[p] > 0 PROVE p = target'
    BY <1>1, <2>1
  <2> QED BY <2>1 DEF OnlyTarget
<1> QED BY <1>2, <1>3 DEF PaneInv, ButtonsActOnShown, AskedTarget

\* A request for details is over.
LEMMA FilledStep ==
  ASSUME IInv, OnGrid, NEW x \in Item, NEW kind \in {"shown", "retry"}, Filled(x, kind),
         page' = page
  PROVE  /\ PaneInv'
         /\ content' \in Content /\ asks' \in [Panel -> Nat] /\ raced' \in BOOLEAN
<1> USE DEF IInv
<1>1. PaneTypeOK /\ x \in Panel
  BY DEF Typed, Panel
<1>2. /\ asks \in [Panel -> Nat] /\ asks[x] > 0 /\ asks' = [asks EXCEPT ![x] = @ - 1]
      /\ content' = [kind |-> kind, of |-> x]
      /\ UNCHANGED <<target, raced>>
  BY <1>1 DEF Filled, PaneTypeOK
<1>3. asks' \in [Panel -> Nat] /\ \A p \in Panel : asks'[p] > 0 => asks[p] > 0
  BY <1>1, <1>2
<1>4. content' \in Content
  BY <1>1, <1>2 DEF Content
<1>5. Waiting
  BY <1>1, <1>2 DEF Waiting
<1>6. target \in Item
  BY <1>5 DEF PaneInv, AskedTarget
<1>7. ~raced => x = target
  BY <1>1, <1>2 DEF PaneInv, OnlyTarget
<1>8. OnlyTarget'
  BY <1>2, <1>3 DEF PaneInv, OnlyTarget, OnGrid
<1>9. ButtonsActOnShown' /\ AskedTarget'
  BY <1>2, <1>6, <1>7 DEF ButtonsActOnShown, AskedTarget
<1> QED BY <1>1, <1>2, <1>3, <1>4, <1>8, <1>9 DEF PaneInv, PaneTypeOK

\* Nothing is asked for and nothing comes.
LEMMA PaneKeeps ==
  ASSUME PaneInv, UNCHANGED <<page, target, asks, raced>>, content' \in {content, Blank}
  PROVE  PaneInv'
BY DEF PaneInv, ButtonsActOnShown, OnlyTarget, AskedTarget, Waiting, OnGrid, Blank

\* The requests left when a list has been answered or has failed.
LEMMA ListsLeft ==
  ASSUME PaneTypeOK, NEW i \in DOMAIN lists
  PROVE  /\ Without(i) \in Seq(BOOLEAN) /\ Len(Without(i)) = Len(lists) - 1
         /\ Dropped(i) \in Seq(BOOLEAN) /\ Len(Dropped(i)) = Len(lists) - 1
<1> DEFINE n == Len(lists) - 1
<1>1. /\ lists \in Seq(BOOLEAN) /\ n \in Nat /\ i \in 1..(n + 1)
      /\ \A j \in 1..(n + 1) : lists[j] \in BOOLEAN
  BY DEF PaneTypeOK
<1> HIDE DEF n
<1>2. ASSUME NEW j \in 1..n
      PROVE  /\ (IF j < i THEN TRUE ELSE lists[j + 1]) \in BOOLEAN
             /\ (IF j < i THEN lists[j] ELSE lists[j + 1]) \in BOOLEAN
  <2>1. j \in 1..(n + 1) /\ j + 1 \in 1..(n + 1)
    BY <1>1
  <2>2. lists[j] \in BOOLEAN /\ lists[j + 1] \in BOOLEAN
    BY <1>1, <2>1
  <2> QED BY <2>2, Zenon
<1>3. Without(i) \in [1..n -> BOOLEAN]
  BY <1>2, Zenon DEF Without, n
<1>4. Dropped(i) \in [1..n -> BOOLEAN]
  BY <1>2, Zenon DEF Dropped, n
<1> QED BY <1>1, <1>3, <1>4 DEF n
-----------------------------------------------------------------------------
\* One lemma for each kind of step; all but Load stay on the page.
LEMMA ListAnsweredStep ==
  ASSUME IInv, OnGrid, page' = page, NEW i \in DOMAIN lists, NEW snap \in SUBSET Item,
         ListAnswered(i, snap)
  PROVE  IInv'
<1> USE DEF IInv
<1>1. PaneTypeOK /\ OnGrid'
  BY DEF Typed, OnGrid
<1>2. /\ lists' \in Seq(BOOLEAN) /\ Len(lists') = Len(lists) - 1 /\ Len(lists) \in Nat
      /\ rows' = snap /\ covered' = FALSE /\ spinner' = FALSE /\ deflt' = Chosen(snap)
  BY <1>1, ListsLeft DEF ListAnswered, PaneTypeOK
<1>3. deflt' \in Item \cup {NoItem} /\ (deflt' # NoItem => deflt' \in snap)
  BY <1>2, PaneAssumption DEF Chosen
<1>4. ListInv'
  <2>1. page = "jobs" => Len(lists') <= 0
    BY <1>2 DEF ListInv, OneJobList
  <2> QED BY <1>2, <2>1 DEF ListInv, CoveredForList, NoOldJobs, OneJobList
<1>5. PaneSpinsForAnswer'
  BY <1>2 DEF PaneSpinsForAnswer
<1>6. CASE deflt' # NoItem
  <2>1. SelectRow(deflt') /\ deflt' \in Item
    BY <1>3, <1>6 DEF ListAnswered, Draw
  <2>2. /\ mark' = deflt' /\ selected' = deflt' /\ target' = deflt' /\ Ask(deflt', TRUE)
        /\ UNCHANGED <<visible, content, posts>>
    BY <2>1 DEF SelectRow
  <2>3. PaneInv' /\ asks' \in [Panel -> Nat] /\ raced' \in BOOLEAN
    BY <1>1, <2>1, <2>2, AskedPane, AskStep, Zenon
  <2>4. Typed'
    BY <1>1, <1>2, <2>1, <2>2, <2>3 DEF Typed, PaneTypeOK
  <2>5. MarkInv'
    BY <1>1, <1>2, <1>3, <2>2 DEF MarkInv, GridTypeOK, DefaultIsDrawn, MarkIsTarget, OffGrid
  <2> QED BY <1>4, <1>5, <2>3, <2>4, <2>5
<1>7. CASE deflt' = NoItem
  <2>1. CloseAndClear(NoItem)
    BY <1>7 DEF ListAnswered, Draw
  <2>2. /\ visible' = FALSE /\ content' = Blank /\ mark' = NoItem
        /\ UNCHANGED <<selected, target, asks, posts, raced>>
    BY <2>1 DEF CloseAndClear
  <2>3. PaneInv'
    BY <2>2, PaneKeeps
  <2>4. Typed'
    BY <1>1, <1>2, <2>2 DEF Typed, PaneTypeOK, Content, Blank
  <2>5. MarkInv'
    BY <1>7, <2>2 DEF MarkInv, GridTypeOK, DefaultIsDrawn, MarkIsTarget, OffGrid
  <2> QED BY <1>4, <1>5, <2>3, <2>4, <2>5
<1> QED BY <1>6, <1>7

LEMMA ListFailsStep ==
  ASSUME IInv, OnGrid, page' = page, NEW i \in DOMAIN lists, ListFails(i), UNCHANGED gridVars
  PROVE  IInv'
<1> USE DEF IInv
<1>1. PaneTypeOK
  BY DEF Typed
<1>2. /\ lists' \in Seq(BOOLEAN) /\ Len(lists') = Len(lists) - 1 /\ Len(lists) \in Nat
      /\ covered' = FALSE /\ spinner' = FALSE
      /\ UNCHANGED <<rows, visible, content, target, asks, posts, raced>>
  BY <1>1, ListsLeft DEF ListFails, PaneTypeOK
<1>3. ListInv'
  <2>1. page = "jobs" => Len(lists') <= 0
    BY <1>2 DEF ListInv, OneJobList
  <2> QED BY <1>2, <2>1 DEF ListInv, CoveredForList, NoOldJobs, OneJobList
<1>4. Typed' /\ PaneSpinsForAnswer'
  BY <1>1, <1>2 DEF Typed, PaneTypeOK, PaneSpinsForAnswer
<1>5. PaneInv'
  BY <1>2, PaneKeeps
<1>6. MarkInv'
  BY <1>2 DEF gridVars, MarkInv, GridTypeOK, DefaultIsDrawn, MarkIsTarget, OffGrid, OnGrid
<1> QED BY <1>3, <1>4, <1>5, <1>6

LEMMA DetailsStep ==
  ASSUME IInv, OnGrid, page' = page, NEW x \in Item, DetailsShown(x) \/ DetailsRefused(x)
  PROVE  IInv'
<1> USE DEF IInv
<1>1. PaneTypeOK
  BY DEF Typed
<1>2. PICK kind \in {"shown", "retry"} : Filled(x, kind)
  BY DEF DetailsShown, DetailsRefused
<1>3. /\ PaneInv' /\ content' \in Content /\ asks' \in [Panel -> Nat] /\ raced' \in BOOLEAN
      /\ spinner' = FALSE /\ UNCHANGED <<target, posts, listVars, gridVars>>
  <2>1. /\ PaneInv' /\ content' \in Content /\ asks' \in [Panel -> Nat] /\ raced' \in BOOLEAN
    BY <1>2, FilledStep
  <2>2. spinner' = FALSE /\ UNCHANGED <<target, posts, listVars, gridVars>>
    BY <1>2 DEF Filled, DetailsShown, DetailsRefused
  <2> QED BY <2>1, <2>2
<1>4. visible' \in BOOLEAN
  BY <1>1 DEF DetailsShown, DetailsRefused, PaneTypeOK
<1>5. Typed' /\ PaneSpinsForAnswer'
  BY <1>1, <1>3, <1>4 DEF Typed, PaneTypeOK, PaneSpinsForAnswer, listVars
<1>6. MarkInv'
  BY <1>3 DEF gridVars, listVars, MarkInv, GridTypeOK, DefaultIsDrawn, MarkIsTarget, OffGrid, OnGrid
<1>7. ListInv'
  BY <1>3 DEF listVars, ListInv, CoveredForList, NoOldJobs, OneJobList, OnGrid
<1> QED BY <1>3, <1>5, <1>6, <1>7

LEMMA ChangeAnsweredStep ==
  ASSUME IInv, OnGrid, page' = page, NEW ok \in BOOLEAN, ChangeAnswered(ok)
  PROVE  IInv'
<1> USE DEF IInv
<1>1. PaneTypeOK
  BY DEF Typed
<1>2. /\ posts' \in Nat
      /\ UNCHANGED <<rows, gridVars, visible, content, target, asks, raced>>
  BY <1>1 DEF ChangeAnswered, PaneTypeOK
<1>3. PaneInv'
  BY <1>2, PaneKeeps
<1>4. MarkInv'
  BY <1>2 DEF gridVars, MarkInv, GridTypeOK, DefaultIsDrawn, MarkIsTarget, OffGrid, OnGrid
<1>5. CASE ok
  <2>1. Reload
    BY <1>5 DEF ChangeAnswered
  <2>2. CASE page = "jobs"
    <3>1. lists' = <<FALSE>> /\ covered' \in BOOLEAN /\ spinner' \in BOOLEAN
      BY <2>1, <2>2 DEF Reload
    <3>2. Len(lists') = 1 /\ lists'[1] = FALSE /\ lists' \in Seq(BOOLEAN) /\ lists' # <<>>
          /\ DOMAIN lists' = {1}
      BY <3>1
    <3>3. ListInv' /\ PaneSpinsForAnswer'
      BY <3>2 DEF ListInv, CoveredForList, NoOldJobs, OneJobList, PaneSpinsForAnswer
    <3>4. Typed'
      BY <1>1, <1>2, <3>1, <3>2 DEF Typed, PaneTypeOK
    <3> QED BY <1>3, <1>4, <3>3, <3>4
  <2>3. CASE page # "jobs"
    <3>1. lists' = Append(lists, FALSE) /\ covered' = TRUE /\ spinner' = FALSE
      BY <2>1, <2>3 DEF Reload
    <3>2. lists' \in Seq(BOOLEAN) /\ lists' # <<>>
      <4>1. lists \in Seq(BOOLEAN) /\ Len(lists) \in Nat
        BY <1>1 DEF PaneTypeOK
      <4>2. lists' \in Seq(BOOLEAN) /\ Len(lists') = Len(lists) + 1
        BY <3>1, <4>1
      <4> QED BY <4>1, <4>2
    <3>3. ListInv' /\ PaneSpinsForAnswer'
      BY <2>3, <3>1, <3>2 DEF ListInv, CoveredForList, NoOldJobs, OneJobList, PaneSpinsForAnswer
    <3>4. Typed'
      BY <1>1, <1>2, <3>1, <3>2 DEF Typed, PaneTypeOK
    <3> QED BY <1>3, <1>4, <3>3, <3>4
  <2> QED BY <2>2, <2>3
<1>6. CASE ~ok
  <2>1. spinner' = (spinner /\ page = "jobs") /\ UNCHANGED <<lists, covered>>
    BY <1>6 DEF ChangeAnswered
  <2>2. ListInv' /\ PaneSpinsForAnswer'
    BY <1>2, <2>1 DEF ListInv, CoveredForList, NoOldJobs, OneJobList, PaneSpinsForAnswer,
                      OnGrid, Waiting
  <2>3. Typed'
    BY <1>1, <1>2, <2>1 DEF Typed, PaneTypeOK
  <2> QED BY <1>3, <1>4, <2>2, <2>3
<1> QED BY <1>5, <1>6
\* A row is selected: by a click or by a draw without a new list.
LEMMA SelectStep ==
  ASSUME IInv, OnGrid, page' = page, NEW x \in Item, SelectRow(x),
         spinner' \in BOOLEAN, UNCHANGED <<listVars, deflt>>
  PROVE  IInv'
<1> USE DEF IInv
<1>1. PaneTypeOK
  BY DEF Typed
<1>2. /\ mark' = x /\ selected' = x /\ target' = x /\ Ask(x, TRUE)
      /\ UNCHANGED <<visible, content, posts, rows, lists, covered, deflt>>
  BY DEF SelectRow, listVars
<1>3. PaneInv' /\ Waiting' /\ asks' \in [Panel -> Nat] /\ raced' \in BOOLEAN
  BY <1>1, <1>2, AskedPane, AskStep, Zenon
<1>4. Typed'
  BY <1>1, <1>2, <1>3 DEF Typed, PaneTypeOK
<1>5. PaneSpinsForAnswer'
  BY <1>3 DEF PaneSpinsForAnswer
<1>6. ListInv'
  BY <1>2 DEF ListInv, CoveredForList, NoOldJobs, OneJobList, OnGrid
<1>7. MarkInv'
  BY <1>2 DEF MarkInv, GridTypeOK, DefaultIsDrawn, MarkIsTarget, OffGrid, OnGrid
<1> QED BY <1>3, <1>4, <1>5, <1>6, <1>7

LEMMA SortStep ==
  ASSUME IInv, OnGrid, page' = page, SortOrPage
  PROVE  IInv'
<1> USE DEF IInv
<1>1. PaneTypeOK
  BY DEF Typed
<1>2. spinner' = (spinner \/ deflt # NoItem) /\ UNCHANGED <<listVars, deflt>>
  BY DEF SortOrPage
<1>3. CASE deflt # NoItem
  <2>1. SelectRow(deflt) /\ deflt \in Item
    BY <1>3 DEF SortOrPage, Draw, MarkInv, GridTypeOK
  <2>2. spinner' \in BOOLEAN
    BY <1>2
  <2> QED BY <1>2, <2>1, <2>2, SelectStep
<1>4. CASE deflt = NoItem
  <2>1. /\ visible' = FALSE /\ content' = Blank
        /\ UNCHANGED <<mark, selected, target, asks, posts, raced>>
    BY <1>4 DEF SortOrPage, Draw, CloseAndClear
  <2>2. spinner' = spinner
    BY <1>1, <1>2, <1>4 DEF PaneTypeOK
  <2>3. PaneInv'
    BY <2>1, PaneKeeps
  <2>4. Typed' /\ PaneSpinsForAnswer'
    <3>1. Blank \in Content
      BY DEF Blank, Content
    <3>2. Typed'
      BY <1>1, <1>2, <2>1, <2>2, <3>1 DEF Typed, PaneTypeOK, listVars
    <3>3. PaneSpinsForAnswer'
      BY <1>2, <2>1, <2>2 DEF PaneSpinsForAnswer, listVars, Waiting, OnGrid
    <3> QED BY <3>2, <3>3
  <2>5. ListInv' /\ MarkInv'
    BY <1>2, <2>1 DEF listVars, ListInv, CoveredForList, NoOldJobs, OneJobList, MarkInv,
                      GridTypeOK, DefaultIsDrawn, MarkIsTarget, OffGrid, OnGrid
  <2> QED BY <2>3, <2>4, <2>5
<1> QED BY <1>3, <1>4

\* The message in the pane is there for the target.
LEMMA RetryStep ==
  ASSUME IInv, OnGrid, page' = page, RetryDetails
  PROVE  IInv'
<1> USE DEF IInv
<1>1. PaneTypeOK
  BY DEF Typed
<1>2. /\ content.kind = "retry" /\ Ask(target, TRUE) /\ spinner' = TRUE
      /\ UNCHANGED <<listVars, gridVars, visible, content, target, posts>>
  BY DEF RetryDetails
<1>3. target \in Item
  BY <1>2 DEF PaneInv, AskedTarget
<1>4. PaneInv' /\ Waiting' /\ asks' \in [Panel -> Nat] /\ raced' \in BOOLEAN
  BY <1>1, <1>2, <1>3, AskedPane, AskStep, Zenon
<1>5. Typed' /\ PaneSpinsForAnswer'
  BY <1>1, <1>2, <1>4 DEF Typed, PaneTypeOK, PaneSpinsForAnswer, listVars
<1>6. ListInv' /\ MarkInv'
  BY <1>2 DEF listVars, gridVars, ListInv, CoveredForList, NoOldJobs, OneJobList, MarkInv,
              GridTypeOK, DefaultIsDrawn, MarkIsTarget, OffGrid, OnGrid
<1> QED BY <1>4, <1>5, <1>6

LEMMA SendOrToggleStep ==
  ASSUME IInv, OnGrid, page' = page, SendChange \/ (TogglePane /\ UNCHANGED gridVars)
  PROVE  IInv'
<1> USE DEF IInv
<1>1. PaneTypeOK
  BY DEF Typed
<1>2. UNCHANGED <<listVars, gridVars, content, target, asks, raced>>
  BY DEF SendChange, TogglePane
<1>3. visible' \in BOOLEAN /\ posts' \in Nat /\ spinner' \in BOOLEAN
  <2>1. CASE SendChange
    <3>1. visible' = visible /\ posts' = posts + 1 /\ spinner' = (page = "rules")
      BY <2>1 DEF SendChange
    <3> QED BY <1>1, <3>1 DEF PaneTypeOK
  <2>2. CASE TogglePane
    <3>1. visible' = ~visible /\ UNCHANGED <<posts, spinner>>
      BY <2>2 DEF TogglePane
    <3> QED BY <1>1, <3>1 DEF PaneTypeOK
  <2> QED BY <2>1, <2>2
<1>4. PaneInv'
  BY <1>2, PaneKeeps
<1>5. Typed'
  BY <1>1, <1>2, <1>3 DEF Typed, PaneTypeOK, listVars
<1>6. PaneSpinsForAnswer'
  <2>1. CASE SendChange
    <3>1. posts' = posts + 1 /\ spinner' = (page = "rules")
      BY <2>1 DEF SendChange
    <3>2. posts' > 0
      BY <1>1, <3>1 DEF PaneTypeOK
    <3>3. spinner' => page' = "rules"
      BY <3>1
    <3> QED BY <3>2, <3>3 DEF PaneSpinsForAnswer
  <2>2. CASE TogglePane
    BY <1>2, <2>2 DEF TogglePane, PaneSpinsForAnswer, OnGrid, Waiting, listVars
  <2> QED BY <2>1, <2>2
<1>7. ListInv' /\ MarkInv'
  BY <1>2 DEF listVars, gridVars, ListInv, CoveredForList, NoOldJobs, OneJobList, MarkInv,
              GridTypeOK, DefaultIsDrawn, MarkIsTarget, OffGrid, OnGrid
<1> QED BY <1>4, <1>5, <1>6, <1>7

LEMMA GridStep ==
  ASSUME IInv, GridNext
  PROVE  IInv'
<1>1. OnGrid /\ page' = page
  BY DEF GridNext
<1>2. CASE GridAnswer
  BY <1>1, <1>2, ListAnsweredStep, ListFailsStep, DetailsStep, ChangeAnsweredStep DEF GridAnswer
<1>3. ASSUME NEW x \in Item, ClickRow(x) PROVE IInv'
  <2>1. SelectRow(x) /\ spinner' \in BOOLEAN /\ UNCHANGED <<listVars, deflt>>
    BY <1>3 DEF ClickRow
  <2> QED BY <1>1, <2>1, SelectStep
<1>4. CASE GridUser
  BY <1>1, <1>3, <1>4, SortStep, RetryStep, SendOrToggleStep DEF GridUser
<1> QED BY <1>2, <1>4 DEF GridNext

-----------------------------------------------------------------------------
FreshPage ==
  /\ page \in Page
  /\ rows = {} /\ lists = FirstLists(page) /\ covered = TRUE
  /\ visible = FALSE /\ content = Blank /\ spinner = TRUE
  /\ target = NoItem /\ asks = NoAsks /\ posts = 0 /\ raced = FALSE
  /\ selected \in FirstSelected(page) /\ deflt = NoItem /\ mark = NoItem

\* A page that is opened, for the first time or again.
LEMMA Opened == FreshPage => IInv
<1> SUFFICES ASSUME FreshPage PROVE IInv
  OBVIOUS
<1> USE DEF FreshPage
<1>1. lists \in Seq(BOOLEAN) /\ (page # "devices" => lists = <<FALSE>>)
  <2>1. <<FALSE>> \in Seq(BOOLEAN) /\ <<>> \in Seq(BOOLEAN)
    OBVIOUS
  <2> QED BY <2>1, Zenon DEF FirstLists
<1>2. asks \in [Panel -> Nat] /\ \A p \in Panel : asks[p] = 0
  BY DEF NoAsks
<1>3. Typed
  BY <1>1, <1>2 DEF Typed, PaneTypeOK, Content, Blank
<1>4. PaneInv
  BY <1>2 DEF PaneInv, ButtonsActOnShown, OnlyTarget, AskedTarget, Waiting, Blank
<1>5. OnGrid => Len(lists) = 1 /\ lists # <<>> /\ lists[1] = FALSE /\ DOMAIN lists = {1}
  <2>1. OnGrid => lists = <<FALSE>>
    BY <1>1 DEF OnGrid
  <2>2. Len(<<FALSE>>) = 1 /\ <<FALSE>> # <<>> /\ <<FALSE>>[1] = FALSE
    OBVIOUS
  <2>3. DOMAIN <<FALSE>> = {1}
    OBVIOUS
  <2> QED BY <2>1, <2>2, <2>3, Zenon
<1>6. ListInv /\ PaneSpinsForAnswer
  BY <1>5 DEF ListInv, CoveredForList, NoOldJobs, OneJobList, PaneSpinsForAnswer, OnGrid
<1>7. MarkInv
  BY DEF MarkInv, GridTypeOK, DefaultIsDrawn, MarkIsTarget, OffGrid, FirstSelected
<1> QED BY <1>3, <1>4, <1>6, <1>7 DEF IInv

\* A window on the page of devices.
LEMMA DevicesStep ==
  ASSUME IInv, OnDevices, page' = page, UNCHANGED gridVars
  PROVE  IInv'
<1>1. ~OnGrid /\ ~OnGrid' /\ page' # "jobs"
  BY DEF OnDevices, OnGrid
<1>2. deflt' = NoItem /\ mark' = NoItem /\ selected' = selected
  BY <1>1 DEF IInv, MarkInv, OffGrid, gridVars
<1>3. MarkInv'
  BY <1>2 DEF IInv, MarkInv, GridTypeOK, DefaultIsDrawn, MarkIsTarget, OffGrid
<1> QED BY <1>1, <1>3
        DEF IInv, Typed, PaneInv, ButtonsActOnShown, OnlyTarget, AskedTarget, ListInv,
            CoveredForList, NoOldJobs, OneJobList, PaneSpinsForAnswer

LEMMA InitInv == PortalInit => IInv
BY Opened DEF PortalInit, PaneInit, GridInit, FreshPage

LEMMA NextInv == IInv /\ [PortalNext]_portalVars => IInv'
<1> SUFFICES ASSUME IInv, [PortalNext]_portalVars PROVE IInv'
  OBVIOUS
<1>1. CASE GridNext
  BY <1>1, GridStep
<1>2. CASE DeviceNext /\ UNCHANGED gridVars
  BY <1>2, DevicesStep DEF DeviceNext
<1>3. ASSUME NEW p \in Page, Load(p) PROVE IInv'
  <2>1. FreshPage'
    BY <1>3 DEF Load, PaneLoad, GridLoad, FreshPage
  <2> QED BY <2>1, Opened, PTL
<1>4. CASE UNCHANGED portalVars
  BY <1>4 DEF portalVars, sharedVars, listVars, paneVars, gridVars, IInv, Typed, PaneTypeOK,
              PaneInv, ButtonsActOnShown, OnlyTarget, AskedTarget, ListInv, CoveredForList,
              NoOldJobs, OneJobList, PaneSpinsForAnswer, MarkInv, GridTypeOK, DefaultIsDrawn,
              MarkIsTarget, OffGrid, OnGrid, Waiting
<1> QED BY <1>1, <1>2, <1>3, <1>4 DEF PortalNext, Navigate, RemoveDevice, Page

LEMMA Invariance == PortalSpec => []IInv
BY InitInv, NextInv, PTL DEF PortalSpec

-----------------------------------------------------------------------------
(* The page of devices.                                                    *)

\* The request whose answer or message is in the pane, or that is on its way,
\* says what the buttons act on; a message names what it is about.
PaneKnown ==
  /\ \A x \in Item : asks[x] > 0 => target \in Item
  /\ content.of \in Item \/ change.kind = "sim" => target \in Item
  /\ content.kind = "retry" => content.of \in Panel

\* Until its table is made again there is room for one.
TableKnown ==
  /\ boot # "done" => bound < MaxTicks
  /\ OnDevices /\ boot = "done" => bound > 0

DTyped == DeviceTypeOK /\ TableKnown /\ (OnDevices => PaneTypeOK /\ PaneKnown)

-----------------------------------------------------------------------------
(* The steps of the page of devices: those before there is a table, those  *)
(* of the grid that leave the requests of the pane alone, those of the     *)
(* pane; the others open something in the pane.                            *)

BootStep ==
  \/ ColumnsRead \/ ColumnsFailed \/ RetryColumns \/ FilterAnswered
  \/ \E ok \in BOOLEAN : ClausesAnswered(ok)

GridSteps ==
  \/ ListAgain \/ FilterOpened \/ SelectedOpened \/ SelectedSaved \/ SavingFailed
  \/ \E i \in DOMAIN lists :
       (\E snap \in SUBSET Item : DevicesListed(i, snap)) \/ DevicesRefused(i)
  \/ \E x \in Item : CheckDevice(x)
  \/ \E what \in {"keep", "open", "job"} : SaveSelected(what)
  \/ TogglePane /\ PaneKept /\ UNCHANGED <<bootVars, asked, loader, keys, workVars>>

PaneSteps ==
  \/ \E p \in Panel : PanelShown(p) \/ PanelRefused(p)
  \/ FilterSaved \/ RetryPanel
  \/ \E kind \in DeviceChange \cup {"columns"} : SendDeviceChange(kind)
  \/ StatusAnswered \/ SimRemoved \/ SimKept \/ ColumnsSaved \/ ColumnsKept
  \/ \E ok \in BOOLEAN : KeysAnswered(ok)

LEMMA DeviceSteps ==
  ASSUME DeviceNext
  PROVE  /\ OnDevices /\ OnDevices' /\ page' = page
         /\ \/ Tick
            \/ ticks = 0 /\ (\/ BootStep \/ GridSteps \/ PaneSteps \/ EditColumns \/ ScheduleJob
                             \/ \E x \in Item : ClickDevice(x))
<1>1. OnDevices /\ OnDevices' /\ page' = page
  BY DEF DeviceNext, OnDevices
<1>2. CASE DeviceAnswer
  BY <1>1, <1>2 DEF DeviceAnswer, DeviceNext, BootStep, GridSteps, PaneSteps
<1>3. CASE DeviceUser
  BY <1>1, <1>3 DEF DeviceUser, DeviceNext, BootStep, GridSteps, PaneSteps
<1> QED BY <1>1, <1>2, <1>3 DEF DeviceNext

LEMMA BoundsNatural == MaxTicks \in Nat \ {0} /\ MaxPanels \in Nat \ {0}
BY DevicePageAssumption

LEMMA LeftTyped ==
  ASSUME PaneTypeOK, DeviceTypeOK
  PROVE  /\ Left \in [Panel -> Nat]
         /\ \A p \in Panel : Left[p] > 0 => asks[p] > 0
         /\ Aborted => loader \in Panel /\ asks[loader] > 0
<1>1. asks \in [Panel -> Nat]
  BY DEF PaneTypeOK
<1>2. Aborted => loader \in Panel /\ asks[loader] > 0 /\ asks[loader] \in Nat
  BY <1>1 DEF Aborted, DeviceTypeOK, Editor, Panel
<1>3. CASE Aborted
  BY <1>1, <1>2, <1>3 DEF Left
<1>4. CASE ~Aborted
  BY <1>1, <1>4 DEF Left
<1> QED BY <1>2, <1>3, <1>4

LEMMA AmongStep ==
  ASSUME NEW left \in [Panel -> Nat], NEW p \in Panel, NEW fresh \in BOOLEAN, raced \in BOOLEAN,
         AskAmong(left, p, fresh)
  PROVE  /\ asks' \in [Panel -> Nat] /\ raced' \in BOOLEAN /\ asked' = p
         /\ Waiting' /\ asks'[p] > 0
         /\ \A q \in Panel \ {p} : asks'[q] = left[q]
         /\ ~raced' => /\ \A q \in Panel \ {p} : ~(left[q] > 0)
                       /\ change.kind \notin {"sim", "keys"}
                       /\ raced => fresh
<1>1. asks' = [left EXCEPT ![p] = @ + 1] /\ left[p] \in Nat /\ asked' = p
  BY DEF AskAmong
<1>2. raced' = (\/ \E q \in Panel \ {p} : left[q] > 0
                \/ change.kind \in {"sim", "keys"}
                \/ raced /\ (left[p] > 0 \/ ~fresh))
  BY DEF AskAmong
<1>3. asks' \in [Panel -> Nat] /\ asks'[p] > 0 /\ \A q \in Panel \ {p} : asks'[q] = left[q]
  BY <1>1
<1>4. Waiting'
  BY <1>3 DEF Waiting
<1>5. raced' \in BOOLEAN
  BY <1>2
<1>6. ~raced' => /\ \A q \in Panel \ {p} : ~(left[q] > 0)
                 /\ change.kind \notin {"sim", "keys"}
                 /\ raced => fresh
  BY <1>2
<1> QED BY <1>1, <1>3, <1>4, <1>5, <1>6

\* What SelectDevice, EditColumns and ScheduleJob do to the pane.
LEMMA ShowStep ==
  ASSUME PaneTypeOK, DeviceTypeOK, ShowDetails
  PROVE  visible' \in BOOLEAN /\ content' \in Content /\ keys' \in Item \cup {NoItem}
<1>1. Aborted => [kind |-> "retry", of |-> loader] \in Content
  BY LeftTyped DEF Content
<1> QED BY <1>1 DEF ShowDetails, PaneTypeOK, DeviceTypeOK

LEMMA TableListed ==
  ASSUME AskList
  PROVE  lists' \in Seq(BOOLEAN) /\ lists' # <<>> /\ covered' \in BOOLEAN /\ spinner' = covered'
BY DEF AskList, Cover

-----------------------------------------------------------------------------
\* Types, one lemma for each group of steps.
LEMMA BootTyped ==
  ASSUME DTyped, OnDevices, page' = page, BootStep
  PROVE  DTyped'
<1> USE DEF BootStep
<1>1. PaneTypeOK /\ PaneKnown /\ DeviceTypeOK /\ TableKnown /\ OnDevices'
  BY DEF DTyped, OnDevices
<1>2. BootKept
  BY DEF ColumnsRead, ColumnsFailed, RetryColumns, ClausesAnswered, FilterAnswered
<1>3. PaneKnown'
  BY <1>1, <1>2 DEF BootKept, PaneKnown, workVars
<1>4. /\ boot' \in Boot /\ filterReady' \in BOOLEAN
      /\ bound' \in 0..MaxTicks /\ TableKnown'
  <2>1. boot # "done" /\ bound < MaxTicks /\ bound \in Nat /\ MaxTicks \in Nat
    <3>1. boot \in {"columns", "retry", "clauses", "filter"}
      BY DEF ColumnsRead, ColumnsFailed, RetryColumns, ClausesAnswered, FilterAnswered
    <3> QED BY <1>1, <3>1, BoundsNatural DEF DeviceTypeOK, TableKnown
  <2>2. filterReady' \in BOOLEAN
    BY <1>1 DEF ColumnsRead, ColumnsFailed, RetryColumns, ClausesAnswered, FilterAnswered,
           DeviceTypeOK
  <2>3. CASE MakeTable
    BY <2>1, <2>2, <2>3 DEF MakeTable, TableKnown, Boot
  <2>4. CASE ~MakeTable
    <3>1. bound' = bound /\ boot' \in Boot \ {"off", "done"}
      BY <2>4 DEF ColumnsRead, ColumnsFailed, RetryColumns, ClausesAnswered, FilterAnswered, Boot
    <3> QED BY <2>1, <2>2, <3>1 DEF TableKnown
  <2> QED BY <2>3, <2>4
<1>5. lists' \in Seq(BOOLEAN) /\ covered' \in BOOLEAN /\ spinner' \in BOOLEAN
  BY <1>1, TableListed
     DEF ColumnsRead, ColumnsFailed, RetryColumns, ClausesAnswered, FilterAnswered, MakeTable,
         PaneTypeOK, Cover
<1>6. PaneTypeOK'
  BY <1>1, <1>2, <1>5 DEF PaneTypeOK, BootKept
<1>7. DeviceTypeOK'
  BY <1>1, <1>2, <1>4 DEF DeviceTypeOK, BootKept, workVars
<1> QED BY <1>3, <1>4, <1>6, <1>7 DEF DTyped

LEMMA SelectDeviceTyped ==
  ASSUME DTyped, OnDevices, page' = page, NEW x \in Item, SelectDevice(x),
         multi' \in SUBSET Item, choice' \in Item \cup {NoItem}, known' \in BOOLEAN,
         ticks' \in 0..MaxTicks, UNCHANGED <<listVars, posts, bootVars, workVars>>
  PROVE  DTyped'
<1>1. PaneTypeOK /\ PaneKnown /\ DeviceTypeOK /\ TableKnown /\ OnDevices' /\ x \in Panel
  BY DEF DTyped, OnDevices, Panel
<1>2. /\ marked' = {x} /\ cookie' = x /\ ShowDetails /\ AskAmong(Left, x, TRUE)
      /\ spinner' = TRUE /\ target' = x /\ loader' = "none"
  BY DEF SelectDevice
<1>3. visible' \in BOOLEAN /\ content' \in Content /\ keys' \in Item \cup {NoItem}
  BY <1>1, <1>2, ShowStep
<1>4. Left \in [Panel -> Nat] /\ raced \in BOOLEAN
  BY <1>1, LeftTyped DEF PaneTypeOK
<1>5. asks' \in [Panel -> Nat] /\ raced' \in BOOLEAN /\ asked' = x
  BY <1>1, <1>2, <1>4, AmongStep
<1>6. PaneTypeOK'
  BY <1>1, <1>2, <1>3, <1>5 DEF PaneTypeOK, listVars
<1>7. content'.kind = "retry" => content'.of \in Panel
  BY <1>1, <1>2, LeftTyped DEF ShowDetails, PaneKnown
<1>8. PaneKnown'
  BY <1>2, <1>7 DEF PaneKnown
<1>9. DeviceTypeOK'
  BY <1>1, <1>2, <1>3, <1>5 DEF DeviceTypeOK, bootVars, workVars, Panel
<1>10. TableKnown'
  BY <1>1 DEF TableKnown, bootVars, OnDevices
<1> QED BY <1>6, <1>8, <1>9, <1>10 DEF DTyped

LEMMA OpenTyped ==
  ASSUME DTyped, OnDevices, page' = page, EditColumns \/ ScheduleJob
  PROVE  DTyped'
<1>1. PaneTypeOK /\ PaneKnown /\ DeviceTypeOK /\ TableKnown /\ OnDevices'
  BY DEF DTyped, OnDevices
<1>2. /\ marked' = {} /\ cookie' = NoItem /\ ShowDetails
      /\ UNCHANGED <<rows, lists, target, posts, bootVars, choice, known, ticks, multi, change>>
  BY DEF EditColumns, ScheduleJob, listVars, workVars
<1>3. visible' \in BOOLEAN /\ content' \in Content /\ keys' \in Item \cup {NoItem}
  BY <1>1, <1>2, ShowStep
<1>4. Left \in [Panel -> Nat] /\ raced \in BOOLEAN /\ \A p \in Panel : Left[p] > 0 => asks[p] > 0
  BY <1>1, LeftTyped DEF PaneTypeOK
<1>5. /\ asks' \in [Panel -> Nat] /\ raced' \in BOOLEAN /\ asked' \in Panel \cup {NoItem}
      /\ \A x \in Item : asks'[x] > 0 => asks[x] > 0
  <2>1. ASSUME NEW p \in Editor, AskAmong(Left, p, TRUE)
        PROVE  /\ asks' \in [Panel -> Nat] /\ raced' \in BOOLEAN /\ asked' \in Panel
               /\ \A x \in Item : asks'[x] > 0 => asks[x] > 0
    <3>1. p \in Panel /\ \A x \in Item : x \in Panel \ {p}
      BY PaneAssumption DEF Panel, Editor
    <3>2. asks' \in [Panel -> Nat] /\ raced' \in BOOLEAN /\ asked' = p
          /\ \A q \in Panel \ {p} : asks'[q] = Left[q]
      BY <1>4, <2>1, <3>1, AmongStep
    <3> QED BY <1>4, <3>1, <3>2
  <2>2. CASE asks' = Left /\ UNCHANGED <<raced, asked>>
    BY <1>1, <1>4, <2>2 DEF DeviceTypeOK, Panel
  <2>3. "columns" \in Editor /\ "schedule" \in Editor
    BY DEF Editor
  <2> QED BY <2>1, <2>2, <2>3 DEF EditColumns, ScheduleJob
<1>6. /\ covered' \in BOOLEAN /\ spinner' \in BOOLEAN /\ loader' \in Editor \cup {"none"}
      /\ saving' \in {"no", "filter", "keep", "open", "opening", "job", "lost"}
  BY <1>1 DEF EditColumns, ScheduleJob, PaneTypeOK, DeviceTypeOK, Cover, Editor, listVars, workVars
<1>7. PaneTypeOK'
  BY <1>1, <1>2, <1>3, <1>5, <1>6 DEF PaneTypeOK
<1>8. content'.kind = "retry" => content'.of \in Panel
  BY <1>1, <1>2, LeftTyped DEF ShowDetails, PaneKnown
<1>9. content'.of \in Item => content.of \in Item
  BY <1>1, <1>2, PaneAssumption DEF ShowDetails, DeviceTypeOK, Editor, Aborted
<1>10. PaneKnown'
  BY <1>1, <1>2, <1>5, <1>8, <1>9 DEF PaneKnown
<1>11. DeviceTypeOK' /\ TableKnown'
  BY <1>1, <1>2, <1>3, <1>5, <1>6 DEF DeviceTypeOK, TableKnown, bootVars, OnDevices
<1> QED BY <1>7, <1>10, <1>11 DEF DTyped

\* Nothing is asked for in the pane, and at most it is emptied.
LEMMA PaneLeftTyped ==
  ASSUME DTyped, OnDevices, page' = page,
         UNCHANGED <<target, asks, posts, raced, loader, asked, change, bootVars>>,
         content' \in {content, Blank}, keys' \in {keys, NoItem},
         rows' \in SUBSET Item, lists' \in Seq(BOOLEAN),
         covered' \in BOOLEAN, spinner' \in BOOLEAN, visible' \in BOOLEAN,
         cookie' \in Item \cup {NoItem}, marked' \in SUBSET Item, multi' \in SUBSET Item,
         choice' \in Item \cup {NoItem}, known' \in BOOLEAN, ticks' \in 0..MaxTicks,
         saving' \in {"no", "filter", "keep", "open", "opening", "job", "lost"}
  PROVE  DTyped'
<1>1. PaneTypeOK /\ PaneKnown /\ DeviceTypeOK /\ TableKnown /\ OnDevices'
  BY DEF DTyped, OnDevices
<1>2. PaneTypeOK'
  BY <1>1 DEF PaneTypeOK, Content, Blank
<1>3. PaneKnown'
  BY <1>1, PaneAssumption DEF PaneKnown, Blank
<1>4. DeviceTypeOK'
  BY <1>1 DEF DeviceTypeOK, bootVars
<1>5. TableKnown'
  BY <1>1 DEF TableKnown, bootVars, OnDevices
<1> QED BY <1>2, <1>3, <1>4, <1>5 DEF DTyped

LEMMA GridTyped ==
  ASSUME DTyped, OnDevices, page' = page, GridSteps
  PROVE  DTyped'
<1>1. PaneTypeOK /\ DeviceTypeOK
  BY DEF DTyped
<1> USE DEF GridKept, PaneKept, bootVars, workVars, listVars
<1>2. CASE ListAgain \/ FilterOpened \/ SelectedOpened
  <2>1. /\ lists' \in Seq(BOOLEAN) /\ covered' \in BOOLEAN /\ spinner' \in BOOLEAN
        /\ UNCHANGED <<rows, visible, content, target, asks, posts, raced, bootVars, choice,
                       known, ticks, loader, asked, keys, change>>
    BY <1>2, TableListed DEF ListAgain, FilterOpened, SelectedOpened
  <2>2. saving' \in {saving, "no"} /\ multi' \in {multi, {}} /\ marked' \in {marked, {}}
        /\ cookie' \in {cookie, NoItem}
    BY <1>2 DEF ListAgain, FilterOpened, SelectedOpened, StopMulti
  <2> QED BY <1>1, <2>1, <2>2, PaneLeftTyped DEF PaneTypeOK, DeviceTypeOK
<1>3. ASSUME NEW i \in DOMAIN lists, NEW snap \in SUBSET Item, DevicesListed(i, snap) PROVE DTyped'
  <2>1. lists' \in Seq(BOOLEAN)
    BY <1>1, <1>3, ListsLeft DEF DevicesListed
  <2>2. ticks' \in 0..MaxTicks
    BY <1>1, <1>3, BoundsNatural DEF DevicesListed, DeviceTypeOK
  <2> QED BY <1>1, <1>3, <2>1, <2>2, PaneLeftTyped DEF DevicesListed, Cover, PaneTypeOK, DeviceTypeOK
<1>4. ASSUME NEW i \in DOMAIN lists, DevicesRefused(i) PROVE DTyped'
  <2>1. lists' \in Seq(BOOLEAN)
    BY <1>1, <1>4, ListsLeft DEF DevicesRefused, ListFails
  <2> QED BY <1>1, <1>4, <2>1, PaneLeftTyped DEF DevicesRefused, ListFails, PaneTypeOK, DeviceTypeOK
<1>5. ASSUME NEW x \in Item, CheckDevice(x) PROVE DTyped'
  <2>1. multi' \in SUBSET Item /\ marked' \in SUBSET Item /\ cookie' \in {cookie, NoItem}
        /\ content' \in {content, Blank} /\ keys' \in {keys, NoItem} /\ visible' \in {visible, FALSE}
    BY <1>1, <1>5 DEF CheckDevice, CloseDetails, DeviceTypeOK
  <2> QED BY <1>1, <1>5, <2>1, PaneLeftTyped DEF CheckDevice, PaneTypeOK, DeviceTypeOK
<1>6. CASE SelectedSaved \/ SavingFailed \/ \E what \in {"keep", "open", "job"} : SaveSelected(what)
  <2>1. /\ UNCHANGED <<rows, lists, visible, content, target, asks, posts, raced, bootVars,
                       choice, known, ticks, loader, asked, keys, change>>
        /\ covered' \in {covered, TRUE, FALSE} /\ spinner' \in {spinner, TRUE, FALSE}
        /\ saving' \in {saving, "no", "keep", "open", "job", "opening", "lost"}
        /\ multi' \in {multi, {}} /\ marked' \in {marked, {}} /\ cookie' \in {cookie, NoItem}
    BY <1>6 DEF SelectedSaved, SavingFailed, SaveSelected, StopMulti, Cover
  <2>2. /\ covered' \in BOOLEAN /\ spinner' \in BOOLEAN /\ multi' \in SUBSET Item
        /\ marked' \in SUBSET Item /\ cookie' \in Item \cup {NoItem}
        /\ saving' \in {"no", "filter", "keep", "open", "opening", "job", "lost"}
    BY <1>1, <2>1 DEF PaneTypeOK, DeviceTypeOK
  <2>3. /\ rows' \in SUBSET Item /\ lists' \in Seq(BOOLEAN) /\ visible' \in BOOLEAN
        /\ choice' \in Item \cup {NoItem} /\ known' \in BOOLEAN /\ ticks' \in 0..MaxTicks
    BY <1>1, <2>1 DEF PaneTypeOK, DeviceTypeOK
  <2> QED BY <2>1, <2>2, <2>3, PaneLeftTyped
<1>7. CASE TogglePane /\ PaneKept /\ UNCHANGED <<bootVars, asked, loader, keys, workVars>>
  BY <1>1, <1>7, PaneLeftTyped DEF TogglePane, PaneTypeOK, DeviceTypeOK
<1> QED BY <1>2, <1>3, <1>4, <1>5, <1>6, <1>7 DEF GridSteps

LEMMA TickTyped ==
  ASSUME DTyped, OnDevices, page' = page, Tick
  PROVE  DTyped'
<1>1. PaneTypeOK /\ DeviceTypeOK
  BY DEF DTyped
<1>2. /\ ticks' \in 0..MaxTicks /\ choice' \in Item \cup {NoItem} /\ known' \in BOOLEAN
      /\ multi' \in SUBSET Item /\ UNCHANGED <<listVars, posts, bootVars, workVars>>
  BY <1>1, BoundsNatural DEF Tick, DeviceTypeOK
<1>3. CASE choice \in rows /\ SelectDevice(choice)
  <2>1. choice \in Item
    BY <1>1, <1>3 DEF PaneTypeOK
  <2> QED BY <1>2, <1>3, <2>1, SelectDeviceTyped
<1>4. CASE ~(choice \in rows /\ SelectDevice(choice))
  <2>1. /\ UNCHANGED <<marked, loader, target, asked, asks, raced, spinner>>
        /\ content' \in {content, Blank} /\ keys' \in {keys, NoItem} /\ visible' \in {visible, FALSE}
        /\ cookie' \in {cookie, NoItem}
    BY <1>4 DEF Tick, CloseDetails
  <2> QED BY <1>1, <1>2, <2>1, PaneLeftTyped DEF PaneTypeOK, DeviceTypeOK, listVars, workVars
<1> QED BY <1>3, <1>4

\* Answers and requests of the pane.
LEMMA PaneTyped ==
  ASSUME DTyped, OnDevices, page' = page, PaneSteps
  PROVE  DTyped'
<1> USE DEF PaneSteps
<1>1. PaneTypeOK /\ PaneKnown /\ DeviceTypeOK /\ TableKnown /\ OnDevices'
  BY DEF DTyped, OnDevices
<1>2. /\ rows' \in SUBSET Item /\ covered' \in BOOLEAN /\ spinner' \in BOOLEAN
      /\ visible' \in BOOLEAN /\ UNCHANGED <<lists, posts, choice, known, ticks, multi, cookie>>
      /\ marked' \in {marked, {}} /\ loader' \in {loader, "none", "schedule"}
      /\ saving' \in {saving, "no"} /\ UNCHANGED <<filterReady, bound>>
      /\ boot' \in {boot, "columns"}
  BY <1>1 DEF PanelShown, PanelRefused, FilterSaved, RetryPanel, SendDeviceChange, StatusAnswered,
       KeysAnswered, SimRemoved, SimKept, ColumnsSaved, ColumnsKept, PaneKept, Cover, Filled,
       PaneTypeOK, bootVars, workVars
<1>3. TableKnown'
  <2>1. CASE ColumnsSaved
    BY <2>1 DEF ColumnsSaved, TableKnown
  <2>2. CASE ~ColumnsSaved
    <3>1. UNCHANGED bootVars
      BY <2>2 DEF PanelShown, PanelRefused, FilterSaved, RetryPanel, SendDeviceChange,
         StatusAnswered, KeysAnswered, SimRemoved, SimKept, ColumnsKept
    <3> QED BY <1>1, <3>1 DEF bootVars, TableKnown, OnDevices
  <2> QED BY <2>1, <2>2
<1>4. /\ content' \in Content /\ target' \in Item \cup {NoItem} /\ asks' \in [Panel -> Nat]
      /\ raced' \in BOOLEAN /\ asked' \in Panel \cup {NoItem} /\ PaneKnown'
      /\ keys' \in Item \cup {NoItem}
      /\ change' \in [kind : DeviceChange \cup {"none", "columns"}, of : Item \cup {NoItem}]
  <2> DEFINE Typical ==
      /\ content' \in Content /\ target' \in Item \cup {NoItem} /\ asks' \in [Panel -> Nat]
      /\ raced' \in BOOLEAN /\ asked' \in Panel \cup {NoItem} /\ PaneKnown'
      /\ keys' \in Item \cup {NoItem}
      /\ change' \in [kind : DeviceChange \cup {"none", "columns"}, of : Item \cup {NoItem}]
  <2>1. ASSUME NEW p \in Panel, PanelShown(p) \/ PanelRefused(p) PROVE Typical
    <3>1. PICK k \in {"shown", "retry"} : Filled(p, k)
      BY <2>1 DEF PanelShown, PanelRefused
    <3>2. /\ asks[p] > 0 /\ asks' = [asks EXCEPT ![p] = @ - 1]
          /\ content' = [kind |-> k, of |-> p] /\ UNCHANGED <<target, raced>>
      BY <3>1 DEF Filled
    <3>3. asks' \in [Panel -> Nat] /\ \A q \in Panel : asks'[q] > 0 => asks[q] > 0
      BY <1>1, <3>2 DEF PaneTypeOK
    <3>4. content' \in Content
      BY <3>2 DEF Content
    <3>5. PaneKnown'
      <4>1. \A x \in Item : x \in Panel
        BY DEF Panel
      <4>2. UNCHANGED change
        BY <2>1 DEF PanelShown, PanelRefused, workVars
      <4> QED BY <1>1, <3>2, <3>3, <4>1, <4>2 DEF PaneKnown
    <3> QED BY <1>1, <2>1, <3>2, <3>3, <3>4, <3>5
            DEF PanelShown, PanelRefused, PaneTypeOK, DeviceTypeOK, workVars
  <2>2. CASE FilterSaved
    <3>1. "schedule" \in Panel /\ \A x \in Item : x \in Panel \ {"schedule"}
      BY PaneAssumption DEF Panel
    <3>2. AskAmong(asks, "schedule", TRUE) /\ UNCHANGED <<content, target, keys, change>>
      BY <2>2 DEF FilterSaved
    <3>3. /\ asks' \in [Panel -> Nat] /\ raced' \in BOOLEAN /\ asked' = "schedule"
          /\ \A q \in Panel \ {"schedule"} : asks'[q] = asks[q]
      BY <1>1, <3>1, <3>2, AmongStep DEF PaneTypeOK
    <3>4. PaneKnown'
      BY <1>1, <3>1, <3>2, <3>3 DEF PaneKnown
    <3> QED BY <1>1, <3>1, <3>2, <3>3, <3>4 DEF PaneTypeOK, DeviceTypeOK
  <2>3. CASE RetryPanel
    <3>1. /\ content.kind = "retry" /\ AskAmong(asks, content.of, FALSE)
          /\ target' = (IF content.of \in Item THEN content.of ELSE target)
          /\ UNCHANGED <<content, keys, change>>
      BY <2>3 DEF RetryPanel, workVars
    <3>2. content.of \in Panel
      BY <1>1, <3>1 DEF PaneKnown
    <3>3. /\ asks' \in [Panel -> Nat] /\ raced' \in BOOLEAN /\ asked' = content.of
          /\ \A q \in Panel \ {content.of} : asks'[q] = asks[q]
      BY <1>1, <3>1, <3>2, AmongStep DEF PaneTypeOK
    <3>4. \A x \in Item : x \in Panel
      BY DEF Panel
    <3>5. PaneKnown'
      BY <1>1, <3>1, <3>2, <3>3, <3>4 DEF PaneKnown
    <3> QED BY <1>1, <3>1, <3>2, <3>3, <3>5 DEF PaneTypeOK, DeviceTypeOK
  <2>4. ASSUME NEW kind \in DeviceChange \cup {"columns"}, SendDeviceChange(kind) PROVE Typical
    <3>1. /\ change' = [kind |-> kind, of |-> IF kind = "keys" THEN target ELSE NoItem]
          /\ IF kind = "columns" THEN content.of = "columns" ELSE content.of \in Item
          /\ UNCHANGED <<content, target, asks, asked, keys>>
          /\ raced' \in BOOLEAN
      BY <1>1, <2>4 DEF SendDeviceChange, PaneTypeOK
    <3>2. change' \in [kind : DeviceChange \cup {"none", "columns"}, of : Item \cup {NoItem}]
      BY <1>1, <3>1 DEF PaneTypeOK
    <3>3. PaneKnown'
      BY <1>1, <3>1 DEF PaneKnown
    <3> QED BY <1>1, <3>1, <3>2, <3>3 DEF PaneTypeOK, DeviceTypeOK
  <2>5. CASE SimRemoved
    <3>1. target \in Item /\ target \in Panel
      BY <1>1, <2>5 DEF SimRemoved, PaneKnown, Panel
    <3>2. asks' = [asks EXCEPT ![target] = @ + 1] /\ asked' = target /\ change' = NoChange
          /\ raced' = (raced \/ Overlaps(target)) /\ UNCHANGED <<content, target, keys>>
      BY <2>5 DEF SimRemoved, ChangeEnds
    <3>3. asks' \in [Panel -> Nat]
      BY <1>1, <3>1, <3>2 DEF PaneTypeOK
    <3>4. raced' \in BOOLEAN
      BY <3>2 DEF Overlaps
    <3>5. PaneKnown'
      BY <1>1, <3>1, <3>2 DEF PaneKnown, NoChange
    <3> QED BY <1>1, <3>1, <3>2, <3>3, <3>4, <3>5
            DEF PaneTypeOK, DeviceTypeOK, NoChange
  <2>6. CASE StatusAnswered \/ (\E ok \in BOOLEAN : KeysAnswered(ok)) \/ SimKept \/ ColumnsSaved \/ ColumnsKept
    <3>1. change' = NoChange /\ UNCHANGED <<content, target, asks, raced, asked>>
          /\ keys' \in {keys, change.of}
      BY <2>6 DEF StatusAnswered, KeysAnswered, SimKept, ColumnsSaved, ColumnsKept, ChangeEnds
    <3>2. PaneKnown'
      BY <1>1, <3>1 DEF PaneKnown, NoChange
    <3> QED BY <1>1, <3>1, <3>2 DEF PaneTypeOK, DeviceTypeOK, NoChange
  <2> QED BY <2>1, <2>2, <2>3, <2>4, <2>5, <2>6
<1>5. PaneTypeOK'
  BY <1>1, <1>2, <1>4 DEF PaneTypeOK
<1>6. DeviceTypeOK'
  BY <1>1, <1>2, <1>4 DEF DeviceTypeOK, Boot, Editor
<1> QED BY <1>3, <1>4, <1>5, <1>6 DEF DTyped

LEMMA DeviceTyped ==
  ASSUME DTyped, DeviceNext
  PROVE  DTyped'
<1>1. ASSUME NEW x \in Item, OnDevices, page' = page, ClickDevice(x) PROVE DTyped'
  <2>1. SelectDevice(x) /\ multi' = {} /\ UNCHANGED <<listVars, posts, bootVars, choice, known, ticks, workVars>>
    BY <1>1 DEF ClickDevice, GridKept, workVars
  <2>2. DeviceTypeOK
    BY DEF DTyped
  <2> QED BY <1>1, <2>1, <2>2, SelectDeviceTyped DEF DeviceTypeOK
<1> QED BY <1>1, DeviceSteps, BootTyped, GridTyped, OpenTyped, PaneTyped, TickTyped, Zenon

-----------------------------------------------------------------------------
\* What is covered is uncovered: what the steps have to do.
Covered == DeviceCovered /\ DevicePaneSpins

LEMMA BootCovered ==
  ASSUME DTyped, Covered, OnDevices, page' = page, BootStep
  PROVE  Covered'
<1>1. UNCHANGED <<asks, change, saving>>
  BY DEF BootStep, ColumnsRead, ColumnsFailed, RetryColumns, ClausesAnswered, FilterAnswered,
         BootKept, workVars
<1>2. CASE MakeTable
  BY <1>2, TableListed DEF MakeTable, Covered, DeviceCovered, DevicePaneSpins
<1>3. CASE ~MakeTable
  <2>1. /\ UNCHANGED lists
        /\ \/ boot' \in {"columns", "retry"} /\ spinner' = covered' /\ (covered' => boot' = "columns")
           \/ boot' \in {"clauses", "filter", "dead"} /\ UNCHANGED <<covered, spinner>>
    BY <1>3 DEF BootStep, ColumnsRead, ColumnsFailed, RetryColumns, ClausesAnswered,
                FilterAnswered, Cover
  <2>2. DeviceCovered'
    BY <2>1 DEF DeviceCovered
  <2>3. DevicePaneSpins'
    BY <1>1, <2>1 DEF Covered, DevicePaneSpins, Waiting, OnDevices
  <2> QED BY <2>2, <2>3 DEF Covered
<1> QED BY <1>2, <1>3

LEMMA GridCovered ==
  ASSUME DTyped, Covered, OnDevices, page' = page, GridSteps
  PROVE  Covered'
<1> USE DEF Covered, GridKept, bootVars, workVars, listVars, PaneKept
<1>1. CASE ListAgain \/ FilterOpened \/ SelectedOpened
  <2>1. AskList
    BY <1>1 DEF ListAgain, FilterOpened, SelectedOpened
  <2> QED BY <2>1, TableListed DEF DeviceCovered, DevicePaneSpins
<1>2. ASSUME NEW i \in DOMAIN lists, NEW snap \in SUBSET Item,
             DevicesListed(i, snap) \/ DevicesRefused(i)
      PROVE  Covered'
  <2>1. covered' = FALSE /\ spinner' = FALSE
    BY <1>2 DEF DevicesListed, DevicesRefused, ListFails, Cover
  <2> QED BY <2>1 DEF DeviceCovered, DevicePaneSpins
<1>3. CASE SelectedSaved \/ SavingFailed \/ \E what \in {"keep", "open", "job"} : SaveSelected(what)
  <2>1. UNCHANGED <<asks, change, boot, lists>>
    BY <1>3 DEF SelectedSaved, SavingFailed, SaveSelected
  <2>2. CASE covered' = FALSE /\ spinner' = FALSE
    BY <2>2 DEF DeviceCovered, DevicePaneSpins
  <2>3. CASE covered' = TRUE /\ saving' # "no"
    BY <2>3 DEF DeviceCovered, DevicePaneSpins
  <2>4. CASE UNCHANGED <<covered, spinner>> /\ saving' # "no"
    BY <2>1, <2>4 DEF DeviceCovered, DevicePaneSpins, Waiting, OnDevices
  <2> QED BY <1>3, <2>2, <2>3, <2>4 DEF SelectedSaved, SavingFailed, SaveSelected, Cover
<1>4. CASE \/ \E x \in Item : CheckDevice(x)
           \/ TogglePane /\ PaneKept /\ UNCHANGED <<bootVars, asked, loader, keys, workVars>>
  <2>1. UNCHANGED <<covered, spinner, lists, boot, saving, asks, change>>
    BY <1>4 DEF CheckDevice, TogglePane
  <2> QED BY <2>1 DEF DeviceCovered, DevicePaneSpins, Waiting, OnDevices
<1> QED BY <1>1, <1>2, <1>3, <1>4 DEF GridSteps

LEMMA PaneCovered ==
  ASSUME DTyped, Covered, OnDevices, page' = page, PaneSteps
  PROVE  Covered'
<1> USE DEF Covered, PaneKept, bootVars, workVars
<1>1. PaneTypeOK /\ PaneKnown
  BY DEF DTyped
<1>2. CASE ColumnsSaved
  BY <1>2 DEF ColumnsSaved, Cover, DeviceCovered, DevicePaneSpins
<1>3. CASE FilterSaved
  <2>1. "schedule" \in Panel /\ asks \in [Panel -> Nat] /\ raced \in BOOLEAN
    BY <1>1 DEF Panel, PaneTypeOK
  <2>2. Waiting'
    BY <1>3, <2>1, AmongStep DEF FilterSaved
  <2> QED BY <1>3, <2>2 DEF FilterSaved, DeviceCovered, DevicePaneSpins
<1>4. CASE ~(ColumnsSaved \/ FilterSaved)
  <2>1. UNCHANGED <<lists, covered, boot, saving>>
    BY <1>4 DEF PaneSteps, PanelShown, PanelRefused, RetryPanel, SendDeviceChange, StatusAnswered,
                KeysAnswered, SimRemoved, SimKept, ColumnsKept
  <2>2. DeviceCovered'
    BY <2>1 DEF DeviceCovered, OnDevices
  <2>3. CASE spinner' = FALSE
    BY <2>2, <2>3 DEF DevicePaneSpins
  <2>4. CASE RetryPanel
    <3>1. content.of \in Panel /\ asks \in [Panel -> Nat] /\ raced \in BOOLEAN
      BY <1>1, <2>4 DEF RetryPanel, PaneKnown, PaneTypeOK
    <3>2. Waiting'
      BY <2>4, <3>1, AmongStep DEF RetryPanel
    <3> QED BY <2>2, <3>2 DEF DevicePaneSpins
  <2>5. CASE SimRemoved
    <3>1. target \in Panel /\ asks \in [Panel -> Nat] /\ asks' = [asks EXCEPT ![target] = @ + 1]
      BY <1>1, <2>5 DEF SimRemoved, PaneKnown, Panel, PaneTypeOK
    <3>2. asks'[target] > 0
      BY <3>1
    <3>3. Waiting'
      BY <3>1, <3>2 DEF Waiting
    <3> QED BY <2>2, <3>3 DEF DevicePaneSpins
  <2>6. CASE SimKept
    BY <2>2, <2>6 DEF SimKept, DevicePaneSpins, Waiting, OnDevices
  <2>7. ASSUME NEW kind \in DeviceChange \cup {"columns"}, SendDeviceChange(kind)
        PROVE  Covered'
    BY <2>2, <2>7 DEF SendDeviceChange, DevicePaneSpins, DeviceChange
  <2>8. CASE \/ \E p \in Panel : PanelShown(p) \/ PanelRefused(p)
             \/ StatusAnswered \/ ColumnsKept \/ \E ok \in BOOLEAN : KeysAnswered(ok)
    <3>1. spinner' = FALSE
      BY <2>8 DEF PanelShown, PanelRefused, Filled, StatusAnswered, ColumnsKept, KeysAnswered
    <3> QED BY <2>3, <3>1
  <2> QED BY <1>4, <2>4, <2>5, <2>6, <2>7, <2>8 DEF PaneSteps
<1> QED BY <1>2, <1>3, <1>4

\* An item or an editor is opened in the pane.
LEMMA OpenCovered ==
  ASSUME DTyped, Covered, OnDevices, page' = page, NEW p \in Panel,
         UNCHANGED <<lists, covered, boot, saving>>, AskAmong(Left, p, TRUE)
  PROVE  Covered'
<1>1. Left \in [Panel -> Nat] /\ raced \in BOOLEAN
  BY LeftTyped DEF DTyped, PaneTypeOK
<1>2. Waiting'
  BY <1>1, AmongStep
<1> QED BY <1>2 DEF Covered, DeviceCovered, DevicePaneSpins, OnDevices

LEMMA DeviceCovers ==
  ASSUME DTyped, Covered, DeviceNext
  PROVE  Covered'
<1> USE DEF GridKept, bootVars, workVars, listVars
<1>1. OnDevices /\ page' = page
  BY DeviceSteps
<1>2. ASSUME NEW x \in Item, SelectDevice(x), UNCHANGED <<lists, covered, boot, saving>>
      PROVE  Covered'
  <2>1. x \in Panel
    BY DEF Panel
  <2> QED BY <1>1, <1>2, <2>1, OpenCovered DEF SelectDevice
<1>3. CASE Tick
  <2>1. UNCHANGED <<lists, covered, boot, saving, change>>
    BY <1>3 DEF Tick
  <2>2. CASE choice \in rows /\ SelectDevice(choice)
    <3>1. choice \in Item
      BY <1>1, <2>2 DEF DTyped, PaneTypeOK
    <3> QED BY <1>2, <2>1, <2>2, <3>1
  <2>3. CASE UNCHANGED <<asks, spinner>>
    BY <2>1, <2>3, <1>1 DEF Covered, DeviceCovered, DevicePaneSpins, Waiting, OnDevices
  <2> QED BY <1>3, <2>2, <2>3 DEF Tick
<1>4. ASSUME NEW x \in Item, ClickDevice(x) PROVE Covered'
  BY <1>2, <1>4 DEF ClickDevice
<1>5. CASE EditColumns
  <2>1. "columns" \in Panel
    BY DEF Panel
  <2> QED BY <1>1, <1>5, <2>1, OpenCovered DEF EditColumns
<1>6. CASE ScheduleJob
  <2>1. CASE AskAmong(Left, "schedule", TRUE) /\ UNCHANGED <<covered, saving>>
    <3>1. "schedule" \in Panel /\ UNCHANGED <<lists, boot>>
      BY <1>6 DEF Panel, ScheduleJob
    <3> QED BY <1>1, <2>1, <3>1, OpenCovered
  <2>2. CASE saving' = "filter" /\ Cover(TRUE)
    BY <2>2 DEF Cover, Covered, DeviceCovered, DevicePaneSpins
  <2> QED BY <1>6, <2>1, <2>2 DEF ScheduleJob
<1> QED BY <1>1, <1>3, <1>4, <1>5, <1>6, DeviceSteps, BootCovered, GridCovered, PaneCovered, Zenon

-----------------------------------------------------------------------------
\* While a timer of a draw is due: the row it will select is the device of the
\* cookie, and a table that was made once has one timer.
Timers ==
  OnDevices /\ ticks > 0 =>
    /\ choice \in rows \cup {NoItem}
    /\ cookie # NoItem \/ choice # NoItem => known
    /\ bound <= 1 => /\ ticks = 1 /\ marked \subseteq multi
                     /\ cookie \in rows => choice = cookie
                     /\ choice # NoItem => choice = cookie

Selection == SelectionIsOne /\ Timers

selectionVars == <<bound, marked, multi, cookie, ticks, rows, choice, known>>

LEMMA SelectionKept ==
  ASSUME Selection, page' = page, UNCHANGED selectionVars
  PROVE  Selection'
BY DEF Selection, SelectionIsOne, Timers, OnDevices, selectionVars

LEMMA BootSelection ==
  ASSUME DTyped, Selection, OnDevices, page' = page, ticks = 0, BootStep
  PROVE  Selection'
<1>1. UNCHANGED <<marked, multi, cookie, ticks, rows, choice, known>>
  BY DEF BootStep, ColumnsRead, ColumnsFailed, RetryColumns, ClausesAnswered, FilterAnswered, BootKept
<1>2. bound \in Nat
  BY BoundsNatural DEF DTyped, DeviceTypeOK
<1>3. bound' = bound \/ bound' = bound + 1
  BY DEF BootStep, ColumnsRead, ColumnsFailed, RetryColumns, ClausesAnswered, FilterAnswered,
         MakeTable
<1> QED BY <1>1, <1>2, <1>3 DEF Selection, SelectionIsOne, Timers

LEMMA GridSelection ==
  ASSUME DTyped, Selection, OnDevices, page' = page, ticks = 0, GridSteps
  PROVE  Selection'
<1> USE DEF GridKept, bootVars, listVars, PaneKept, Selection
<1>1. PaneTypeOK /\ DeviceTypeOK /\ TableKnown
  BY DEF DTyped
<1>2. CASE ListAgain \/ SavingFailed \/ (\E what \in {"keep", "open", "job"} : SaveSelected(what))
           \/ (\E i \in DOMAIN lists : DevicesRefused(i))
           \/ (TogglePane /\ PaneKept /\ UNCHANGED <<bootVars, asked, loader, keys, workVars>>)
  <2>1. UNCHANGED selectionVars
    BY <1>2 DEF ListAgain, SavingFailed, SaveSelected, DevicesRefused, ListFails, TogglePane,
                selectionVars
  <2> QED BY <2>1, SelectionKept
<1>3. CASE FilterOpened \/ SelectedOpened \/ SelectedSaved
  <2>1. UNCHANGED <<bound, ticks, rows, choice, known>>
    BY <1>3 DEF FilterOpened, SelectedOpened, SelectedSaved
  <2>2. StopMulti \/ UNCHANGED <<multi, marked, cookie>>
    BY <1>3 DEF FilterOpened, SelectedOpened, SelectedSaved
  <2>3. CASE UNCHANGED <<multi, marked, cookie>>
    BY <2>1, <2>3, SelectionKept DEF selectionVars
  <2>4. CASE StopMulti
    <3>1. multi' = {} /\ \/ multi = {} /\ UNCHANGED <<marked, cookie>>
                         \/ marked' = {} /\ cookie' = NoItem
      BY <2>4 DEF StopMulti
    <3> QED BY <2>1, <3>1, PaneAssumption DEF SelectionIsOne, Timers
  <2> QED BY <2>2, <2>3, <2>4
<1>4. ASSUME NEW i \in DOMAIN lists, NEW snap \in SUBSET Item, DevicesListed(i, snap)
      PROVE  Selection'
  <2>1. /\ rows' = snap /\ known' = (cookie # NoItem) /\ ticks' = ticks + bound
        /\ choice' = (IF cookie \in snap THEN cookie ELSE NoItem)
        /\ marked' = multi \cap snap /\ UNCHANGED <<cookie, bound, multi>>
    BY <1>4 DEF DevicesListed
  <2>2. bound \in Nat /\ bound > 0 /\ ticks' = bound
    BY <1>1, <1>4, <2>1, BoundsNatural DEF DevicesListed, TableKnown, DeviceTypeOK
  <2>3. SelectionIsOne'
    BY <2>1, <2>2 DEF SelectionIsOne
  <2>4. cookie # NoItem => known'
    BY <2>1, Zenon
  <2>5. cookie \in snap => cookie # NoItem
    BY PaneAssumption
  <2>6. Timers'
    BY <2>1, <2>2, <2>4, <2>5 DEF Timers
  <2> QED BY <2>3, <2>6
<1>5. ASSUME NEW x \in Item, CheckDevice(x) PROVE Selection'
  <2>1. UNCHANGED <<bound, ticks, rows, choice, known>> /\ x \in rows
    BY <1>5 DEF CheckDevice
  <2>2. CASE multi = {}
    BY <1>5, <2>1, <2>2, PaneAssumption DEF CheckDevice, CloseDetails, SelectionIsOne, Timers
  <2>3. CASE multi # {}
    <3>1. /\ multi' = (IF x \in multi THEN multi \ {x} ELSE multi \cup {x})
          /\ marked' = (IF multi' = {} THEN {}
                        ELSE IF x \in multi THEN marked \ {x} ELSE marked \cup {x})
          /\ cookie' = (IF multi' = {} THEN NoItem ELSE cookie)
      BY <1>5, <2>3 DEF CheckDevice
    <3>2. bound <= 1 => marked' \subseteq multi' \cup {cookie'} /\ cookie' = NoItem
      BY <2>3, <3>1 DEF SelectionIsOne
    <3> QED BY <2>1, <3>1, <3>2, PaneAssumption DEF SelectionIsOne, Timers
  <2> QED BY <2>2, <2>3
<1> QED BY <1>2, <1>3, <1>4, <1>5 DEF GridSteps

LEMMA PaneSelection ==
  ASSUME DTyped, Selection, OnDevices, page' = page, ticks = 0, PaneSteps
  PROVE  Selection'
<1> USE DEF PaneKept, bootVars
<1>1. CASE ColumnsSaved
  BY <1>1 DEF ColumnsSaved, Selection, SelectionIsOne, Timers
<1>2. CASE ~ColumnsSaved
  <2>1. UNCHANGED selectionVars
    BY <1>2 DEF PaneSteps, PanelShown, PanelRefused, FilterSaved, RetryPanel, SendDeviceChange,
         StatusAnswered, KeysAnswered, SimRemoved, SimKept, ColumnsKept, selectionVars
  <2> QED BY <2>1, SelectionKept
<1> QED BY <1>1, <1>2

LEMMA TickSelection ==
  ASSUME DTyped, Selection, OnDevices, page' = page, Tick
  PROVE  Selection'
<1> USE DEF Selection
<1>1. PaneTypeOK /\ DeviceTypeOK /\ NoItem \notin rows /\ bound \in Nat /\ ticks \in Nat
  BY PaneAssumption, BoundsNatural DEF DTyped, PaneTypeOK, DeviceTypeOK
<1>2. /\ ticks > 0 /\ ticks' = ticks - 1 /\ choice' = NoItem /\ known' = (known /\ ticks > 1)
      /\ UNCHANGED <<rows, bound, multi>>
  BY DEF Tick, listVars, bootVars
<1>3. CASE choice \in rows /\ SelectDevice(choice)
  <2>1. marked' = {choice} /\ cookie' = choice
    BY <1>3 DEF SelectDevice
  <2>2. known /\ choice # NoItem /\ (bound <= 1 => ticks = 1 /\ choice = cookie)
    BY <1>1, <1>2, <1>3 DEF Timers
  <2>3. bound <= 1 => multi = {}
    BY <1>1, <2>2 DEF SelectionIsOne
  <2>4. SelectionIsOne'
    BY <1>2, <1>3, <2>1, <2>3 DEF SelectionIsOne
  <2>5. ticks > 1 => known'
    BY <1>2, <2>2, Zenon
  <2>6. Timers'
    BY <1>1, <1>2, <2>1, <2>2, <2>5 DEF Timers
  <2> QED BY <2>4, <2>6
<1>4. CASE CloseDetails /\ UNCHANGED marked
  <2>1. cookie' = NoItem
    BY <1>4 DEF CloseDetails
  <2>2. SelectionIsOne'
    BY <1>2, <1>4, <2>1, PaneAssumption DEF SelectionIsOne, Timers
  <2>3. Timers'
    BY <1>1, <1>2, <2>1 DEF Timers
  <2> QED BY <2>2, <2>3
<1>5. CASE choice \notin rows /\ ~(choice = NoItem /\ known) /\ UNCHANGED <<cookie, marked>>
  <2>1. choice = NoItem /\ ~known /\ cookie = NoItem
    BY <1>2, <1>5 DEF Timers
  <2>2. SelectionIsOne'
    BY <1>2, <1>5, <2>1, PaneAssumption DEF SelectionIsOne
  <2>3. Timers'
    BY <1>1, <1>2, <1>5, <2>1 DEF Timers
  <2> QED BY <2>2, <2>3
<1> QED BY <1>3, <1>4, <1>5 DEF Tick

LEMMA DeviceSelects ==
  ASSUME DTyped, Selection, DeviceNext
  PROVE  Selection'
<1> USE DEF GridKept, bootVars, workVars, listVars
<1>1. OnDevices /\ page' = page
  BY DeviceSteps
<1>2. ASSUME NEW x \in Item, ticks = 0, ClickDevice(x) PROVE Selection'
  <2>1. marked' = {x} /\ cookie' = x /\ x \in rows /\ multi' = {}
        /\ UNCHANGED <<rows, bound, ticks, choice, known>>
    BY <1>2 DEF ClickDevice, SelectDevice
  <2> QED BY <1>2, <2>1 DEF Selection, SelectionIsOne, Timers
<1>3. ASSUME ticks = 0, EditColumns \/ ScheduleJob PROVE Selection'
  <2>1. marked' = {} /\ cookie' = NoItem /\ UNCHANGED <<rows, bound, ticks, choice, known, multi>>
    BY <1>3 DEF EditColumns, ScheduleJob
  <2> QED BY <1>3, <2>1, PaneAssumption DEF Selection, SelectionIsOne, Timers
<1> QED BY <1>1, <1>2, <1>3, DeviceSteps, BootSelection, GridSelection, PaneSelection, TickSelection,
           Zenon

-----------------------------------------------------------------------------
\* Unless requests overlapped, what is on its way is what the title names, and
\* while keys are on their way nothing else is.
Alone ==
  OnDevices /\ ~raced =>
    /\ \A p \in Panel : asks[p] > 0 => p = asked
    /\ asked \in Item => target = asked
    /\ change.kind = "keys" => ~Waiting /\ change.of = asked

Shown == Alone /\ PaneShowsAsked

LEMMA ShownKept ==
  ASSUME Shown, page' = page, UNCHANGED <<asks, raced, asked, target>>,
         change' \in {change, NoChange},
         UNCHANGED <<content, keys>> \/ (content' = Blank /\ keys' = NoItem)
  PROVE  Shown'
BY DEF Shown, Alone, PaneShowsAsked, OnDevices, Waiting, NoChange, Blank

\* A panel is asked for: only its answer is due, unless requests overlap.
LEMMA ShownAsked ==
  ASSUME Shown, PaneTypeOK, NEW left \in [Panel -> Nat], NEW p \in Panel, NEW fresh \in BOOLEAN,
         OnDevices, page' = page, AskAmong(left, p, fresh), UNCHANGED change,
         p \in Item => target' = p
  PROVE  Shown'
<1>1. raced \in BOOLEAN
  BY DEF PaneTypeOK
<1>2. /\ asks' \in [Panel -> Nat] /\ asked' = p /\ Waiting'
      /\ \A q \in Panel \ {p} : asks'[q] = left[q]
      /\ ~raced' => /\ \A q \in Panel \ {p} : ~(left[q] > 0)
                    /\ change.kind \notin {"sim", "keys"}
  BY <1>1, AmongStep
<1>3. ASSUME ~raced', NEW q \in Panel, asks'[q] > 0 PROVE q = p
  BY <1>2, <1>3
<1>4. Alone'
  BY <1>2, <1>3 DEF Alone
<1> QED BY <1>2, <1>4 DEF Shown, PaneShowsAsked

LEMMA GridShown ==
  ASSUME DTyped, Shown, OnDevices, page' = page, BootStep \/ GridSteps
  PROVE  Shown'
<1> USE DEF GridKept, PaneKept, bootVars, workVars, listVars
<1>1. CASE BootStep
  <2>1. UNCHANGED <<asks, raced, asked, target, change, content, keys>>
    BY <1>1 DEF BootStep, ColumnsRead, ColumnsFailed, RetryColumns, ClausesAnswered,
                FilterAnswered, BootKept
  <2> QED BY <2>1, ShownKept
<1>2. ASSUME NEW x \in Item, CheckDevice(x) PROVE Shown'
  <2>1. UNCHANGED <<asks, raced, asked, target, change>>
        /\ (UNCHANGED <<content, keys>> \/ (content' = Blank /\ keys' = NoItem))
    BY <1>2 DEF CheckDevice, CloseDetails
  <2> QED BY <2>1, ShownKept
<1>3. CASE GridSteps /\ ~\E x \in Item : CheckDevice(x)
  <2>1. UNCHANGED <<asks, raced, asked, target, change, content, keys>>
    BY <1>3 DEF GridSteps, ListAgain, FilterOpened, SelectedOpened, SelectedSaved, SavingFailed,
                DevicesListed, DevicesRefused, ListFails, SaveSelected, TogglePane
  <2> QED BY <2>1, ShownKept
<1> QED BY <1>1, <1>2, <1>3

LEMMA PaneShown ==
  ASSUME DTyped, Shown, OnDevices, page' = page, PaneSteps
  PROVE  Shown'
<1> USE DEF PaneKept, bootVars, workVars
<1>1. PaneTypeOK /\ PaneKnown /\ asks \in [Panel -> Nat] /\ raced \in BOOLEAN
  BY DEF DTyped, PaneTypeOK
<1>2. CASE StatusAnswered \/ SimKept \/ ColumnsSaved \/ ColumnsKept
  <2>1. UNCHANGED <<asks, raced, asked, target, content, keys>> /\ change' = NoChange
    BY <1>2 DEF StatusAnswered, SimKept, ColumnsSaved, ColumnsKept, ChangeEnds
  <2> QED BY <2>1, ShownKept
<1>3. CASE FilterSaved
  <2>1. "schedule" \in Panel /\ "schedule" \notin Item
    BY PaneAssumption DEF Panel
  <2>2. AskAmong(asks, "schedule", TRUE) /\ UNCHANGED change
    BY <1>3 DEF FilterSaved
  <2> QED BY <1>1, <2>1, <2>2, ShownAsked
<1>4. CASE RetryPanel
  <2>1. /\ content.of \in Panel /\ AskAmong(asks, content.of, FALSE) /\ UNCHANGED change
        /\ content.of \in Item => target' = content.of
    BY <1>1, <1>4 DEF RetryPanel, PaneKnown
  <2> QED BY <1>1, <2>1, ShownAsked
<1>5. ASSUME NEW p \in Panel, PanelShown(p) \/ PanelRefused(p) PROVE Shown'
  <2>1. PICK k \in {"shown", "retry"} : Filled(p, k)
    BY <1>5 DEF PanelShown, PanelRefused
  <2>2. /\ asks[p] > 0 /\ asks' = [asks EXCEPT ![p] = @ - 1]
        /\ content' = [kind |-> k, of |-> p] /\ keys' = NoItem
        /\ UNCHANGED <<target, raced, asked, change>>
    BY <1>5, <2>1 DEF Filled, PanelShown, PanelRefused
  <2>3. \A q \in Panel : asks'[q] > 0 => asks[q] > 0
    BY <1>1, <2>2
  <2>4. Waiting
    BY <2>2 DEF Waiting
  <2>5. Alone'
    BY <2>2, <2>3, <2>4 DEF Shown, Alone, OnDevices
  <2>6. ~raced => p = asked /\ (asked \in Item => target = asked)
    BY <2>2 DEF Shown, Alone
  <2> QED BY <2>2, <2>5, <2>6 DEF Shown, PaneShowsAsked
<1>6. ASSUME NEW kind \in DeviceChange \cup {"columns"}, SendDeviceChange(kind) PROVE Shown'
  <2>1. /\ content.kind = "shown" /\ UNCHANGED <<asks, asked, target, content, keys>>
        /\ raced' = (raced \/ (kind \in {"sim", "keys"} /\ Waiting))
        /\ change' = [kind |-> kind, of |-> IF kind = "keys" THEN target ELSE NoItem]
        /\ kind = "keys" => content.of \in Item
    BY <1>6 DEF SendDeviceChange
  <2>2. ~raced' => ~raced /\ (kind = "keys" => ~Waiting)
    BY <2>1
  <2>3. ~raced' /\ kind = "keys" => target = asked
    BY <2>1, <2>2 DEF Shown, PaneShowsAsked
  <2>4. Alone'
    BY <2>1, <2>2, <2>3 DEF Shown, Alone, OnDevices, Waiting
  <2>5. PaneShowsAsked'
    BY <2>1, <2>2 DEF Shown, PaneShowsAsked, OnDevices, Waiting
  <2> QED BY <2>4, <2>5 DEF Shown
<1>7. CASE SimRemoved
  <2>1. target \in Item /\ target \in Panel
    BY <1>1, <1>7 DEF SimRemoved, PaneKnown, Panel
  <2>2. asks' = [asks EXCEPT ![target] = @ + 1] /\ asked' = target /\ change' = NoChange
        /\ raced' = (raced \/ Overlaps(target)) /\ UNCHANGED target
    BY <1>7 DEF SimRemoved, ChangeEnds
  <2>3. asks'[target] > 0 /\ \A q \in Panel \ {target} : asks'[q] = asks[q]
    BY <1>1, <2>1, <2>2
  <2>4. ~raced' => \A q \in Panel \ {target} : ~(asks[q] > 0)
    BY <2>2 DEF Overlaps
  <2>5. Alone'
    BY <2>2, <2>3, <2>4 DEF Alone, NoChange
  <2>6. Waiting'
    BY <2>1, <2>3 DEF Waiting
  <2> QED BY <2>5, <2>6 DEF Shown, PaneShowsAsked
<1>8. ASSUME NEW ok \in BOOLEAN, KeysAnswered(ok) PROVE Shown'
  <2>1. /\ UNCHANGED <<asks, raced, asked, target, content>> /\ change' = NoChange
        /\ change.kind = "keys"
        /\ (keys' = keys \/ (content.kind = "shown" /\ keys' = change.of))
    BY <1>8 DEF KeysAnswered, ChangeEnds
  <2>2. CASE keys' = keys
    BY <2>1, <2>2, ShownKept
  <2>3. CASE content.kind = "shown" /\ keys' = change.of
    <3>1. Alone'
      BY <2>1 DEF Shown, Alone, OnDevices, NoChange
    <3>2. PaneShowsAsked'
      BY <2>1, <2>3 DEF Shown, Alone, PaneShowsAsked, OnDevices, Waiting
    <3> QED BY <3>1, <3>2 DEF Shown
  <2> QED BY <2>1, <2>2, <2>3
<1> QED BY <1>2, <1>3, <1>4, <1>5, <1>6, <1>7, <1>8 DEF PaneSteps

LEMMA DeviceShows ==
  ASSUME DTyped, Shown, DeviceNext
  PROVE  Shown'
<1> USE DEF GridKept, bootVars, workVars, listVars
<1>1. OnDevices /\ page' = page /\ PaneTypeOK /\ DeviceTypeOK
  BY DeviceSteps DEF DTyped
<1>2. Left \in [Panel -> Nat]
  BY <1>1, LeftTyped
<1>3. ASSUME NEW x \in Item, SelectDevice(x), UNCHANGED change PROVE Shown'
  <2>1. x \in Panel /\ AskAmong(Left, x, TRUE) /\ target' = x
    BY <1>3 DEF Panel, SelectDevice
  <2> QED BY <1>1, <1>2, <1>3, <2>1, ShownAsked
<1>4. CASE Tick
  <2>1. UNCHANGED change
    BY <1>4 DEF Tick
  <2>2. CASE choice \in rows /\ SelectDevice(choice)
    <3>1. choice \in Item
      BY <1>1, <2>2 DEF PaneTypeOK
    <3> QED BY <1>3, <2>1, <2>2, <3>1
  <2>3. CASE ~(choice \in rows /\ SelectDevice(choice))
    <3>1. UNCHANGED <<asks, raced, asked, target>>
          /\ (UNCHANGED <<content, keys>> \/ (content' = Blank /\ keys' = NoItem))
      BY <1>4, <2>3 DEF Tick, CloseDetails
    <3> QED BY <1>1, <2>1, <3>1, ShownKept
  <2> QED BY <2>2, <2>3
<1>5. ASSUME NEW x \in Item, ClickDevice(x) PROVE Shown'
  BY <1>3, <1>5 DEF ClickDevice
<1>6. ASSUME NEW p \in Editor, AskAmong(Left, p, TRUE), UNCHANGED change PROVE Shown'
  <2>1. p \in Panel /\ p \notin Item
    BY PaneAssumption DEF Panel, Editor
  <2> QED BY <1>1, <1>2, <1>6, <2>1, ShownAsked
<1>7. CASE EditColumns
  BY <1>6, <1>7 DEF EditColumns, Editor
<1>8. CASE ScheduleJob
  <2>1. UNCHANGED <<change, target>> /\ ShowDetails
    BY <1>8 DEF ScheduleJob
  <2>2. CASE AskAmong(Left, "schedule", TRUE)
    BY <1>6, <2>1, <2>2 DEF Editor
  <2>3. CASE asks' = Left /\ UNCHANGED <<raced, asked>>
    <3>1. CASE Aborted
      <4>1. /\ loader \in Panel /\ asks[loader] > 0 /\ loader \notin Item
            /\ \A p \in Panel : asks'[p] > 0 => asks[p] > 0
        BY <1>1, <2>3, <3>1, LeftTyped, PaneAssumption DEF DeviceTypeOK, Editor, Aborted
      <4>2. content' = [kind |-> "retry", of |-> loader] /\ keys' = NoItem
        BY <2>1, <3>1 DEF ShowDetails
      <4>3. Waiting
        BY <4>1 DEF Waiting
      <4>4. Alone'
        BY <1>1, <2>1, <2>3, <4>1, <4>3 DEF Shown, Alone, OnDevices
      <4>5. ~raced => loader = asked
        BY <1>1, <4>1 DEF Shown, Alone
      <4> QED BY <2>1, <2>3, <4>1, <4>2, <4>4, <4>5 DEF Shown, PaneShowsAsked
    <3>2. CASE ~Aborted
      <4>1. UNCHANGED <<asks, content, keys>>
        BY <2>1, <2>3, <3>2 DEF Left, ShowDetails
      <4> QED BY <1>1, <2>1, <2>3, <4>1, ShownKept
    <3> QED BY <3>1, <3>2
  <2> QED BY <1>8, <2>2, <2>3 DEF ScheduleJob
<1> QED BY <1>1, <1>4, <1>5, <1>7, <1>8, DeviceSteps, GridShown, PaneShown, Zenon

-----------------------------------------------------------------------------
(* The page of devices in a window.                                        *)

DeviceInv == DTyped /\ Covered /\ Selection /\ Shown

LEMMA DeviceStep ==
  ASSUME DeviceInv, DeviceNext
  PROVE  DeviceInv'
BY DeviceTyped, DeviceCovers, DeviceSelects, DeviceShows, Zenon DEF DeviceInv

\* Another page leaves the variables of this one as they are.
LEMMA ElsewhereStep ==
  ASSUME DeviceInv, ~OnDevices, page' = page, UNCHANGED deviceVars
  PROVE  DeviceInv'
<1>1. DTyped'
  BY DEF DeviceInv, DTyped, DeviceTypeOK, TableKnown, OnDevices, deviceVars, bootVars, tableVars,
         workVars
<1> QED BY <1>1 DEF DeviceInv, Covered, DeviceCovered, DevicePaneSpins, Selection, SelectionIsOne,
                    Timers, Shown, Alone, PaneShowsAsked, OnDevices

FreshDevices ==
  /\ page \in Page /\ cookie \in Item \cup {NoItem}
  /\ rows = {} /\ lists = FirstLists(page) /\ covered = TRUE
  /\ visible = FALSE /\ content = Blank /\ spinner = TRUE
  /\ target = NoItem /\ asks = NoAsks /\ posts = 0 /\ raced = FALSE
  /\ boot = FirstBoot(page) /\ filterReady = FALSE /\ bound = 0
  /\ marked = {} /\ choice = NoItem /\ known = FALSE /\ ticks = 0
  /\ loader = "none" /\ asked = NoItem /\ multi = {} /\ keys = NoItem
  /\ saving = "no" /\ change = NoChange

LEMMA DevicesOpened == FreshDevices => DeviceInv
<1> SUFFICES ASSUME FreshDevices PROVE DeviceInv
  OBVIOUS
<1> USE DEF FreshDevices
<1>1. boot \in {"columns", "off"} /\ 0 < MaxTicks /\ 0 \in 0..MaxTicks
  BY BoundsNatural DEF FirstBoot
<1>2. asks \in [Panel -> Nat] /\ (\A p \in Panel : asks[p] = 0) /\ ~Waiting
  BY DEF NoAsks, Waiting
<1>3. lists \in Seq(BOOLEAN)
  <2>1. <<FALSE>> \in Seq(BOOLEAN) /\ <<>> \in Seq(BOOLEAN)
    OBVIOUS
  <2> QED BY <2>1, Zenon DEF FirstLists
<1>4. PaneTypeOK
  BY <1>2, <1>3 DEF PaneTypeOK, Content, Blank
<1>5. PaneKnown
  BY <1>2, PaneAssumption DEF PaneKnown, Blank, NoChange, Panel
<1>6. DeviceTypeOK
  BY <1>1 DEF DeviceTypeOK, NoChange, Boot, Editor
<1>7. TableKnown
  BY <1>1 DEF TableKnown
<1>8. Covered
  BY <1>1 DEF Covered, DeviceCovered, DevicePaneSpins
<1>9. Selection
  BY DEF Selection, SelectionIsOne, Timers
<1>10. Shown
  BY <1>2, PaneAssumption DEF Shown, Alone, PaneShowsAsked, Blank, NoChange
<1> QED BY <1>4, <1>5, <1>6, <1>7, <1>8, <1>9, <1>10 DEF DeviceInv, DTyped

LEMMA DeviceInitInv == PortalInit => DeviceInv
BY DevicesOpened DEF PortalInit, PaneInit, DeviceInit, FreshDevices

LEMMA DeviceNextInv == DeviceInv /\ [PortalNext]_portalVars => DeviceInv'
<1> SUFFICES ASSUME DeviceInv, [PortalNext]_portalVars PROVE DeviceInv'
  OBVIOUS
<1>1. CASE GridNext /\ UNCHANGED deviceVars
  BY <1>1, ElsewhereStep DEF GridNext, OnGrid, OnDevices
<1>2. CASE DeviceNext
  BY <1>2, DeviceStep
<1>3. ASSUME NEW p \in Page, Load(p), cookie' \in {cookie, NoItem} PROVE DeviceInv'
  <2>1. cookie' \in Item \cup {NoItem}
    BY <1>3 DEF DeviceInv, DTyped, DeviceTypeOK
  <2>2. FreshDevices'
    BY <1>3, <2>1 DEF Load, PaneLoad, DeviceLoad, FreshDevices
  <2> QED BY <2>2, DevicesOpened, PTL
<1>4. CASE UNCHANGED portalVars
  <2> USE <1>4 DEF portalVars, sharedVars, listVars, paneVars, deviceVars, bootVars, tableVars, workVars
  <2>1. DTyped'
    BY DEF DeviceInv, DTyped, DeviceTypeOK, TableKnown, OnDevices, PaneTypeOK, PaneKnown
  <2>2. Covered'
    BY DEF DeviceInv, Covered, DeviceCovered, DevicePaneSpins, OnDevices, Waiting
  <2>3. Selection'
    BY DEF DeviceInv, Selection, SelectionIsOne, Timers, OnDevices
  <2>4. Shown'
    BY DEF DeviceInv, Shown, Alone, PaneShowsAsked, OnDevices, Waiting
  <2> QED BY <2>1, <2>2, <2>3, <2>4 DEF DeviceInv
<1> QED BY <1>1, <1>2, <1>3, <1>4 DEF PortalNext, Navigate, RemoveDevice, Page

LEMMA DeviceInvariance == PortalSpec => []DeviceInv
BY DeviceInitInv, DeviceNextInv, PTL DEF PortalSpec

-----------------------------------------------------------------------------
\* Every variable of the window keeps its type, whatever page is opened.
THEOREM PortalTyped == PortalSpec => []PortalTypeOK
<1>1. PortalInit => page \in Page
  BY DEF PortalInit, PaneInit
<1>2. page \in Page /\ [PortalNext]_portalVars => (page \in Page)'
  BY DEF PortalNext, GridNext, DeviceNext, Navigate, RemoveDevice, Load, PaneLoad, portalVars, Page
<1>3. PortalSpec => [](page \in Page)
  BY <1>1, <1>2, PTL DEF PortalSpec
<1>4. page \in Page /\ IInv /\ DeviceInv => PortalTypeOK
  BY DEF IInv, Typed, MarkInv, DeviceInv, DTyped, PortalTypeOK, OnGrid, OnDevices, Page
<1> QED BY <1>3, <1>4, Invariance, DeviceInvariance, PTL

\* Neither a page nor its pane is left under its spinner without a request whose
\* answer or failure uncovers it.
THEOREM NeverLeftCovered == PortalSpec => []CoveredForAnswer
<1>1. IInv /\ DeviceInv => CoveredForAnswer
  BY DEF IInv, ListInv, DeviceInv, Covered, CoveredForAnswer
<1> QED BY <1>1, Invariance, DeviceInvariance, PTL

\* The pane of the page of devices shows what its title names, and a device with
\* its own keys, unless requests overlapped.
THEOREM PaneShows == PortalSpec => []PaneShowsAsked
<1>1. DeviceInv => PaneShowsAsked
  BY DEF DeviceInv, Shown
<1> QED BY <1>1, DeviceInvariance, PTL

\* One device is selected or several are checked, and the device of the cookie is
\* in the grid that is drawn.
THEOREM SelectionIsSingle == PortalSpec => []SelectionIsOne
<1>1. DeviceInv => SelectionIsOne
  BY DEF DeviceInv, Selection
<1> QED BY <1>1, DeviceInvariance, PTL

\* A draw does not close the details of a device that is still displayed.
THEOREM DeviceStays == PortalSpec => StaysSelected
<1>1. DeviceInv => [OnDevices /\ Tick /\ bound <= 1 /\ cookie \in rows => cookie' = cookie]_<<ticks, cookie>>
  <2> SUFFICES ASSUME DeviceInv, OnDevices, Tick, bound <= 1, cookie \in rows PROVE cookie' = cookie
    OBVIOUS
  <2>1. ticks > 0
    BY DEF Tick
  <2>2. choice = cookie
    BY <2>1 DEF DeviceInv, Selection, Timers
  <2>3. choice # NoItem
    BY <2>2, PaneAssumption DEF DeviceInv, DTyped, PaneTypeOK
  <2> QED BY <2>2, <2>3 DEF Tick, SelectDevice
<1> QED BY <1>1, DeviceInvariance, PTL DEF StaysSelected

\* Remove, cancel and retry act on the rule or job that the pane shows, unless
\* requests for two of them have overlapped.
THEOREM ButtonsActRight == PortalSpec => []ButtonsActOnShown
<1>1. IInv => ButtonsActOnShown
  BY DEF IInv, PaneInv
<1> QED BY <1>1, Invariance, PTL

\* The row that is selected, marked and acted on is one row of the table.
THEOREM SelectionAgrees == PortalSpec => [](GridTypeOK /\ DefaultIsDrawn /\ MarkIsTarget)
<1>1. IInv => GridTypeOK /\ DefaultIsDrawn /\ MarkIsTarget
  BY DEF IInv, MarkInv
<1> QED BY <1>1, Invariance, PTL

\* The table of jobs never goes back to an older list.
THEOREM JobsGoForward == PortalSpec => []NoOldJobs
<1>1. IInv => NoOldJobs
  BY DEF IInv, ListInv
<1> QED BY <1>1, Invariance, PTL
=============================================================================
