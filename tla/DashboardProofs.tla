--------------------------- MODULE DashboardProofs ---------------------------
(***************************************************************************)
(* The dashboard polls as it should for any devices, locations and bounds. *)
(* DashboardInv needs little strengthening: that a choice without a        *)
(* request on its way starts no further chain follows from OneTimer (the   *)
(* timer it clears is the only one), that no answer is old from            *)
(* NoExtraChain, and that a timer asks for a device from Started.          *)
(***************************************************************************)
EXTENDS Dashboard, TLAPS

\* The requests left when one is over: one fewer, none of another kind.
LEMMA OthersLeft ==
  ASSUME TelemetryTypeOK, NEW i \in DOMAIN requests, NEW shown \in BOOLEAN
  PROVE  /\ Others(i, shown) \in Seq(Request)
         /\ Len(Others(i, shown)) = Len(requests) - 1
<1> DEFINE n == Len(requests) - 1
<1>1. /\ requests \in Seq(Request) /\ n \in Nat /\ i \in 1..(n + 1)
      /\ \A j \in 1..(n + 1) : requests[j] \in Request
  BY DEF TelemetryTypeOK
<1> HIDE DEF n
<1>2. ASSUME NEW j \in 1..n
      PROVE  (IF j >= i THEN requests[j + 1]
              ELSE [of |-> requests[j].of,
                    old |-> requests[j].old \/ (shown /\ requests[j].of = requests[i].of)])
             \in Request
  <2>1. j \in 1..(n + 1) /\ j + 1 \in 1..(n + 1)
    BY <1>1
  <2>2. requests[j] \in Request /\ requests[j + 1] \in Request
    BY <1>1, <2>1
  <2>3. requests[j].of \in Device
    BY <2>2 DEF Request
  <2>4. (requests[j].old \/ (shown /\ requests[j].of = requests[i].of)) \in BOOLEAN
    OBVIOUS
  <2> QED BY <2>2, <2>3, <2>4, Zenon DEF Request
<1>3. Others(i, shown) \in [1..n -> Request]
  BY <1>2 DEF Others, n
<1> QED BY <1>1, <1>3 DEF n

-----------------------------------------------------------------------------
\* Nothing is asked for before a device is chosen.
Started == current = NoDevice => Len(requests) = 0 /\ timers = 0

IInv == DashboardInv /\ Started

\* A page that has just been opened.
LEMMA TelemetryStart ==
  ASSUME current = NoDevice, requests = <<>>, timers = 0, timerId = "none",
         chart = NoDevice, picks = 0, overlaps = 0
  PROVE  TelemetryInv /\ Started
<1>1. TelemetryTypeOK
  BY DEF TelemetryTypeOK
<1> QED BY <1>1 DEF TelemetryInv, OneTimer, KeepsPolling, NoExtraChain, NoOldTelemetry,
                    Started

\* A request is over and the timer is set.
LEMMA OverStep ==
  ASSUME TelemetryInv, Started, NEW i \in DOMAIN requests, NEW shown \in BOOLEAN,
         requests' = Others(i, shown), OnRequestComplete,
         chart' \in {chart, current}, UNCHANGED <<current, picks, overlaps>>
  PROVE  (TelemetryInv /\ Started)'
<1> USE DEF TelemetryInv
<1>1. /\ requests' \in Seq(Request) /\ Len(requests') = Len(requests) - 1
      /\ Len(requests) \in Nat
  BY OthersLeft DEF TelemetryTypeOK
<1>2. timers' = 1 /\ timerId' = "live"
  BY DEF OnRequestComplete, Cleared, OneTimer
<1>3. TelemetryTypeOK' /\ OneTimer' /\ KeepsPolling'
  BY <1>1, <1>2 DEF TelemetryTypeOK, OneTimer, KeepsPolling
<1>4. NoExtraChain'
  BY <1>1, <1>2 DEF NoExtraChain, TelemetryTypeOK
<1>5. NoOldTelemetry'
  <2>1. overlaps = 0 => Len(requests') <= 0
    BY <1>1 DEF NoExtraChain, TelemetryTypeOK
  <2> QED BY <1>1, <2>1 DEF NoOldTelemetry
<1>6. Started'
  <2>1. current # NoDevice
    BY DEF Started, TelemetryTypeOK
  <2> QED BY <2>1 DEF Started
<1> QED BY <1>3, <1>4, <1>5, <1>6

\* A device is chosen.
LEMMA ChoiceStep ==
  ASSUME TelemetryInv, Started, NEW d \in Device, UpdateDeviceId(d)
  PROVE  (TelemetryInv /\ Started)'
<1> USE DEF TelemetryInv
<1>1. /\ timers' = 0 /\ timerId' = "none" /\ current' = d
      /\ UNCHANGED chart /\ picks' = picks + 1
      /\ requests' = Append(requests, [of |-> d, old |-> FALSE])
  BY DEF UpdateDeviceId, Cleared, OneTimer, Send
<1>2. /\ requests \in Seq(Request) /\ Len(requests) \in Nat
      /\ requests' \in Seq(Request) /\ Len(requests') = Len(requests) + 1
  BY <1>1 DEF TelemetryTypeOK, Request
<1>3. /\ requests = <<>> => overlaps' = overlaps
      /\ requests # <<>> => overlaps' = overlaps + 1
      /\ overlaps \in Nat /\ overlaps' \in Nat
  BY DEF UpdateDeviceId, TelemetryTypeOK
<1>4. TelemetryTypeOK' /\ OneTimer' /\ KeepsPolling'
  BY <1>1, <1>2, <1>3 DEF TelemetryTypeOK, OneTimer, KeepsPolling
<1>5. NoExtraChain'
  BY <1>1, <1>2, <1>3 DEF NoExtraChain, TelemetryTypeOK
<1>6. NoOldTelemetry'
  <2>1. overlaps' = 0 => Len(requests) = 0
    BY <1>3
  <2>2. /\ DOMAIN requests' = 1..(Len(requests) + 1)
        /\ requests'[Len(requests) + 1] = [of |-> d, old |-> FALSE]
    BY <1>1, <1>2
  <2> QED BY <2>1, <2>2 DEF NoOldTelemetry
<1>7. Started'
  BY <1>1, TelemetryAssumption DEF Started
<1> QED BY <1>4, <1>5, <1>6, <1>7

\* The timer fires.
LEMMA RefreshStep ==
  ASSUME TelemetryInv, Started, RefreshData
  PROVE  (TelemetryInv /\ Started)'
<1> USE DEF TelemetryInv
<1>1. /\ timers = 1 /\ timers' = 0 /\ timerId' = "fired"
      /\ UNCHANGED <<current, chart, picks, overlaps>>
      /\ requests' = Append(requests, [of |-> current, old |-> FALSE])
  BY DEF RefreshData, OneTimer, Send
<1>2. /\ requests \in Seq(Request) /\ Len(requests) \in Nat
      /\ requests' \in Seq(Request) /\ Len(requests') = Len(requests) + 1
      /\ current # NoDevice
  BY <1>1 DEF TelemetryTypeOK, Request, Started
<1>3. TelemetryTypeOK' /\ OneTimer' /\ KeepsPolling'
  BY <1>1, <1>2 DEF TelemetryTypeOK, OneTimer, KeepsPolling
<1>4. NoExtraChain'
  BY <1>1, <1>2 DEF NoExtraChain, TelemetryTypeOK
<1>5. NoOldTelemetry'
  <2>1. overlaps = 0 => Len(requests) = 0
    BY <1>1, <1>2 DEF NoExtraChain, TelemetryTypeOK
  <2>2. /\ DOMAIN requests' = 1..(Len(requests) + 1)
        /\ requests'[Len(requests) + 1] = [of |-> current, old |-> FALSE]
    BY <1>1, <1>2
  <2> QED BY <1>1, <2>1, <2>2 DEF NoOldTelemetry
<1>6. Started'
  BY <1>1, <1>2 DEF Started
<1> QED BY <1>3, <1>4, <1>5, <1>6

-----------------------------------------------------------------------------
\* Of the alerts, a step keeps the types, the polling, the selection.
LEMMA AlertsStep ==
  ASSUME IInv, AlertStep
  PROVE  (AlertTypeOK /\ AlertsPolled /\ SelectedArePins /\ MarkedIsCurrent)'
<1> USE DEF IInv, DashboardInv
<1> UNCHANGED current
  BY DEF AlertStep, telemetryVars
<1>1. CASE ReloadGrid
  BY <1>1 DEF ReloadGrid, mapVars, AlertTypeOK, AlertsPolled, SelectedArePins, MarkedIsCurrent
<1>2. ASSUME NEW devices \in SUBSET Alarmed, NEW locations \in SUBSET Location,
             AlertsAnswered(devices, locations)
      PROVE  (AlertTypeOK /\ AlertsPolled /\ SelectedArePins /\ MarkedIsCurrent)'
  <2>1. /\ asking' = FALSE /\ ticking' = TRUE /\ rows' = devices
        /\ UNCHANGED <<selected, map, chosen, deleting>>
        /\ marked' = UpdateSelectedRows(devices, selected, {})
    BY <1>2 DEF AlertsAnswered
  <2>2. /\ fitted' \in BOOLEAN /\ pins \subseteq pins'
        /\ pins' \in SUBSET Location /\ box' \in BOOLEAN /\ box' = (chosen # {})
    <3>1. CASE map = "absent"
      BY <1>2, <3>1 DEF AlertsAnswered, AlertTypeOK, SelectedArePins
    <3>2. CASE map # "absent"
      <4>1. SetDeviceLocationData(locations)
        BY <1>2, <3>2 DEF AlertsAnswered
      <4> QED BY <4>1 DEF SetDeviceLocationData, AlertTypeOK
    <3> QED BY <3>1, <3>2
  <2>3. marked' = {current} \cap devices
    BY <2>1, DashboardAssumption, AlertAssumption DEF UpdateSelectedRows, MarkedIsCurrent
  <2>4. AlertTypeOK'
    BY <2>1, <2>2, <2>3 DEF AlertTypeOK
  <2>5. AlertsPolled' /\ MarkedIsCurrent'
    BY <2>1, <2>3 DEF AlertsPolled, MarkedIsCurrent
  <2>6. SelectedArePins'
    BY <2>1, <2>2 DEF SelectedArePins
  <2> QED BY <2>4, <2>5, <2>6
<1>3. CASE OnError
  BY <1>3 DEF OnError, mapVars, AlertTypeOK, AlertsPolled, SelectedArePins, MarkedIsCurrent
<1>4. CASE FinishMap \/ NoMapKey
  BY <1>4 DEF FinishMap, NoMapKey, tableVars, AlertTypeOK, AlertsPolled, SelectedArePins,
              MarkedIsCurrent
<1>5. ASSUME NEW l \in Location, UpdateSelectedLocations(l)
      PROVE  (AlertTypeOK /\ AlertsPolled /\ SelectedArePins /\ MarkedIsCurrent)'
  BY <1>5 DEF UpdateSelectedLocations, tableVars, AlertTypeOK, AlertsPolled, SelectedArePins,
              MarkedIsCurrent
<1>6. CASE CancelSelection
  BY <1>6 DEF CancelSelection, tableVars, AlertTypeOK, AlertsPolled, SelectedArePins,
              MarkedIsCurrent
<1>7. CASE DeleteSelectedLocations \/ DeletionFailed
  BY <1>7, AlertAssumption
     DEF DeleteSelectedLocations, DeletionFailed, tableVars, AlertTypeOK, AlertsPolled,
         SelectedArePins, MarkedIsCurrent
<1> QED BY <1>1, <1>2, <1>3, <1>4, <1>5, <1>6, <1>7 DEF AlertStep

\* The choice of a device marks its alerts.
LEMMA ChoiceMarks ==
  ASSUME IInv, NEW d \in Device, Choose(d)
  PROVE  (AlertTypeOK /\ AlertsPolled /\ SelectedArePins /\ MarkedIsCurrent)'
<1>1. current' = d /\ selected' = d /\ marked' = {d} \cap rows
      /\ UNCHANGED <<asking, ticking, rows, mapVars>>
  BY DashboardAssumption, AlertAssumption
     DEF Choose, UpdateDeviceId, SetSelectedDevice, UpdateSelectedRows
<1> QED BY <1>1, DashboardAssumption
        DEF IInv, DashboardInv, mapVars, AlertTypeOK, AlertsPolled, SelectedArePins,
            MarkedIsCurrent

LEMMA InitInv == DashboardInit => IInv
<1> SUFFICES ASSUME DashboardInit PROVE IInv
  OBVIOUS
<1>1. TelemetryInv /\ Started
  BY TelemetryStart DEF DashboardInit, TelemetryInit
<1>2. AlertTypeOK
  <2>1. 0 \in 0..MaxPosts
    BY AlertAssumption
  <2> QED BY <2>1, Zenon DEF DashboardInit, AlertInit, AlertTypeOK
<1>3. AlertsPolled
  BY DEF DashboardInit, AlertInit, AlertsPolled
<1>4. SelectedArePins
  BY DEF DashboardInit, AlertInit, SelectedArePins
<1>5. MarkedIsCurrent
  BY DashboardAssumption DEF DashboardInit, TelemetryInit, AlertInit, MarkedIsCurrent
<1> QED BY <1>1, <1>2, <1>3, <1>4, <1>5 DEF IInv, DashboardInv

LEMMA NextInv == IInv /\ [DashboardNext]_dashboardVars => IInv'
<1> SUFFICES ASSUME IInv, [DashboardNext]_dashboardVars PROVE IInv'
  OBVIOUS
<1> DEFINE Alerts == AlertTypeOK /\ AlertsPolled /\ SelectedArePins /\ MarkedIsCurrent
<1>1. ASSUME UNCHANGED telemetryVars PROVE (TelemetryInv /\ Started)'
  BY <1>1 DEF IInv, DashboardInv, telemetryVars, TelemetryInv, Started, TelemetryTypeOK,
              OneTimer, KeepsPolling, NoExtraChain, NoOldTelemetry
<1>2. ASSUME UNCHANGED alertVars, UNCHANGED current PROVE Alerts'
  BY <1>2 DEF IInv, DashboardInv, alertVars, tableVars, mapVars, AlertTypeOK, AlertsPolled,
              SelectedArePins, MarkedIsCurrent
<1>3. ASSUME NEW d \in Device, Choose(d) PROVE IInv'
  BY <1>3, ChoiceStep, ChoiceMarks DEF Choose, IInv, DashboardInv
<1>4. CASE TelemetryStep
  <2>1. Alerts'
    BY <1>2, <1>4 DEF TelemetryStep, RefreshData, Answered, Refused
  <2>2. CASE RefreshData
    BY <2>1, <2>2, RefreshStep DEF IInv, DashboardInv
  <2>3. ASSUME NEW i \in DOMAIN requests, Answered(i) \/ Refused(i) PROVE IInv'
    <3>1. CASE Answered(i)
      BY <2>1, <3>1, OverStep DEF Answered, IInv, DashboardInv
    <3>2. CASE Refused(i)
      BY <2>1, <3>2, OverStep DEF Refused, IInv, DashboardInv
    <3> QED BY <2>3, <3>1, <3>2
  <2> QED BY <1>4, <2>2, <2>3 DEF TelemetryStep
<1>5. CASE AlertStep
  BY <1>1, <1>5, AlertsStep DEF AlertStep, IInv, DashboardInv
<1>6. CASE Deleted
  <2>1. (TelemetryInv /\ Started)'
    BY <1>6 DEF Deleted, TelemetryReload, TelemetryInv, Started, TelemetryTypeOK,
                OneTimer, KeepsPolling, NoExtraChain, NoOldTelemetry
  <2>2. AlertTypeOK'
    <3>1. 0 \in 0..MaxPosts
      BY AlertAssumption
    <3> QED BY <1>6, <3>1, Zenon DEF Deleted, AlertReload, AlertTypeOK
  <2>3. AlertsPolled'
    BY <1>6 DEF Deleted, AlertReload, AlertsPolled
  <2>4. SelectedArePins'
    BY <1>6 DEF Deleted, AlertReload, SelectedArePins
  <2>5. MarkedIsCurrent'
    BY <1>6, DashboardAssumption DEF Deleted, TelemetryReload, AlertReload, MarkedIsCurrent
  <2> QED BY <2>1, <2>2, <2>3, <2>4, <2>5 DEF IInv, DashboardInv
<1>7. CASE UNCHANGED <<telemetryVars, alertVars>>
  BY <1>1, <1>2, <1>7 DEF telemetryVars, IInv, DashboardInv
<1> QED BY <1>3, <1>4, <1>5, <1>6, <1>7 DEF DashboardNext, dashboardVars

-----------------------------------------------------------------------------
LEMMA Invariance == DashboardSpec => []DashboardInv
<1>1. IInv => DashboardInv
  BY DEF IInv
<1> QED BY InitInv, NextInv, <1>1, PTL DEF DashboardSpec

\* The types of the two halves of the page.
THEOREM DashboardTyped == DashboardSpec => []DashboardTypeOK
<1>1. DashboardInv => DashboardTypeOK
  BY DEF DashboardInv, TelemetryInv, DashboardTypeOK
<1> QED BY <1>1, Invariance, PTL

\* However many answers of chosen and abandoned devices come, one timer asks for
\* the telemetry again, there is always a request or that timer, and chains of
\* requests are as many as choices made while one was on its way; the alerts are
\* asked for by exactly one request or timer.
THEOREM AlwaysPolled == DashboardSpec => []PollingGoesOn
<1>1. DashboardInv => PollingGoesOn
  BY DEF DashboardInv, TelemetryInv, PollingGoesOn
<1> QED BY <1>1, Invariance, PTL

\* Without such a choice the chart never goes back to older telemetry.
THEOREM ChartGoesForward == DashboardSpec => []NoOldTelemetry
<1>1. DashboardInv => NoOldTelemetry
  BY DEF DashboardInv, TelemetryInv
<1> QED BY <1>1, Invariance, PTL

\* The selected locations are pins of the map, their box is shown with them, and
\* the alerts of the chosen device are the marked ones, in whatever order alerts,
\* choices and clicks come.
THEOREM MarksSeen == DashboardSpec => []MarksAreSeen
<1>1. DashboardInv => MarksAreSeen
  BY DEF DashboardInv, MarksAreSeen
<1> QED BY <1>1, Invariance, PTL
=============================================================================
