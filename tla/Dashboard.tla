------------------------------ MODULE Dashboard ------------------------------
(***************************************************************************)
(* The dashboard: the telemetry of one device, the alerts and their map,   *)
(* the indicators of jobs.  They ask the server independently of each      *)
(* other; the device that is chosen for the telemetry is marked among the  *)
(* alerts, and a deletion of locations loads the whole page again.         *)
(***************************************************************************)
EXTENDS TelemetryPane, AlertMap

ASSUME DashboardAssumption == Alarmed = Device /\ Nobody = NoDevice

VARIABLE
  indicators  \* JobIndicators: the request or the timer it has, and what is shown

dashboardVars == <<telemetryVars, alertVars, indicators>>

DashboardInit ==
  /\ TelemetryInit /\ AlertInit
  /\ indicators = [phase |-> "definitions", shown |-> FALSE]

\* A device is chosen for the telemetry, then marked among the alerts.
Choose(d) ==
  /\ UpdateDeviceId(d)
  /\ SetSelectedDevice(d)
  /\ UNCHANGED indicators

\* location.reload after the locations have been deleted.
Deleted ==
  /\ deleting > 0
  /\ TelemetryReload /\ AlertReload
  /\ indicators' = [phase |-> "definitions", shown |-> FALSE]

\* An answer or a failure for the definitions of the indicators, then for their
\* values; a failure is followed by a timer, the values by one as well.
IndicatorsStep(ok) ==
  /\ indicators.phase \in {"definitions", "values"}
  /\ indicators' =
       IF indicators.phase = "definitions"
       THEN [indicators EXCEPT !.phase = IF ok THEN "values" ELSE "retry"]
       ELSE [phase |-> "idle", shown |-> ok \/ indicators.shown]

IndicatorsTimer ==
  /\ indicators.phase \in {"retry", "idle"}
  /\ indicators' =
       [indicators EXCEPT !.phase = IF @ = "retry" THEN "definitions" ELSE "values"]

-----------------------------------------------------------------------------
TelemetryStep ==
  /\ \/ RefreshData
     \/ \E i \in DOMAIN requests : Answered(i) \/ Refused(i)
  /\ UNCHANGED <<alertVars, indicators>>

AlertStep ==
  /\ \/ ReloadGrid
     \/ \E devices \in SUBSET Alarmed, locations \in SUBSET Location :
          AlertsAnswered(devices, locations)
     \/ OnError
     \/ FinishMap \/ NoMapKey
     \/ \E l \in Location : UpdateSelectedLocations(l)
     \/ CancelSelection
     \/ DeleteSelectedLocations \/ DeletionFailed
  /\ UNCHANGED <<telemetryVars, indicators>>

DashboardNext ==
  \/ \E d \in Device : Choose(d)
  \/ TelemetryStep
  \/ AlertStep
  \/ Deleted
  \/ (IndicatorsTimer \/ \E ok \in BOOLEAN : IndicatorsStep(ok))
     /\ UNCHANGED <<telemetryVars, alertVars>>

DashboardSpec == DashboardInit /\ [][DashboardNext]_dashboardVars

-----------------------------------------------------------------------------
(* Timers fire, every request ends, and one that is made again and again   *)
(* is answered at last.                                                    *)

Rest == UNCHANGED <<alertVars, indicators>>

TelemetryFairness ==
  /\ WF_dashboardVars(RefreshData /\ Rest)
  /\ WF_dashboardVars((\E i \in DOMAIN requests : Answered(i) \/ Refused(i)) /\ Rest)
  /\ SF_dashboardVars((\E i \in DOMAIN requests :
                         requests[i].of = current /\ Answered(i)) /\ Rest)

AlertFairness ==
  /\ WF_dashboardVars(ReloadGrid /\ UNCHANGED <<telemetryVars, indicators>>)
  /\ SF_dashboardVars((\E devices \in SUBSET Alarmed, locations \in SUBSET Location :
                         AlertsAnswered(devices, locations))
                      /\ UNCHANGED <<telemetryVars, indicators>>)

IndicatorsFairness ==
  /\ WF_dashboardVars(IndicatorsTimer /\ UNCHANGED <<telemetryVars, alertVars>>)
  /\ SF_dashboardVars(IndicatorsStep(TRUE) /\ UNCHANGED <<telemetryVars, alertVars>>)
  /\ WF_dashboardVars((\E ok \in BOOLEAN : IndicatorsStep(ok))
                      /\ UNCHANGED <<telemetryVars, alertVars>>)

FairDashboard ==
  DashboardSpec /\ TelemetryFairness /\ AlertFairness /\ IndicatorsFairness

-----------------------------------------------------------------------------
\* The marked alerts are those of the device whose telemetry is asked for,
\* whichever came first, the alerts or the choice.
MarkedIsCurrent == selected = current /\ marked = {current} \cap rows

DashboardTypeOK == TelemetryTypeOK /\ AlertTypeOK

\* Telemetry and alerts are asked for again and again, whichever requests fail and
\* however many answers of abandoned devices come: there is always a request or a
\* timer, and no more of them than choices of a device explain.  The handler of an
\* answer is taken to end: an exception of a chart would skip the next timer.
PollingGoesOn == OneTimer /\ KeepsPolling /\ NoExtraChain /\ AlertsPolled

\* What is chosen is what the eye sees: the locations to delete are pins of the
\* map with their box, and the marked alerts are those of the chosen device.
MarksAreSeen == SelectedArePins /\ MarkedIsCurrent

DashboardInv == TelemetryInv /\ AlertTypeOK /\ AlertsPolled /\ SelectedArePins /\ MarkedIsCurrent

\* The telemetry of a device that stays chosen is shown at last, however many
\* requests for other devices are on their way.
ChosenIsShown == \A d \in Device : current = d ~> chart = d \/ current # d

\* The map is fitted to the locations of some answer, also if its key comes last.
MapIsFitted == map = "made" ~> fitted \/ map # "made"

\* The indicators show values at last, however often the definitions or the values
\* fail, unless the page is loaded again and again.
IndicatorsShown == <>[]indicators.shown \/ []<><<Deleted>>_dashboardVars

\* Each part of the dashboard shows an answer at last.
PartsAreShown == ChosenIsShown /\ MapIsFitted /\ IndicatorsShown
=============================================================================
