---------------------------- MODULE TelemetryPane ----------------------------
(***************************************************************************)
(* The telemetry of one device on the dashboard (DashboardDevicePane).     *)
(* The answer to a request, or its failure, sets a timer that asks again.  *)
(* Another device can be chosen at any time: the requests that are on      *)
(* their way are not aborted, their answers are not shown, but they set    *)
(* the timer as any other, so that several chains of requests and timers   *)
(* may run at once.                                                        *)
(***************************************************************************)
EXTENDS Integers, Sequences

CONSTANTS
  Device,
  NoDevice,
  MaxPicks    \* bound: how often a device is chosen

ASSUME TelemetryAssumption == NoDevice \notin Device /\ MaxPicks \in Nat \ {0}

VARIABLES
  current,    \* currentDeviceId, and with it telemetryDataUrl
  requests,   \* requests on their way, oldest first: the device they are for and
              \* whether the answer to a later one for it has been shown
  timers,     \* timers that have not fired
  timerId,    \* whether timerId holds nothing, such a timer or one that has fired
  chart,      \* the device whose telemetry is shown
  picks,      \* history: choices made
  overlaps    \* history: of those, the ones made while a request was on its way

telemetryVars == <<current, requests, timers, timerId, chart, picks, overlaps>>

Request == [of : Device, old : BOOLEAN]

TelemetryInit ==
  /\ current = NoDevice
  /\ requests = <<>>
  /\ timers = 0
  /\ timerId = "none"
  /\ chart = NoDevice
  /\ picks = 0
  /\ overlaps = 0

TelemetryReload ==
  /\ current' = NoDevice
  /\ requests' = <<>>
  /\ timers' = 0
  /\ timerId' = "none"
  /\ chart' = NoDevice
  /\ picks' = 0
  /\ overlaps' = 0

-----------------------------------------------------------------------------
\* The timers left once the remembered one is cleared; a fired one is cleared
\* in vain.
Cleared == IF timerId = "live" THEN timers - 1 ELSE timers

Send(d) == requests' = Append(requests, [of |-> d, old |-> FALSE])

\* Mutant of UpdateDeviceId: the timer is forgotten, not cleared.
UpdateDeviceIdUncleared(d) ==
  /\ picks < MaxPicks
  /\ d # current
  /\ timerId' = "none"
  /\ current' = d
  /\ Send(d)
  /\ picks' = picks + 1
  /\ overlaps' = overlaps + IF requests = <<>> THEN 0 ELSE 1
  /\ UNCHANGED <<chart, timers>>

\* The first device of the list when the page is ready, then what is chosen in
\* the list.
UpdateDeviceId(d) ==
  /\ picks < MaxPicks
  /\ d # current
  /\ timers' = Cleared
  /\ timerId' = "none"
  /\ current' = d
  /\ Send(d)
  /\ picks' = picks + 1
  /\ overlaps' = overlaps + IF requests = <<>> THEN 0 ELSE 1
  /\ UNCHANGED chart

\* The timer of refreshData.
RefreshData ==
  /\ timers > 0
  /\ timers' = timers - 1
  /\ \/ timerId = "live" /\ timerId' = "fired"
     \/ timers > 1 /\ UNCHANGED timerId
  /\ Send(current)
  /\ UNCHANGED <<current, chart, picks, overlaps>>

\* Mutant of OnRequestComplete: a timer that is set is kept, one that has fired
\* is taken for one.
OnRequestCompleteOnce ==
  IF timerId = "none" THEN timers' = timers + 1 /\ timerId' = "live"
  ELSE UNCHANGED <<timers, timerId>>

\* After the answer and after the failure (whose own handler has just done the
\* same).
OnRequestComplete ==
  /\ timers' = Cleared + 1
  /\ timerId' = "live"

\* The requests left when request i is over.  Those sent before it for the same
\* device become old if its answer is shown.
Others(i, shown) ==
  [j \in 1..(Len(requests) - 1) |->
     IF j >= i THEN requests[j + 1]
     ELSE [of |-> requests[j].of,
           old |-> requests[j].old \/ (shown /\ requests[j].of = requests[i].of)]]

\* Mutant of Answered: the answer is kept instead of its device.
AnsweredWhole(i) ==
  /\ requests' = Others(i, requests[i].of = current)
  /\ chart' = IF requests[i].of = current THEN requests[i] ELSE chart
  /\ OnRequestComplete
  /\ UNCHANGED <<current, picks, overlaps>>

\* Only the telemetry of the device that is chosen is shown.
Answered(i) ==
  /\ requests' = Others(i, requests[i].of = current)
  /\ chart' = IF requests[i].of = current THEN current ELSE chart
  /\ OnRequestComplete
  /\ UNCHANGED <<current, picks, overlaps>>

Refused(i) ==
  /\ requests' = Others(i, FALSE)
  /\ OnRequestComplete
  /\ UNCHANGED <<current, chart, picks, overlaps>>

-----------------------------------------------------------------------------
TelemetryNext ==
  \/ \E d \in Device : UpdateDeviceId(d)
  \/ RefreshData
  \/ \E i \in DOMAIN requests : Answered(i) \/ Refused(i)

TelemetrySpec == TelemetryInit /\ [][TelemetryNext]_telemetryVars

-----------------------------------------------------------------------------
TelemetryTypeOK ==
  /\ current \in Device \cup {NoDevice}
  /\ requests \in Seq(Request)
  /\ timers \in Nat
  /\ timerId \in {"none", "live", "fired"}
  /\ chart \in Device \cup {NoDevice}
  /\ picks \in Nat /\ overlaps \in Nat

\* However many requests are on their way, there is at most one timer, and it is
\* the one that the next choice or answer clears.
OneTimer == timers = IF timerId = "live" THEN 1 ELSE 0

\* Once a device is chosen its telemetry is asked for again and again, whatever
\* fails: there is always a request or a timer.
KeepsPolling == current # NoDevice => requests # <<>> \/ timers > 0

\* Choosing devices does not make the page ask faster: a further chain of
\* requests starts only with a choice made while a request was on its way.
NoExtraChain == Len(requests) + timers <= 1 + overlaps

\* Without such a choice the chart never goes back: the request on its way is
\* never older than what is shown.
NoOldTelemetry == overlaps = 0 => \A i \in DOMAIN requests : ~requests[i].old

TelemetryInv ==
  /\ TelemetryTypeOK
  /\ OneTimer
  /\ KeepsPolling
  /\ NoExtraChain
  /\ NoOldTelemetry
=============================================================================
