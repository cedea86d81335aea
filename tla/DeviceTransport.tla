--------------------------- MODULE DeviceTransport ---------------------------
(***************************************************************************)
(* The transport of a simulated device: IoTHubWorkaroundTransport.         *)
(*                                                                         *)
(* Reported properties and telemetry are put into two collections by the   *)
(* callbacks and loops of the device, and sent by one loop that creates    *)
(* the client anew after any failure.  The collections are filled under a  *)
(* lock, but the loop looks into them without it.                          *)
(*                                                                         *)
(* Reports are numbered in the order they are handed over, so _reports is  *)
(* the numbers between two counters; of _messages only matters whether     *)
(* there are any.                                                          *)
(***************************************************************************)
EXTENDS Integers

CONSTANTS
  Device, NoDevice,
  MaxStarts,   \* bound on the device instances started
  MaxReports,  \* bound on the reports of an instance
  MaxFaults    \* bound on the faults taken

ASSUME BoundsAssumption ==
  /\ NoDevice \notin Device
  /\ MaxStarts \in Nat /\ MaxReports \in Nat /\ MaxFaults \in Nat

\* A started device: a TaskDetail, its CoolerDevice and its transport.
Inst == 1..MaxStarts

VARIABLES
  device,       \* of each instance: its DeviceID
  client,       \* the instances whose _deviceClient is not null
  unavailable,  \* those for which isDeviceClientAvailable is false
  stop,         \* those whose _cts is cancelled
  loop,         \* of each instance: the next step of SendLoop
  changed,      \* those whose collection changed under the loop's enumerator
  queued, acked,  \* _reports holds the reports acked + 1 .. queued
  applied,      \* history: the last report the device twin was given
  mail,         \* the instances whose _messages are not empty
  health,       \* StateCollection, of each device
  faults        \* faults taken so far

transportVars == <<device, client, unavailable, stop, loop, changed, queued, acked,
                   applied, mail, health, faults>>

Step == {"off", "wait", "create", "reports", "report", "messages", "batch", "ended", "died"}

TransportTypeOK ==
  /\ device \in [Inst -> Device \cup {NoDevice}]
  /\ client \subseteq Inst
  /\ unavailable \subseteq Inst
  /\ stop \subseteq Inst
  /\ loop \in [Inst -> Step]
  /\ changed \subseteq Inst
  /\ queued \in [Inst -> 0..MaxReports]
  /\ acked \in [Inst -> Nat] /\ \A i \in Inst : acked[i] <= queued[i]
  /\ applied \in [Inst -> Nat]
  /\ mail \subseteq Inst
  /\ health \in [Device -> {"Up", "Down", "none"}]
  /\ faults \in 0..MaxFaults

TransportInit ==
  /\ device = [i \in Inst |-> NoDevice]
  /\ client = {}
  /\ unavailable = {}
  /\ stop = {}
  /\ loop = [i \in Inst |-> "off"]
  /\ changed = {}
  /\ queued = [i \in Inst |-> 0] /\ acked = [i \in Inst |-> 0]
  /\ applied = [i \in Inst |-> 0]
  /\ mail = {}
  /\ health = [d \in Device |-> "none"]
  /\ faults = 0

Fault == faults < MaxFaults /\ faults' = faults + 1

\* A call of the device fails and leaves its transport as it was.
Fails ==
  /\ Fault
  /\ UNCHANGED <<device, client, unavailable, stop, loop, changed, queued, acked,
                 applied, mail, health>>

Set(i, s) == health' = [health EXCEPT ![device[i]] = s]

At(i, l) == loop' = [loop EXCEPT ![i] = l]

-----------------------------------------------------------------------------
(* What the device calls.                                                  *)

\* Mutant of OpenAsync: isDeviceClientAvailable starts as false.
OpenAsyncUnavailable(i) ==
  /\ client' = client \cup {i}
  /\ unavailable' = unavailable \cup {i}
  /\ At(i, "wait")
  /\ Set(i, "Up")
  /\ UNCHANGED <<device, stop, changed, queued, acked, applied, mail, faults>>

\* OpenAsync with a client: the loop runs up to its first delay.
OpenAsync(i) ==
  /\ client' = client \cup {i}
  /\ At(i, "wait")
  /\ Set(i, "Up")
  /\ UNCHANGED <<device, unavailable, stop, changed, queued, acked, applied, mail,
                 faults>>

\* UpdateReportedPropertiesAsync
Report(i) ==
  /\ queued[i] < MaxReports
  /\ queued' = [queued EXCEPT ![i] = @ + 1]
  /\ changed' = IF loop[i] = "reports" THEN changed \cup {i} ELSE changed
  /\ UNCHANGED <<device, client, unavailable, stop, loop, acked, applied, mail, health,
                 faults>>

\* SendEventAsync and SendEventBatchAsync
Post(i) ==
  /\ mail' = mail \cup {i}
  /\ changed' = IF loop[i] = "messages" THEN changed \cup {i} ELSE changed
  /\ UNCHANGED <<device, client, unavailable, stop, loop, queued, acked, applied, health,
                 faults>>

\* CloseAsync cancels the loop.
Cancel(i) ==
  /\ stop' = stop \cup {i}
  /\ UNCHANGED <<device, client, unavailable, loop, changed, queued, acked, applied,
                 mail, health, faults>>

\* What is left of the transports of devices that are done.
Release(S) ==
  /\ client' = client \ S
  /\ stop' = stop \cup S
  /\ loop' = [i \in Inst |-> IF i \in S THEN "ended" ELSE loop[i]]
  /\ changed' = changed \ S
  /\ queued' = [i \in Inst |-> IF i \in S THEN 0 ELSE queued[i]]
  /\ acked' = [i \in Inst |-> IF i \in S THEN 0 ELSE acked[i]]
  /\ applied' = [i \in Inst |-> IF i \in S THEN 0 ELSE applied[i]]
  /\ mail' = mail \ S
  /\ UNCHANGED <<device, unavailable>>

\* CloseAsync closes the client and takes the device out of the StateCollection;
\* without a client, or when the close fails, it throws before that.
CloseClient(i) ==
  /\ \/ i \in client /\ Set(i, "none") /\ UNCHANGED faults
     \/ i \notin client /\ UNCHANGED <<health, faults>>
     \/ i \in client /\ Fault /\ UNCHANGED health
  /\ Release({i})

-----------------------------------------------------------------------------
(* SendLoop                                                                *)

\* The next turn: while (!ct.IsCancellationRequested).
Turn(i) == At(i, IF i \in stop THEN "ended" ELSE "wait")

\* Mutant of Lose: the loop is left.
LoseForGood(i) ==
  /\ Fault
  /\ unavailable' = unavailable \cup {i}
  /\ Set(i, "Down")
  /\ At(i, "ended")

\* A call to the hub fails: the client is not available any more.
Lose(i) ==
  /\ Fault
  /\ unavailable' = unavailable \cup {i}
  /\ Set(i, "Down")
  /\ Turn(i)

\* After the delay; a client that is not available is disposed.  _reports.Any()
\* takes an enumerator ...
Wake(i) ==
  /\ loop[i] = "wait"
  /\ IF i \notin unavailable THEN At(i, "reports") /\ UNCHANGED client
     ELSE At(i, "create") /\ client' = client \ {i}
  /\ UNCHANGED <<unavailable, acked, applied, mail, health, faults>>

\* Mutant of Create: the StateCollection is not told.
CreateQuietly(i) ==
  /\ loop[i] = "create"
  /\ \/ /\ client' = client \cup {i}
        /\ unavailable' = unavailable \ {i}
        /\ At(i, "reports")
        /\ UNCHANGED <<health, faults>>
     \/ Fault /\ Turn(i) /\ UNCHANGED <<client, unavailable, health>>
  /\ UNCHANGED <<acked, applied, mail>>

\* CreateDeviceClient
Create(i) ==
  /\ loop[i] = "create"
  /\ \/ /\ client' = client \cup {i}
        /\ unavailable' = unavailable \ {i}
        /\ Set(i, "Up")
        /\ At(i, "reports")
        /\ UNCHANGED faults
     \/ Fault /\ Turn(i) /\ UNCHANGED <<client, unavailable, health>>
  /\ UNCHANGED <<acked, applied, mail>>

\* Mutant of AnyReports: the answer is not looked at.
AnyReportsBlind(i) ==
  /\ loop[i] = "reports"
  /\ IF i \in changed THEN At(i, "died") ELSE At(i, "report")
  /\ UNCHANGED <<client, unavailable, acked, applied, mail, health, faults>>

\* ... and move it; it throws, out of the loop, when the collection has changed.
AnyReports(i) ==
  /\ loop[i] = "reports"
  /\ IF i \in changed THEN At(i, "died")
     ELSE IF acked[i] = queued[i] THEN At(i, "messages")
     ELSE At(i, "report")
  /\ UNCHANGED <<client, unavailable, acked, applied, mail, health, faults>>

\* Mutant of SendReport: the report is removed before it is sent.
SendReportOnce(i) ==
  /\ loop[i] = "report"
  /\ acked' = [acked EXCEPT ![i] = @ + 1]
  /\ \/ /\ applied' = [applied EXCEPT ![i] = acked[i] + 1]
        /\ At(i, "messages")
        /\ UNCHANGED <<unavailable, health, faults>>
     \/ /\ Lose(i)
        /\ \/ applied' = [applied EXCEPT ![i] = acked[i] + 1]
           \/ UNCHANGED applied
  /\ UNCHANGED <<client, mail>>

\* The first report is sent and then removed; a call that fails may have reached
\* the twin.
SendReport(i) ==
  /\ loop[i] = "report"
  /\ \/ /\ applied' = [applied EXCEPT ![i] = acked[i] + 1]
        /\ acked' = [acked EXCEPT ![i] = @ + 1]
        /\ At(i, "messages")
        /\ UNCHANGED <<unavailable, health, faults>>
     \/ /\ Lose(i)
        /\ \/ applied' = [applied EXCEPT ![i] = acked[i] + 1]
           \/ UNCHANGED applied
        /\ UNCHANGED acked
  /\ UNCHANGED <<client, mail>>

AnyMessages(i) ==
  /\ loop[i] = "messages"
  /\ IF i \in changed THEN At(i, "died")
     ELSE IF i \notin mail THEN Turn(i)
     ELSE At(i, "batch")
  /\ UNCHANGED <<client, unavailable, acked, applied, mail, health, faults>>

\* All messages are taken out of the collection and sent: those of a call that
\* fails are dropped.
SendBatch(i) ==
  /\ loop[i] = "batch"
  /\ mail' = mail \ {i}
  /\ \/ Turn(i) /\ UNCHANGED <<unavailable, health, faults>>
     \/ Lose(i)
  /\ UNCHANGED <<client, acked, applied>>

SendLoop(i) ==
  /\ \/ Wake(i) \/ Create(i) \/ AnyReports(i) \/ SendReport(i) \/ AnyMessages(i)
     \/ SendBatch(i)
  /\ UNCHANGED <<device, stop, changed, queued>>
=============================================================================
