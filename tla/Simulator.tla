------------------------------ MODULE Simulator ------------------------------
(***************************************************************************)
(* The device simulator: BulkDeviceTester polls the simulator table,       *)
(* DeviceManager starts and stops the devices, and each device             *)
(* (DeviceBase.StartAsync) opens its transport, registers its callbacks,   *)
(* runs until its token is cancelled and closes the transport.             *)
(*                                                                         *)
(* A device is stopped by cancelling its token and forgetting its task: it *)
(* may still be closing when the next poll starts the same device again.   *)
(***************************************************************************)
EXTENDS DeviceTransport, FiniteSets, Functions

CONSTANTS
  MaxEdits,   \* bound on the changes of the table
  NoInst

ASSUME SimulatorAssumption ==
  /\ IsFiniteSet(Device)
  /\ NoInst \notin Inst
  /\ MaxEdits \in Nat

VARIABLES
  table,      \* the devices of the simulator table
  poll,       \* the next step of ProcessDevicesAsync
  read,       \* the devices it has read
  tasks,      \* _tasks: the instance of each device
  started,    \* instances started so far
  cancelled,  \* the instances whose token is cancelled
  pc,         \* the next step of each instance's StartAsync
  edits       \* changes of the table so far

vars == <<transportVars, table, poll, read, tasks, started, cancelled, pc, edits>>

Opening == {"open", "methods", "desired", "twin"}
Label == Opening \cup {"none", "run", "close", "await", "client", "done"}

Gone(i) == pc[i] \in {"none", "done"}

TypeOK ==
  /\ TransportTypeOK
  /\ table \subseteq Device
  /\ poll \in {"read", "apply", "ended"}
  /\ read \subseteq Device
  /\ tasks \in [Device -> Inst \cup {NoInst}]
  /\ started \in 0..MaxStarts
  /\ cancelled \subseteq Inst
  /\ pc \in [Inst -> Label]
  /\ edits \in 0..MaxEdits

Init ==
  /\ TransportInit
  /\ table \in SUBSET Device
  /\ poll = "read"
  /\ read = {}
  /\ tasks = [d \in Device |-> NoInst]
  /\ started = 0
  /\ cancelled = {}
  /\ pc = [i \in Inst |-> "none"]
  /\ edits = 0

\* DeviceLogic adds a device to the table or removes it.
Edit ==
  \E d \in Device :
    /\ edits < MaxEdits
    /\ edits' = edits + 1
    /\ table' = IF d \in table THEN table \ {d} ELSE table \cup {d}
    /\ UNCHANGED <<transportVars, poll, read, tasks, started, cancelled, pc>>

-----------------------------------------------------------------------------
(* BulkDeviceTester and DeviceManager                                      *)

\* Mutant of Live: completed tasks are kept.
LiveForever == {d \in Device : tasks[d] # NoInst}

\* GetLiveDevices forgets the tasks that have completed.
Live == {d \in Device : tasks[d] # NoInst /\ pc[tasks[d]] # "done"}

\* Mutant of StopDevices: the tasks are only forgotten.
StopDevicesForget(D) == UNCHANGED cancelled

\* StopDevices and StopAllDevices cancel and do not wait.
StopDevices(D) ==
  cancelled' = cancelled \cup ({tasks[d] : d \in D} \ {NoInst})

\* GetDeviceListAsync; an exception, or the end of the web job, leaves the loop.
ReadTable ==
  /\ poll = "read"
  /\ \/ /\ poll' = "apply"
        /\ read' = table
        /\ UNCHANGED <<transportVars, tasks, cancelled>>
     \/ /\ poll' = "ended"
        /\ Fails
        /\ StopDevices(Device)
        /\ tasks' = [d \in Device |-> NoInst]
        /\ UNCHANGED read
  /\ UNCHANGED <<table, started, pc, edits>>

\* The devices that are not in the table are stopped, the new ones started.
Apply ==
  LET new == read \ Live
      first == started + 1
      last == started + Cardinality(new) IN
  /\ poll = "apply"
  /\ poll' = "read"
  /\ last <= MaxStarts
  /\ StopDevices(Live \ read)
  /\ \E f \in Bijection(new, first..last) :
       /\ tasks' = [d \in Device |-> IF d \in new THEN f[d]
                                     ELSE IF d \in Live \cap read THEN tasks[d]
                                     ELSE NoInst]
       /\ device' = [i \in Inst |-> IF i \in first..last
                                    THEN CHOOSE d \in new : f[d] = i ELSE device[i]]
       /\ pc' = [i \in Inst |-> IF i \in first..last THEN "open" ELSE pc[i]]
  /\ started' = last
  /\ UNCHANGED <<client, unavailable, stop, loop, changed, queued, acked, applied, mail,
                 health, faults, table, read, edits>>

-----------------------------------------------------------------------------
(* DeviceBase.StartAsync                                                   *)

managerVars == <<table, poll, read, tasks, started, cancelled, edits>>

Goto(i, l) == pc' = [pc EXCEPT ![i] = l]

\* OpenAsync of the transport; when there is no client, on to the finally block.
OpenTransport(i) ==
  /\ pc[i] = "open"
  /\ \/ OpenAsync(i) /\ Goto(i, "methods")
     \/ Fails /\ Goto(i, "close")
  /\ UNCHANGED managerVars

\* SetupCallbacksAsync, the methods; the hub may call one as soon as it is set.
SetMethodHandlers(i) ==
  /\ pc[i] = "methods"
  /\ Goto(i, "desired")
  /\ UNCHANGED <<transportVars, managerVars>>

\* SetupCallbacksAsync, the desired properties, which needs a client.
SetDesiredCallback(i) ==
  /\ pc[i] = "desired"
  /\ Goto(i, IF i \in client THEN "twin" ELSE "close")
  /\ UNCHANGED <<transportVars, managerVars>>

\* InitializeAsync reports what the twin lacks and then what is desired; nothing
\* waits in between, and the two reports are counted as one.
GetTwin(i) ==
  /\ pc[i] = "twin"
  /\ \/ i \in client /\ Report(i) /\ Goto(i, "run")
     \/ i \notin client /\ Goto(i, "close") /\ UNCHANGED transportVars
     \/ i \in client /\ Fails /\ Goto(i, "close")
  /\ UNCHANGED managerVars

\* A method, a desired property or a task one of them started reports.  The bound
\* leaves room for the report of InitializeAsync.
Callback(i) ==
  /\ ~Gone(i) /\ pc[i] # "open" /\ loop[i] # "off"
  /\ pc[i] \in Opening => queued[i] + 1 < MaxReports
  /\ Report(i)
  /\ UNCHANGED <<managerVars, pc>>

\* StartSendLoopAsync and StartReceiveLoopAsync
Telemetry(i) ==
  /\ pc[i] = "run"
  /\ Post(i)
  /\ UNCHANGED <<managerVars, pc>>

\* Both loops end when the token is cancelled.
EndLoops(i) ==
  /\ pc[i] = "run"
  /\ i \in cancelled
  /\ Goto(i, "close")
  /\ UNCHANGED <<transportVars, managerVars>>

\* CloseAsync: cancel the send loop, wait for it, close the client.
CloseTransport(i) ==
  /\ pc[i] = "close"
  /\ IF loop[i] = "off" THEN Goto(i, "client") /\ UNCHANGED transportVars
     ELSE Goto(i, "await") /\ Cancel(i)
  /\ UNCHANGED managerVars

\* Waiting for a send loop that died throws.
AwaitLoop(i) ==
  /\ pc[i] = "await"
  /\ \/ loop[i] = "ended" /\ Goto(i, "client") /\ UNCHANGED transportVars
     \/ /\ loop[i] = "died" /\ Goto(i, "done")
        /\ Release({i}) /\ UNCHANGED <<health, faults>>
  /\ UNCHANGED managerVars

CloseDevice(i) ==
  /\ pc[i] = "client"
  /\ CloseClient(i)
  /\ Goto(i, "done")
  /\ UNCHANGED managerVars

StartAsync(i) ==
  \/ OpenTransport(i) \/ SetMethodHandlers(i) \/ SetDesiredCallback(i) \/ GetTwin(i)
  \/ EndLoops(i) \/ CloseTransport(i) \/ AwaitLoop(i) \/ CloseDevice(i)

\* The web job is restarted: it crashed, or RunAsync left because more than half
\* of the devices in the StateCollection are down.
Restart ==
  /\ \/ Fault
     \/ /\ 2 * Cardinality({d \in Device : health[d] = "Down"})
             > Cardinality({d \in Device : health[d] # "none"})
        /\ UNCHANGED faults
  /\ poll' = "read"
  /\ tasks' = [d \in Device |-> NoInst]
  /\ pc' = [i \in Inst |-> IF i <= started THEN "done" ELSE pc[i]]
  /\ health' = [d \in Device |-> "none"]
  /\ Release(1..started)
  /\ UNCHANGED <<table, read, started, cancelled, edits>>

Next ==
  \/ Edit \/ ReadTable \/ Apply \/ Restart
  \/ \E i \in Inst :
       \/ StartAsync(i) \/ Callback(i) \/ Telemetry(i)
       \/ SendLoop(i) /\ UNCHANGED <<managerVars, pc>>

Spec == Init /\ [][Next]_vars

\* The poll, each device's StartAsync and each send loop keep going.
FairSpec ==
  /\ Spec
  /\ WF_vars(ReadTable) /\ WF_vars(Apply)
  /\ \A i \in Inst : /\ WF_vars(StartAsync(i))
                     /\ WF_vars(SendLoop(i) /\ UNCHANGED <<managerVars, pc>>)

-----------------------------------------------------------------------------
(* Properties                                                              *)

\* Every device that runs and was not told to stop is the one DeviceManager
\* knows: none runs twice, and none outlives its row in the table for good.
OneWanted ==
  \A i \in Inst : ~Gone(i) /\ i \notin cancelled => tasks[device[i]] = i

\* The rule above the initialize methods of the transport: as long as nothing
\* was handed over to be sent they find a client.
InitSafe ==
  \A i \in Inst :
    pc[i] \in Opening \ {"open"} /\ queued[i] = 0 => i \in client

\* The twin is given the reports of an instance in order, and skips none; a
\* report whose call failed is given again.
InOrder ==
  [][\A i \in Inst : applied'[i] # applied[i] /\ pc'[i] # "done" =>
       applied'[i] = applied[i] + 1 /\ applied'[i] <= queued[i]]_vars

\* A device is counted as down only after a call of one of its instances failed
\* that has not connected again.
DownJustified ==
  \A d \in Device : health[d] = "Down" => \E i \in Inst : device[i] = d /\ i \in unavailable

\* A report reaches the twin, unless the device is stopped, the web job dies or
\* the send loop died.
Delivered ==
  \A i \in Inst : []<>(applied[i] = queued[i] \/ i \in stop \/ loop[i] = "died")

\* The devices of the table run, once each, and no other.
Following ==
  \A d \in Device :
    LET alive == {i \in Inst : device[i] = d /\ ~Gone(i)} IN
    IF d \in table THEN \E i \in Inst : tasks[d] = i /\ alive = {i} /\ pc[i] = "run"
    ELSE alive = {}

\* When the table and the hub calm down, the simulator follows the table, unless
\* its poll has ended.
FollowsTable == <>[](poll = "ended" \/ Following)
=============================================================================
