--------------------------- MODULE SimulatorProofs ---------------------------
(***************************************************************************)
(* Proofs about Simulator: type correctness, that no device runs unknown   *)
(* to DeviceManager, that the initialize methods of the transport find a   *)
(* client, that reports are applied in order, and what "Down" stands for.  *)
(***************************************************************************)
EXTENDS Simulator, FiniteSetTheorems, TLAPS

USE BoundsAssumption, SimulatorAssumption DEF Inst

\* Instances are numbered as they start, and only a started one has a device.
Numbered ==
  \A i \in Inst : /\ pc[i] = "none" <=> started < i
                  /\ pc[i] = "none" <=> device[i] = NoDevice

\* A task is an instance of its device.
Tasks == \A d \in Device : tasks[d] # NoInst => device[tasks[d]] = d

\* A transport that was not opened is as its constructor left it.
Unopened ==
  \A i \in Inst :
    pc[i] \in {"none", "open"} =>
      /\ loop[i] = "off" /\ i \notin unavailable
      /\ queued[i] = 0 /\ acked[i] = 0 /\ applied[i] = 0

\* The twin has the acknowledged reports, and at most one more.
Counters ==
  \A i \in Inst :
    /\ acked[i] <= applied[i] /\ applied[i] <= acked[i] + 1 /\ applied[i] <= queued[i]
    /\ loop[i] = "report" => acked[i] < queued[i]

\* Before the first report nothing can have failed.
Quiet ==
  \A i \in Inst :
    /\ pc[i] \in Opening \cup {"none"} => i \notin mail
    /\ loop[i] = "batch" => i \in mail
    /\ pc[i] \in Opening \ {"open"} /\ queued[i] = 0 => i \in client /\ i \notin unavailable

\* The inductive invariant.
IInv ==
  /\ TypeOK /\ Numbered /\ Tasks /\ OneWanted /\ Unopened /\ Counters /\ Quiet
  /\ DownJustified

LEMMA InitInv == Init => IInv
BY DEF Init, TransportInit, IInv, TypeOK, TransportTypeOK, Step, Label, Opening, Numbered,
       Tasks, OneWanted, Gone, Unopened, Counters, Quiet, DownJustified

-----------------------------------------------------------------------------
(* The send loop leaves the manager's state alone.                         *)

\* What a step of the send loop may do to the counters of its instance.
CounterStep(i) ==
  \/ UNCHANGED <<acked, applied>>
  \/ /\ loop[i] = "report" /\ applied' = [applied EXCEPT ![i] = acked[i] + 1]
     /\ \/ acked' = [acked EXCEPT ![i] = acked[i] + 1]
        \/ UNCHANGED acked

\* What it may do to the client.
ClientStep(i) ==
  \/ UNCHANGED <<client, unavailable, health>>
  \/ i \in unavailable /\ client' = client \ {i} /\ UNCHANGED <<unavailable, health>>
  \/ /\ client' = client \cup {i} /\ unavailable' = unavailable \ {i}
     /\ health' = [health EXCEPT ![device[i]] = "Up"]
  \/ /\ loop[i] \in {"report", "batch"}
     /\ unavailable' = unavailable \cup {i} /\ UNCHANGED client
     /\ health' = [health EXCEPT ![device[i]] = "Down"]

\* A step of the loop of i that leads to l.
LoopStep(i, l) ==
  /\ l \in Step \ {"off"} /\ loop[i] # "off" /\ loop' = [loop EXCEPT ![i] = l]
  /\ UNCHANGED <<device, stop, changed, queued>>
  /\ l = "report" => acked[i] # queued[i] /\ acked' = acked
  /\ l = "batch" => i \in mail /\ mail' = mail
  /\ mail' \in {mail, mail \ {i}} /\ faults' \in 0..MaxFaults
  /\ CounterStep(i)
  /\ ClientStep(i)

LEMMA LoopEffect ==
  ASSUME IInv, NEW i \in Inst, SendLoop(i)
  PROVE  \E l \in Step : LoopStep(i, l)
<1> USE DEF IInv, TypeOK, TransportTypeOK, Fault
<1>t. ASSUME Turn(i) PROVE \E l \in {"ended", "wait"} : At(i, l)
  BY <1>t DEF Turn
<1>1. CASE Wake(i)
  <2>1. PICK l \in {"reports", "create"} : At(i, l) /\ (l = "create" => i \in unavailable)
    BY <1>1 DEF Wake
  <2> QED
    BY <1>1, <2>1 DEF Wake, SendLoop, LoopStep, CounterStep, ClientStep, Step, At
<1>2. CASE Create(i)
  <2>1. CASE At(i, "reports") /\ Set(i, "Up")
    <3>1. LoopStep(i, "reports")
      BY <1>2, <2>1 DEF Create, SendLoop, LoopStep, CounterStep, ClientStep, Step, At, Set, Turn
    <3> QED
      BY <3>1 DEF Step
  <2>2. CASE Fault /\ Turn(i) /\ UNCHANGED <<client, unavailable, health>>
    <3>1. PICK l \in {"ended", "wait"} : At(i, l)
      BY <1>t, <2>2
    <3>2. LoopStep(i, l)
      BY <1>2, <2>2, <3>1 DEF Create, SendLoop, LoopStep, CounterStep, ClientStep, Step, At
    <3> QED
      BY <3>2 DEF Step
  <2> QED
    BY <1>2, <2>1, <2>2 DEF Create
<1>3. CASE AnyReports(i)
  <2>1. PICK l \in {"died", "messages", "report"} :
          At(i, l) /\ (l = "report" => acked[i] # queued[i])
    BY <1>3 DEF AnyReports
  <2> QED
    BY <1>3, <2>1 DEF AnyReports, SendLoop, LoopStep, CounterStep, ClientStep, Step, At
<1>4. CASE SendReport(i)
  <2>1. CASE At(i, "messages") /\ UNCHANGED <<unavailable, health, faults>>
    <3>1. LoopStep(i, "messages")
      BY <1>4, <2>1 DEF SendReport, SendLoop, LoopStep, CounterStep, ClientStep, Step, At,
                        Lose, Turn
    <3> QED
      BY <3>1 DEF Step
  <2>2. CASE Lose(i) /\ UNCHANGED acked
    <3>1. PICK l \in {"ended", "wait"} : At(i, l)
      BY <1>t, <2>2 DEF Lose
    <3>2. CounterStep(i) /\ ClientStep(i)
      BY <1>4, <2>2 DEF SendReport, CounterStep, ClientStep, Lose, Set
    <3>3. LoopStep(i, l)
      BY <1>4, <2>2, <3>1, <3>2 DEF SendReport, SendLoop, LoopStep, Step, At, Lose
    <3> QED
      BY <3>3 DEF Step
  <2> QED
    BY <1>4, <2>1, <2>2 DEF SendReport
<1>5. CASE AnyMessages(i)
  <2>1. PICK l \in {"died", "ended", "wait", "batch"} :
          At(i, l) /\ (l = "batch" => i \in mail)
    BY <1>t, <1>5 DEF AnyMessages
  <2> QED
    BY <1>5, <2>1 DEF AnyMessages, SendLoop, LoopStep, CounterStep, ClientStep, Step, At
<1>6. CASE SendBatch(i)
  <2>1. PICK l \in {"ended", "wait"} : At(i, l)
    BY <1>t, <1>6 DEF SendBatch, Lose
  <2>2. ClientStep(i) /\ faults' \in 0..MaxFaults
    BY <1>6 DEF SendBatch, ClientStep, Lose, Set
  <2> QED
    BY <1>6, <2>1, <2>2 DEF SendBatch, SendLoop, LoopStep, CounterStep, Step, At
<1> QED
  BY <1>1, <1>2, <1>3, <1>4, <1>5, <1>6 DEF SendLoop

LEMMA LoopInv ==
  ASSUME IInv, NEW i \in Inst, SendLoop(i), UNCHANGED <<managerVars, pc>>
  PROVE  IInv'
<1> USE DEF IInv, managerVars
<1>1. PICK l \in Step : LoopStep(i, l)
  BY LoopEffect
<1>2. loop' \in [Inst -> Step] /\ \A j \in Inst : loop'[j] = IF j = i THEN l ELSE loop[j]
  BY <1>1 DEF LoopStep, TypeOK, TransportTypeOK
<1>3. /\ acked' \in [Inst -> Nat] /\ applied' \in [Inst -> Nat]
      /\ \A j \in Inst \ {i} : acked'[j] = acked[j] /\ applied'[j] = applied[j]
      /\ \/ acked'[i] = acked[i] /\ applied'[i] = applied[i]
         \/ /\ loop[i] = "report" /\ applied'[i] = acked[i] + 1
            /\ acked'[i] \in {acked[i], acked[i] + 1}
  <2>0. acked \in [Inst -> Nat] /\ applied \in [Inst -> Nat]
    BY DEF TypeOK, TransportTypeOK
  <2>1. CASE UNCHANGED <<acked, applied>>
    BY <2>0, <2>1
  <2>2. CASE /\ loop[i] = "report" /\ applied' = [applied EXCEPT ![i] = acked[i] + 1]
             /\ acked' = [acked EXCEPT ![i] = acked[i] + 1]
    BY <2>0, <2>2
  <2>3. CASE /\ loop[i] = "report" /\ applied' = [applied EXCEPT ![i] = acked[i] + 1]
             /\ UNCHANGED acked
    BY <2>0, <2>3
  <2> QED
    BY <1>1, <2>1, <2>2, <2>3 DEF LoopStep, CounterStep
<1>4. queued' = queued /\ queued \in [Inst -> 0..MaxReports] /\ device' = device
  BY <1>1 DEF LoopStep, TypeOK, TransportTypeOK
<1>5. Counters' /\ \A j \in Inst : acked'[j] <= queued'[j]
  <2>1. l = "report" => acked'[i] = acked[i] /\ acked[i] # queued[i]
    BY <1>1, <1>3 DEF LoopStep, CounterStep
  <2>2. ASSUME NEW j \in Inst
        PROVE  /\ acked[j] \in Nat /\ applied[j] \in Nat /\ queued[j] \in Nat
               /\ acked[j] <= applied[j] /\ applied[j] <= acked[j] + 1
               /\ applied[j] <= queued[j]
               /\ loop[j] = "report" => acked[j] < queued[j]
    BY <1>4 DEF Counters, TypeOK, TransportTypeOK
  <2>3. ASSUME NEW j \in Inst
        PROVE  /\ acked'[j] <= applied'[j] /\ applied'[j] <= acked'[j] + 1
               /\ applied'[j] <= queued'[j]
               /\ loop'[j] = "report" => acked'[j] < queued'[j]
    <3>1. CASE j = i
      BY <1>2, <1>3, <1>4, <2>1, <2>2, <3>1
    <3>2. CASE j # i
      BY <1>2, <1>3, <1>4, <2>2, <3>2
    <3> QED
      BY <3>1, <3>2
  <2>4. \A j \in Inst : acked'[j] \in Nat /\ applied'[j] \in Nat /\ queued'[j] \in Nat
    BY <1>3, <1>4
  <2> QED
    BY <2>3, <2>4 DEF Counters
<1>6. client' \subseteq Inst /\ unavailable' \subseteq Inst
      /\ health' \in [Device -> {"Up", "Down", "none"}]
  BY <1>1 DEF LoopStep, ClientStep, TypeOK, TransportTypeOK
<1>7. TypeOK'
  BY <1>1, <1>2, <1>3, <1>4, <1>5, <1>6 DEF LoopStep, TypeOK, TransportTypeOK
<1>8. Numbered' /\ Tasks' /\ OneWanted'
  BY <1>4 DEF Numbered, Tasks, OneWanted, Gone
<1>9. Unopened'
  <2>2. \A j \in Inst \ {i} : j \in unavailable' <=> j \in unavailable
    BY <1>1 DEF LoopStep, ClientStep
  <2>3. pc[i] \notin {"none", "open"}
    BY <1>1 DEF LoopStep, Unopened
  <2> QED
    BY <1>2, <1>3, <1>4, <2>2, <2>3 DEF Unopened
<1>10. Quiet'
  <2>1. ASSUME NEW j \in Inst
        PROVE  /\ pc'[j] \in Opening \cup {"none"} => j \notin mail'
               /\ loop'[j] = "batch" => j \in mail'
    BY <1>1, <1>2 DEF LoopStep, Quiet
  <2>2. ASSUME NEW j \in Inst, pc'[j] \in Opening \ {"open"}, queued'[j] = 0
        PROVE  j \in client' /\ j \notin unavailable'
    <3>1. j \in client /\ j \notin unavailable /\ j \notin mail
      BY <1>4, <2>2 DEF Quiet
    <3>2. loop[j] \notin {"report", "batch"}
      BY <1>4, <2>2, <3>1 DEF Quiet, Counters, TypeOK, TransportTypeOK
    <3> QED
      BY <1>1, <3>1, <3>2 DEF LoopStep, ClientStep
  <2> QED
    BY <2>1, <2>2 DEF Quiet
<1>11. DownJustified'
  BY <1>1 DEF LoopStep, ClientStep, TypeOK, TransportTypeOK, DownJustified
<1> QED
  BY <1>5, <1>7, <1>8, <1>9, <1>10, <1>11

-----------------------------------------------------------------------------
(* The device: StartAsync, its callbacks and its telemetry.                *)

\* Moving on without touching the transport.
LEMMA GotoInv ==
  ASSUME IInv, NEW i \in Inst, ~Gone(i),
         NEW l \in {"methods", "desired", "twin", "run", "close", "await", "client"},
         pc[i] = "open" => l = "close",
         l \in Opening => pc[i] \in Opening,
         Goto(i, l), UNCHANGED managerVars,
         UNCHANGED <<device, client, unavailable, loop, changed, queued, acked, applied,
                     mail, health>>,
         stop' \subseteq Inst, faults' \in 0..MaxFaults
  PROVE  IInv'
<1> USE DEF IInv, managerVars
<1>1. pc' \in [Inst -> Label] /\ \A j \in Inst : pc'[j] = IF j = i THEN l ELSE pc[j]
  BY DEF Goto, TypeOK, Label, Opening
<1>2. TypeOK'
  BY <1>1 DEF TypeOK, TransportTypeOK
<1>3. Numbered' /\ Tasks' /\ OneWanted'
  BY <1>1 DEF Numbered, Tasks, OneWanted, Gone
<1>4. Unopened' /\ Counters' /\ Quiet' /\ DownJustified'
  BY <1>1 DEF Unopened, Counters, Quiet, DownJustified, Opening, Gone
<1> QED
  BY <1>2, <1>3, <1>4

LEMMA OpenInv ==
  ASSUME IInv, NEW i \in Inst, pc[i] = "open", OpenAsync(i), Goto(i, "methods"),
         UNCHANGED managerVars
  PROVE  IInv'
<1> USE DEF IInv, managerVars
<1>1. pc' \in [Inst -> Label] /\ \A j \in Inst : pc'[j] = IF j = i THEN "methods" ELSE pc[j]
  BY DEF Goto, TypeOK, Label, Opening
<1>2. loop' \in [Inst -> Step] /\ \A j \in Inst : loop'[j] = IF j = i THEN "wait" ELSE loop[j]
  BY DEF OpenAsync, At, TypeOK, TransportTypeOK, Step
<1>3. /\ client' = client \cup {i} /\ health' = [health EXCEPT ![device[i]] = "Up"]
      /\ UNCHANGED <<device, unavailable, stop, changed, queued, acked, applied, mail, faults>>
  BY DEF OpenAsync, Set
<1>4. TypeOK'
  BY <1>1, <1>2, <1>3 DEF TypeOK, TransportTypeOK
<1>5. Numbered' /\ Tasks' /\ OneWanted'
  BY <1>1, <1>3 DEF Numbered, Tasks, OneWanted, Gone
<1>6. Unopened' /\ Counters'
  BY <1>1, <1>2, <1>3 DEF Unopened, Counters
<1>7. Quiet'
  BY <1>1, <1>2, <1>3 DEF Unopened, Quiet, Opening
<1>8. DownJustified'
  BY <1>3 DEF DownJustified, TypeOK, TransportTypeOK
<1> QED
  BY <1>4, <1>5, <1>6, <1>7, <1>8

\* Handing over a report, on the way to running or at any later time.
LEMMA ReportInv ==
  ASSUME IInv, NEW i \in Inst, Report(i), UNCHANGED managerVars,
         pc[i] \notin {"none", "open", "done"},
         \/ UNCHANGED pc
         \/ pc[i] = "twin" /\ Goto(i, "run")
  PROVE  IInv'
<1> USE DEF IInv, managerVars
<1>1. /\ pc' \in [Inst -> Label]
      /\ \A j \in Inst : pc'[j] = pc[j] \/ (j = i /\ pc[j] = "twin" /\ pc'[j] = "run")
  BY DEF Goto, TypeOK, Label, Opening
<1>2. /\ queued' \in [Inst -> 0..MaxReports]
      /\ \A j \in Inst : queued'[j] = IF j = i THEN queued[i] + 1 ELSE queued[j]
      /\ changed' \subseteq Inst
      /\ UNCHANGED <<device, client, unavailable, stop, loop, acked, applied, mail, health,
                     faults>>
  BY DEF Report, TypeOK, TransportTypeOK
<1>n. \A j \in Inst :
        /\ acked[j] \in Nat /\ applied[j] \in Nat /\ queued[j] \in Nat
        /\ acked[j] <= applied[j] /\ applied[j] <= acked[j] + 1
        /\ applied[j] <= queued[j] /\ acked[j] <= queued[j]
        /\ loop[j] = "report" => acked[j] < queued[j]
  BY DEF Counters, TypeOK, TransportTypeOK
<1>c. \A j \in Inst :
        /\ acked'[j] <= applied'[j] /\ applied'[j] <= acked'[j] + 1
        /\ applied'[j] <= queued'[j] /\ acked'[j] <= queued'[j]
        /\ loop'[j] = "report" => acked'[j] < queued'[j]
  BY <1>2, <1>n
<1>3. TypeOK'
  BY <1>1, <1>2, <1>c DEF TypeOK, TransportTypeOK
<1>4. Numbered' /\ Tasks' /\ OneWanted'
  BY <1>1, <1>2 DEF Numbered, Tasks, OneWanted, Gone
<1>5. Unopened'
  BY <1>1, <1>2 DEF Unopened
<1>6. Counters'
  BY <1>c DEF Counters
<1>7. Quiet'
  <2>1. \A j \in Inst : queued'[j] = 0 => queued[j] = 0
    BY <1>2, <1>n
  <2> QED
    BY <1>1, <1>2, <2>1 DEF Quiet, Opening
<1>8. DownJustified'
  BY <1>2 DEF DownJustified
<1> QED
  BY <1>3, <1>4, <1>5, <1>6, <1>7, <1>8

LEMMA PostInv ==
  ASSUME IInv, NEW i \in Inst, Telemetry(i)
  PROVE  IInv'
<1> USE DEF IInv, managerVars, Telemetry, Post
<1>1. TypeOK'
  BY DEF TypeOK, TransportTypeOK
<1>2. Numbered' /\ Tasks' /\ OneWanted' /\ Unopened' /\ Counters' /\ DownJustified'
  BY DEF Numbered, Tasks, OneWanted, Gone, Unopened, Counters, DownJustified
<1>3. Quiet'
  BY DEF Quiet, Opening
<1> QED
  BY <1>1, <1>2, <1>3

\* The transports of the instances in S are given up as these end.
LEMMA ReleaseInv ==
  ASSUME IInv, NEW S \in SUBSET Inst, Release(S),
         pc' = [j \in Inst |-> IF j \in S THEN "done" ELSE pc[j]],
         \A j \in S : pc[j] # "none",
         UNCHANGED <<table, read, started, cancelled, edits>>,
         poll' \in {"read", "apply", "ended"}, faults' \in 0..MaxFaults,
         \/ UNCHANGED tasks
         \/ tasks' = [d \in Device |-> NoInst] /\ \A j \in Inst \ S : Gone(j),
         health' \in [Device -> {"Up", "Down", "none"}],
         \A d \in Device : health'[d] \in {health[d], "none"}
  PROVE  IInv'
<1> USE DEF IInv
<1>1. \A j \in Inst : /\ j \in S => pc'[j] = "done"
                      /\ j \notin S => pc'[j] = pc[j]
  OBVIOUS
<1>2. /\ loop' \in [Inst -> Step] /\ queued' \in [Inst -> 0..MaxReports]
      /\ acked' \in [Inst -> Nat] /\ applied' \in [Inst -> Nat]
      /\ \A j \in Inst : /\ loop'[j] = IF j \in S THEN "ended" ELSE loop[j]
                         /\ queued'[j] = IF j \in S THEN 0 ELSE queued[j]
                         /\ acked'[j] = IF j \in S THEN 0 ELSE acked[j]
                         /\ applied'[j] = IF j \in S THEN 0 ELSE applied[j]
  BY DEF Release, TypeOK, TransportTypeOK, Step
<1>3. /\ client' = client \ S /\ stop' = stop \cup S /\ changed' = changed \ S
      /\ mail' = mail \ S /\ UNCHANGED <<device, unavailable>>
  BY DEF Release
<1>n. \A j \in Inst :
        /\ acked[j] \in Nat /\ applied[j] \in Nat /\ queued[j] \in Nat
        /\ acked[j] <= applied[j] /\ applied[j] <= acked[j] + 1
        /\ applied[j] <= queued[j] /\ acked[j] <= queued[j]
        /\ loop[j] = "report" => acked[j] < queued[j]
  BY DEF Counters, TypeOK, TransportTypeOK
<1>c. \A j \in Inst :
        /\ acked'[j] <= applied'[j] /\ applied'[j] <= acked'[j] + 1
        /\ applied'[j] <= queued'[j] /\ acked'[j] <= queued'[j]
        /\ loop'[j] = "report" => acked'[j] < queued'[j]
  <2> TAKE j \in Inst
  <2>1. CASE j \in S
    <3>1. loop'[j] = "ended" /\ queued'[j] = 0 /\ acked'[j] = 0 /\ applied'[j] = 0
      BY <1>2, <2>1
    <3> QED
      BY <3>1
  <2>2. CASE j \notin S
    <3>1. /\ loop'[j] = loop[j] /\ queued'[j] = queued[j]
          /\ acked'[j] = acked[j] /\ applied'[j] = applied[j]
      BY <1>2, <2>2
    <3> QED
      BY <1>n, <3>1
  <2> QED
    BY <2>1, <2>2
<1>4. TransportTypeOK'
  BY <1>2, <1>3, <1>c DEF TypeOK, TransportTypeOK
<1>5. TypeOK'
  <2>1. pc' \in [Inst -> Label] /\ tasks' \in [Device -> Inst \cup {NoInst}]
    BY DEF TypeOK, Label
  <2> QED
    BY <1>4, <2>1 DEF TypeOK
<1>6. Numbered'
  BY <1>1, <1>3 DEF Numbered
<1>7. Tasks' /\ OneWanted'
  BY <1>1, <1>3 DEF Tasks, OneWanted, Gone
<1>8. Unopened' /\ Counters'
  BY <1>1, <1>2, <1>3, <1>c DEF Unopened, Counters
<1>9. Quiet'
  BY <1>1, <1>2, <1>3 DEF Quiet, Opening
<1>10. DownJustified'
  BY <1>3 DEF DownJustified
<1> QED
  BY <1>5, <1>6, <1>7, <1>8, <1>9, <1>10

LEMMA StartAsyncInv ==
  ASSUME IInv, NEW i \in Inst, StartAsync(i)
  PROVE  IInv'
<1>u. /\ stop \subseteq Inst /\ faults \in 0..MaxFaults /\ poll \in {"read", "apply", "ended"}
      /\ health \in [Device -> {"Up", "Down", "none"}]
  BY DEF IInv, TypeOK, TransportTypeOK
<1>f. ASSUME Fails
      PROVE  /\ faults' \in 0..MaxFaults /\ stop' \subseteq Inst
             /\ UNCHANGED <<device, client, unavailable, loop, changed, queued, acked, applied,
                            mail, health>>
  BY <1>f, <1>u DEF Fails, Fault
<1>1. CASE OpenTransport(i)
  <2>1. CASE OpenAsync(i) /\ Goto(i, "methods")
    BY <1>1, <2>1, OpenInv DEF OpenTransport
  <2>2. CASE Fails /\ Goto(i, "close")
    BY <1>1, <1>f, <2>2, GotoInv DEF OpenTransport, Gone, Opening
  <2> QED
    BY <1>1, <2>1, <2>2 DEF OpenTransport
<1>2. CASE SetMethodHandlers(i)
  BY <1>2, <1>u, GotoInv DEF SetMethodHandlers, transportVars, Gone, Opening
<1>3. CASE SetDesiredCallback(i)
  BY <1>3, <1>u, GotoInv DEF SetDesiredCallback, transportVars, Gone, Opening
<1>4. CASE GetTwin(i)
  <2>1. CASE Report(i) /\ Goto(i, "run")
    BY <1>4, <2>1, ReportInv DEF GetTwin
  <2>2. CASE Goto(i, "close") /\ UNCHANGED transportVars
    BY <1>4, <1>u, <2>2, GotoInv DEF GetTwin, transportVars, Gone, Opening
  <2>3. CASE Fails /\ Goto(i, "close")
    BY <1>4, <1>f, <2>3, GotoInv DEF GetTwin, Gone, Opening
  <2> QED
    BY <1>4, <2>1, <2>2, <2>3 DEF GetTwin
<1>5. CASE EndLoops(i)
  BY <1>5, <1>u, GotoInv DEF EndLoops, transportVars, Gone, Opening
<1>6. CASE CloseTransport(i)
  <2>1. CASE Goto(i, "client") /\ UNCHANGED transportVars
    BY <1>6, <1>u, <2>1, GotoInv DEF CloseTransport, transportVars, Gone, Opening
  <2>2. CASE Goto(i, "await") /\ Cancel(i)
    BY <1>6, <1>u, <2>2, GotoInv DEF CloseTransport, Cancel, Gone, Opening
  <2> QED
    BY <1>6, <2>1, <2>2 DEF CloseTransport
<1>d. ASSUME Goto(i, "done") PROVE pc' = [j \in Inst |-> IF j \in {i} THEN "done" ELSE pc[j]]
  BY <1>d DEF Goto, IInv, TypeOK
<1>7. CASE AwaitLoop(i)
  <2>1. CASE Goto(i, "client") /\ UNCHANGED transportVars
    BY <1>7, <1>u, <2>1, GotoInv DEF AwaitLoop, transportVars, Gone, Opening
  <2>2. CASE Goto(i, "done") /\ Release({i}) /\ UNCHANGED <<health, faults>>
    BY <1>7, <1>u, <1>d, <2>2, ReleaseInv DEF AwaitLoop, managerVars
  <2> QED
    BY <1>7, <2>1, <2>2 DEF AwaitLoop
<1>8. CASE CloseDevice(i)
  <2>1. /\ health' \in [Device -> {"Up", "Down", "none"}] /\ faults' \in 0..MaxFaults
        /\ \A d \in Device : health'[d] \in {health[d], "none"}
    BY <1>8, <1>u DEF CloseDevice, CloseClient, Set, Fault
  <2> QED
    BY <1>8, <1>u, <1>d, <2>1, ReleaseInv DEF CloseDevice, CloseClient, managerVars
<1> QED
  BY <1>1, <1>2, <1>3, <1>4, <1>5, <1>6, <1>7, <1>8 DEF StartAsync

-----------------------------------------------------------------------------
(* The table, the poll and the web job.                                    *)

LEMMA EditInv ==
  ASSUME IInv, Edit
  PROVE  IInv'
BY DEF IInv, Edit, transportVars, TypeOK, TransportTypeOK, Numbered, Tasks, OneWanted, Gone,
       Unopened, Counters, Quiet, DownJustified

LEMMA ReadTableInv ==
  ASSUME IInv, ReadTable
  PROVE  IInv'
<1> USE DEF IInv
<1>1. /\ UNCHANGED <<device, client, unavailable, stop, loop, changed, queued, acked,
                     applied, mail, health, pc, table, started, edits>>
      /\ faults' \in 0..MaxFaults /\ poll' \in {"apply", "ended"} /\ read' \subseteq Device
  BY DEF ReadTable, Fails, Fault, transportVars, TypeOK, TransportTypeOK
<1>2. /\ cancelled' \subseteq Inst /\ tasks' \in [Device -> Inst \cup {NoInst}]
      /\ cancelled \subseteq cancelled'
      /\ \/ UNCHANGED <<tasks, cancelled>>
         \/ /\ tasks' = [d \in Device |-> NoInst]
            /\ \A d \in Device : tasks[d] # NoInst => tasks[d] \in cancelled'
  BY DEF ReadTable, StopDevices, TypeOK
<1>3. TypeOK'
  BY <1>1, <1>2 DEF TypeOK, TransportTypeOK
<1>4. Tasks'
  BY <1>1, <1>2 DEF Tasks
<1>5. OneWanted'
  <2>1. \A i \in Inst : ~Gone(i) => device[i] \in Device
    BY DEF Gone, Numbered, TypeOK, TransportTypeOK
  <2> QED
    BY <1>1, <1>2, <2>1 DEF OneWanted, Gone
<1>6. Numbered' /\ Unopened' /\ Counters' /\ Quiet' /\ DownJustified'
  BY <1>1 DEF Numbered, Unopened, Counters, Quiet, DownJustified
<1> QED
  BY <1>3, <1>4, <1>5, <1>6

LEMMA RestartInv ==
  ASSUME IInv, Restart
  PROVE  IInv'
<1> DEFINE S == 1..started
<1>1. S \in SUBSET Inst /\ started \in 0..MaxStarts
  BY DEF IInv, TypeOK
<1>2. pc' = [j \in Inst |-> IF j \in S THEN "done" ELSE pc[j]]
  BY <1>1 DEF Restart
<1>3. (\A j \in S : pc[j] # "none") /\ \A j \in Inst \ S : Gone(j)
  BY <1>1 DEF IInv, Numbered, Gone
<1>4. faults' \in 0..MaxFaults
  BY DEF Restart, Fault, IInv, TypeOK, TransportTypeOK
<1> QED
  BY <1>1, <1>2, <1>3, <1>4, ReleaseInv DEF Restart

LEMMA ApplyInv ==
  ASSUME IInv, Apply
  PROVE  IInv'
<1> USE DEF IInv
<1> DEFINE new == read \ Live
           first == started + 1
           last == started + Cardinality(new)
<1>1. Cardinality(new) \in Nat
  BY FS_Subset, FS_CardinalityType DEF TypeOK
<1>2. started \in Nat /\ last \in 0..MaxStarts /\ started <= last /\ first..last \subseteq Inst
  <2>1. started \in 0..MaxStarts
    BY DEF TypeOK
  <2>2. last <= MaxStarts
    BY DEF Apply
  <2> QED
    BY <1>1, <2>1, <2>2
<1> HIDE DEF last, new, first
<1>3. PICK f \in Bijection(new, first..last) :
       /\ tasks' = [d \in Device |-> IF d \in new THEN f[d]
                                     ELSE IF d \in Live \cap read THEN tasks[d]
                                     ELSE NoInst]
       /\ device' = [i \in Inst |-> IF i \in first..last
                                    THEN CHOOSE d \in new : f[d] = i ELSE device[i]]
       /\ pc' = [i \in Inst |-> IF i \in first..last THEN "open" ELSE pc[i]]
  BY DEF Apply, last, new, first
<1>4. /\ f \in [new -> first..last]
      /\ \A i \in first..last : \E d \in new : f[d] = i
      /\ \A d, e \in new : f[d] = f[e] => d = e
  BY DEF Bijection, Injection, Surjection, IsInjective
<1>5. /\ UNCHANGED <<client, unavailable, stop, loop, changed, queued, acked, applied, mail,
                     health, faults, table, read, edits>>
      /\ started' = last /\ poll' = "read"
      /\ cancelled' = cancelled \cup ({tasks[d] : d \in Live \ read} \ {NoInst})
  BY DEF Apply, StopDevices, last, new
<1>6. new \subseteq Device /\ new \cap Live = {} /\ Live \subseteq Device
  BY DEF new, Live, TypeOK
<1>7. \A i \in first..last : pc[i] = "none" /\ device[i] = NoDevice /\ i # NoInst
  BY <1>2 DEF Numbered, first
<1>8. ASSUME NEW d \in new PROVE device'[f[d]] = d
  BY <1>2, <1>3, <1>4, <1>8
<1>9. ASSUME NEW i \in Inst, i \notin first..last PROVE device'[i] = device[i] /\ pc'[i] = pc[i]
  BY <1>3, <1>9
<1>10. \A i \in first..last : device'[i] \in new /\ f[device'[i]] = i /\ pc'[i] = "open"
  BY <1>2, <1>3, <1>4
<1>11. TypeOK'
  <2>1. device' \in [Inst -> Device \cup {NoDevice}]
    BY <1>2, <1>3, <1>6, <1>9, <1>10 DEF TypeOK, TransportTypeOK
  <2>2. pc' \in [Inst -> Label]
    BY <1>3 DEF TypeOK, Label, Opening
  <2>3. tasks' \in [Device -> Inst \cup {NoInst}]
    BY <1>2, <1>3, <1>4 DEF TypeOK
  <2>4. cancelled' \subseteq Inst
    BY <1>5, <1>6 DEF TypeOK
  <2> QED
    BY <1>2, <1>5, <2>1, <2>2, <2>3, <2>4 DEF TypeOK, TransportTypeOK
<1>12. Numbered'
  <2>1. ASSUME NEW i \in Inst
        PROVE  (pc'[i] = "none" <=> last < i) /\ (pc'[i] = "none" <=> device'[i] = NoDevice)
    <3>1. CASE i \in first..last
      BY <1>2, <1>6, <1>10, <3>1 DEF first
    <3>2. CASE i \notin first..last
      BY <1>2, <1>9, <3>2 DEF first, Numbered
    <3> QED
      BY <3>1, <3>2
  <2> QED
    BY <1>5, <2>1 DEF Numbered
<1>13. Tasks'
  <2>1. ASSUME NEW d \in Device, tasks'[d] # NoInst PROVE device'[tasks'[d]] = d
    <3>1. CASE d \in new
      BY <1>3, <1>8, <3>1
    <3>2. CASE d \notin new
      <4>1. tasks'[d] = tasks[d] /\ tasks[d] \in Inst /\ device[tasks[d]] = d
        BY <1>3, <2>1, <3>2 DEF Tasks, TypeOK
      <4>2. tasks[d] \notin first..last
        BY <1>7, <4>1
      <4> QED
        BY <1>9, <4>1, <4>2
    <3> QED
      BY <3>1, <3>2
  <2> QED
    BY <2>1 DEF Tasks
<1>14. OneWanted'
  <2>1. ASSUME NEW i \in Inst, pc'[i] \notin {"none", "done"}, i \notin cancelled'
        PROVE  tasks'[device'[i]] = i
    <3>1. CASE i \in first..last
      BY <1>3, <1>6, <1>10, <3>1
    <3>2. CASE i \notin first..last
      <4>1. ~Gone(i) /\ i \notin cancelled /\ device'[i] = device[i]
        BY <1>5, <1>9, <2>1, <3>2 DEF Gone
      <4>2. device[i] \in Device
        BY <4>1 DEF Gone, Numbered, TypeOK, TransportTypeOK
      <4>3. tasks[device[i]] = i /\ device[i] \in Live
        BY <4>1, <4>2 DEF OneWanted, Live, Gone
      <4>4. device[i] \in read
        BY <1>5, <2>1, <4>3
      <4> QED
        BY <1>3, <1>6, <4>1, <4>2, <4>3, <4>4
    <3> QED
      BY <3>1, <3>2
  <2> QED
    BY <2>1 DEF OneWanted, Gone
<1>15. Unopened' /\ Counters' /\ Quiet'
  <2>1. ASSUME NEW i \in Inst PROVE pc'[i] = pc[i] \/ (pc[i] = "none" /\ pc'[i] = "open")
    BY <1>7, <1>9, <1>10
  <2> QED
    BY <1>5, <2>1 DEF Unopened, Counters, Quiet, Opening
<1>16. DownJustified'
  <2>1. ASSUME NEW i \in Inst, device[i] \in Device PROVE device'[i] = device[i]
    BY <1>7, <1>9, <2>1
  <2> QED
    BY <1>5, <2>1 DEF DownJustified
<1> QED
  BY <1>11, <1>12, <1>13, <1>14, <1>15, <1>16
-----------------------------------------------------------------------------
(* The theorems.                                                           *)

LEMMA NextInv ==
  ASSUME IInv, [Next]_vars
  PROVE  IInv'
<1>1. CASE Edit \/ ReadTable \/ Apply \/ Restart
  BY <1>1, EditInv, ReadTableInv, ApplyInv, RestartInv
<1>2. ASSUME NEW i \in Inst, StartAsync(i) PROVE IInv'
  BY <1>2, StartAsyncInv
<1>3. ASSUME NEW i \in Inst, Callback(i) PROVE IInv'
  <2>1. pc[i] \notin {"none", "open", "done"}
    BY <1>3 DEF Callback, Gone
  <2> QED
    BY <1>3, <2>1, ReportInv DEF Callback
<1>4. ASSUME NEW i \in Inst, Telemetry(i) PROVE IInv'
  BY <1>4, PostInv
<1>5. ASSUME NEW i \in Inst, SendLoop(i), UNCHANGED <<managerVars, pc>> PROVE IInv'
  BY <1>5, LoopInv
<1>6. CASE UNCHANGED vars
  BY <1>6 DEF vars, transportVars, IInv, TypeOK, TransportTypeOK, Numbered, Tasks, OneWanted,
              Gone, Unopened, Counters, Quiet, DownJustified
<1> QED
  BY <1>1, <1>2, <1>3, <1>4, <1>5, <1>6 DEF Next

\* The variables of the simulator keep their types, whatever happens.
THEOREM TypeCorrect == Spec => []TypeOK
<1>1. Spec => []IInv
  BY InitInv, NextInv, PTL DEF Spec
<1>2. IInv => TypeOK
  BY DEF IInv
<1> QED
  BY <1>1, <1>2, PTL

\* No device runs twice: an instance that was not told to stop is always the
\* one that _tasks has for its device, through polls, removals, restarts and
\* while a predecessor is still closing.
THEOREM OneWantedHolds == Spec => []OneWanted
<1>1. Spec => []IInv
  BY InitInv, NextInv, PTL DEF Spec
<1>2. IInv => OneWanted
  BY DEF IInv
<1> QED
  BY <1>1, <1>2, PTL

\* The initialize methods of the transport find a client as long as nothing was
\* handed over to be sent: the rule IoTHubWorkaroundTransport states is enough.
THEOREM InitSafeHolds == Spec => []InitSafe
<1>1. Spec => []IInv
  BY InitInv, NextInv, PTL DEF Spec
<1>2. IInv => InitSafe
  BY DEF IInv, Quiet, InitSafe
<1> QED
  BY <1>1, <1>2, PTL

\* A device in the StateCollection is down only by a failure of one of its
\* instances that has not been made good.
THEOREM DownJustifiedHolds == Spec => []DownJustified
<1>1. Spec => []IInv
  BY InitInv, NextInv, PTL DEF Spec
<1>2. IInv => DownJustified
  BY DEF IInv
<1> QED
  BY <1>1, <1>2, PTL

\* What InOrder says of the step of an instance.
OneMore(i) ==
  applied'[i] # applied[i] /\ pc'[i] # "done" =>
    applied'[i] = applied[i] + 1 /\ applied'[i] <= queued[i]

LEMMA LoopInOrder ==
  ASSUME IInv, NEW j \in Inst, SendLoop(j), NEW i \in Inst
  PROVE  OneMore(i)
<1>1. PICK l \in Step : LoopStep(j, l)
  BY LoopEffect
<1>2. /\ acked[i] \in Nat /\ applied[i] \in Nat /\ queued[i] \in Nat
      /\ acked[i] <= applied[i] /\ applied[i] <= acked[i] + 1
      /\ loop[i] = "report" => acked[i] < queued[i]
  BY DEF IInv, TypeOK, TransportTypeOK, Counters
<1>3. \/ applied'[i] = applied[i]
      \/ loop[i] = "report" /\ applied'[i] = acked[i] + 1
  BY <1>1 DEF LoopStep, CounterStep, IInv, TypeOK, TransportTypeOK
<1> QED
  BY <1>2, <1>3 DEF OneMore

LEMMA NextInOrder ==
  ASSUME IInv, [Next]_vars, NEW i \in Inst
  PROVE  OneMore(i)
<1>r. ASSUME NEW S \in SUBSET Inst, Release(S), \A j \in S : pc'[j] = "done"
      PROVE  OneMore(i)
  BY <1>r DEF Release, OneMore, IInv, TypeOK, TransportTypeOK
<1>u. ASSUME UNCHANGED applied PROVE OneMore(i)
  BY <1>u DEF OneMore
<1>1. CASE Edit \/ ReadTable \/ Apply \/ UNCHANGED vars
  BY <1>1, <1>u DEF Edit, ReadTable, Fails, Apply, vars, transportVars
<1>2. CASE Restart
  <2>1. 1..started \in SUBSET Inst
    BY DEF IInv, TypeOK
  <2>2. \A j \in 1..started : pc'[j] = "done"
    BY <1>2, <2>1 DEF Restart
  <2> QED
    BY <1>2, <1>r, <2>1, <2>2 DEF Restart
<1>3. ASSUME NEW j \in Inst, StartAsync(j) PROVE OneMore(i)
  <2>1. CASE OpenTransport(j) \/ SetMethodHandlers(j) \/ SetDesiredCallback(j)
    BY <1>u, <2>1 DEF OpenTransport, OpenAsync, Fails, SetMethodHandlers, SetDesiredCallback,
                      transportVars
  <2>2. CASE GetTwin(j) \/ EndLoops(j) \/ CloseTransport(j)
    BY <1>u, <2>2 DEF GetTwin, Report, Fails, EndLoops, CloseTransport, Cancel, transportVars
  <2>3. ASSUME Goto(j, "done"), Release({j}) PROVE OneMore(i)
    <3>1. pc'[j] = "done"
      BY <2>3 DEF Goto, IInv, TypeOK
    <3> QED
      BY <1>r, <2>3, <3>1
  <2>4. CASE AwaitLoop(j)
    BY <1>u, <2>3, <2>4 DEF AwaitLoop, transportVars
  <2>5. CASE CloseDevice(j)
    BY <2>3, <2>5 DEF CloseDevice, CloseClient
  <2> QED
    BY <1>3, <2>1, <2>2, <2>4, <2>5 DEF StartAsync
<1>4. ASSUME NEW j \in Inst, Callback(j) \/ Telemetry(j) PROVE OneMore(i)
  BY <1>4, <1>u DEF Callback, Report, Telemetry, Post
<1>5. ASSUME NEW j \in Inst, SendLoop(j) PROVE OneMore(i)
  BY <1>5, LoopInOrder
<1> QED
  BY <1>1, <1>2, <1>3, <1>4, <1>5 DEF Next

\* Failed calls, clients created anew and reports handed over meanwhile never
\* make the twin miss a report or see two of them swapped.
THEOREM ReportsInOrder == Spec => InOrder
<1>1. Spec => []IInv
  BY InitInv, NextInv, PTL DEF Spec
<1>2. IInv /\ [Next]_vars =>
        [\A i \in Inst : applied'[i] # applied[i] /\ pc'[i] # "done" =>
           applied'[i] = applied[i] + 1 /\ applied'[i] <= queued[i]]_vars
  BY NextInOrder DEF OneMore
<1> QED
  BY <1>1, <1>2, PTL DEF Spec, InOrder
=============================================================================
