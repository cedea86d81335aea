# Verification of the IoT remote monitoring solution

TLA+ models, TLC runs and TLAPS proofs for the Azure IoT remote monitoring
solution with its location-jerk extension: the device administration library and
web API, the event processor, the device simulator, and the scripts of the
portal that run in the browser. The server code keeps its state in stores that share no transaction (IoT Hub
identities and twins, a DocumentDB collection, Azure tables and blobs), reaches
each of them by a call that can fail, and is run by many request threads, event
processors and jobs at once. What is worth checking is therefore what a sequence
of calls leaves behind when another one interleaves with it or when one of them
fails. The scripts of the portal run one handler at a time, but what a page
shows is put together from answers that come in any order, late or not at all;
there it is worth checking that the page, its buttons and the requests that are
on their way agree.

## 1. The system

| Part | State | Operations | Talks to |
|---|---|---|---|
| Device lifecycle: `DeviceLogic` | none of its own; identity registry and twins (`IotHubRepository`, `IoTHubDeviceManager`), device documents (`DeviceRegistryRepository*`), simulator table (`VirtualDeviceTableStorage`) | add, remove, enable/disable, update, command, DeviceInfo | called by `DeviceApiController`, `DeviceController`, the DeviceInfo processor, the bootstrap of the web job; calls `DeviceRulesLogic` |
| Retry: `AzureRetryHelper` | retry counter | call with retries | wraps the identity registry |
| Device rules: `DeviceRulesLogic`, `DeviceRulesRepository` | rules table, a blob per minute with the whole table for Stream Analytics | save, enable, delete, delete all, bootstrap | read by Stream Analytics |
| Location rules: `LocationRulesLogic`, `LocationRulesRepository` | rules table, one fixed blob | save, enable, delete | read by Stream Analytics |
| Location jerk: `LocationJerkRepository`, `ActionProcessor` | one blob with the list of jerk locations and their devices | merge a telemetry event, read | event processor writes, `LocationJerkLogic` reads |
| Action mappings: `ActionMappingRepository`, `ActionMappingLogic` | one blob of rule to action | save, read, initialise | `ActionProcessor` reads |
| Event processors: `EventProcessor.WebJob` | leases and checkpoints of the Event Hub, processor dictionary of `EventProcessorFactory` | open, process, checkpoint, close, start, stop | Event Hub, device lifecycle, action logic |
| Feedback: `MessageFeedbackProcessor` | none; command history inside the device document | complete or abandon a feedback message | never started: the call in `Program.cs:58` is commented out |
| Simulator: `Simulator.WebJob` | simulator table (read), the running devices and their cancellation tokens | poll the table, start and stop devices, answer commands and methods | IoT Hub |
| Filters: `FilterLogic`, `DeviceListFilterRepository` | two tables (filters, suggested clauses), a static "default initialised" flag | save, rename, delete, schedule, suggest | web UI, jobs |
| Jobs: `JobRepository`, `JobController` | job table beside the IoT Hub jobs, with the name of each job's filter | schedule, cancel, rename, clear | IoT Hub jobs, filters |
| Name cache, icons, user settings, keys, registrations, ICCIDs | small tables and blobs | save, read, delete | web UI |
| Telemetry and alert readers | none, blobs are read only | query | web UI |
| Web UI, list pages: `DeviceRulesIndex`, `LocationRulesIndex`, `JobIndex`, `DeviceIndex` with `DeviceDetails`, `DeviceListColumns`, `DeviceFilter` | grid, selected and marked row, details pane with its title and buttons, what covers page and pane, requests on their way, timers of draws, the cookie of the selected device | list, sort, select, check several, open an editor, enable, cancel, save a filter, schedule | web API |
| Web UI, dashboard: `DashboardDevicePane`, `AlertHistory`, `MapPane`, `JobIndicators` | chosen device, timers, chart, alert table with marks, map with pins and selected locations | choose a device, poll, delete locations | web API |
| Controllers, other views, deployment scripts | none | | |

How the parts meet: a request thread of the web application, the DeviceInfo
processor and the bootstrap job all call the same repositories without a lock.
The simulator follows the simulator table by polling. Stream Analytics follows
the blobs. The event processor follows the Event Hub and checkpoints after each
batch whether or not a batch was handled. The pages of the portal ask the web
API, each part of a page with requests of its own, and share what they select by
callbacks and a cookie.

What is hard, by part:

* **Lifecycle**: four stores, no transaction, two hand-written rollbacks and a
  revert, retries of calls that may have been applied, check-then-act on a
  collection without a unique key, and a document that several writers read,
  change and upsert whole.
* **Rules**: uniqueness by check-then-act on a table without conditions; a
  snapshot of the table written to a blob by each writer, so an older snapshot
  can overwrite a newer one.
* **Location jerk, action mappings**: read-merge-write of one blob where the data
  and the ETag that guards it are fetched by separate calls.
* **Event processors**: at-least-once delivery, leases that move, failures that
  are swallowed before the checkpoint, start and stop that race.
* **Simulator**: devices are stopped by cancelling a token without waiting; each
  transport has a send loop that shares its client and two collections with the
  callbacks of the device, and makes its client anew after a failure.
* **Filters, jobs**: a static flag that is set before the work it stands for, a
  renaming that inserts and then deletes, a uniqueness check by
  check-then-act, and names repeated in the table of jobs by tasks nobody waits
  for.
* **Web UI**: answers to requests for something else than what is selected by
  now; requests that are aborted on one page and not on another; covers that
  every failure has to take away; a timer between a draw and the selection of
  its row; a second table after the columns were changed; polling that must
  survive every failure and must not multiply.

What makes each part correct:

| Part | Correct means |
|---|---|
| Lifecycle | the four stores agree on a device whenever nothing runs on it and nothing failed without compensation; no device has two documents; no update creates a device; every operation ends |
| Device rules, location rules | one rule per data field (per point); no lost change; the newest blob says what the table says; a blob that may be read is not written |
| Location jerk, action mappings | what was checkpointed is stored, and stored once; a save loses nothing somebody else stored; every message is handled |
| Event processors | a host that is stopped stops; its dictionary holds the open processors; a batch that failed is not forgotten |
| Simulator | the devices of the table run, once each; their reports reach the twin in order; the send loop never ends by itself; "Down" is counted right |
| Filters, jobs | one filter per name and one row per id, a renaming never loses a filter, a job shows the name of its filter |
| Web UI, list pages | nothing stays covered; buttons, title, keys and marked row belong to what the pane shows; one device is selected or several are checked; what is selected stays so across draws |
| Web UI, dashboard | polling goes on, once; old answers do not replace new ones; what is selected is visible; each part shows an answer at last |

## 2. Plan

In this order; the first seven are done, the others are what is left.

| | Modules | Composes | Abstract specification | Runs | Theorems |
|---|---|---|---|---|---|
| 1 | `DeviceLifecycle`, `DeviceOverlap`, `MCDeviceLifecycle`, `MCDeviceOverlap`, `DeviceLifecycleProofs`, `DeviceSerialProofs` | | | `device_*` | types, registries agree and documents are unique for callers nothing orders; the serial invariant, stores agree |
| 2 | `RulesStore`, `MCRulesStore`, `RulesStoreProofs` | | `RuleRegister`: a rule is a register | `rules_*` | types, blobs of the future, refinement of the registers, one rule per field, the newest blob |
| 3 | `LocationJerk`, `MCLocationJerk`, `LocationJerkProofs` | blob, lease and workers | | `jerk_*` | types, versions, consistent merges, what is checkpointed is stored, and stored once |
| 4 | `DeviceTransport`, `Simulator`, `SimulatorProofs` | the devices' transports and the manager | | `sim_one` | types, one instance per device, initialisation, order of reports, "Down" |
| 5 | `DetailsPane`, `GridPage`, `DevicePage`, `Portal`, `MCPortal`, `PortalProofs` | the pages in one window with the cookie they share | | `portal_pages` | every property of the run |
| 6 | `TelemetryPane`, `AlertMap`, `Dashboard`, `DashboardProofs` | telemetry, alerts with map, indicators on one page | | `dashboard_polls` | every safety property of the run |
| 7 | `FilterStore`, `MCFilterStore`, `FilterProofs` | filters and the names in the job table | | `filters_calls` | types, unique names, one row per filter, renaming, names of jobs |
| 8 | `LocationRules` | the table operations of `RulesStore`, taken out into a module of their own | `RuleRegister` | joins `rules_serial` | one rule per point |
| 9 | `ActionMapping` | the blob of `LocationJerk`, taken out likewise | a map of registers | one run with two web jobs and a user | versions, as for `LocationJerk` |
| 10 | `CommandHistory` | the documents of `DeviceLifecycle` with commands, packets and methods | a log nobody loses entries of | one run | the document a writer holds |
| 11 | `ProcessorHost` | start, stop, the dictionary of processors, the DeviceInfo processor | | one run, with the liveness of `Stop` | |
| 12 | commands, methods and the device management jobs of a simulated device | `Simulator` | | joins `sim_one` | |

Every invariant and every action property the passing runs check is stated by a
theorem; of the existing modules only liveness is left to the runs.

## 3. Modules

Every server module makes one action of one call to a store or a service: the code
awaits each call, holds no lock across it, and another thread can run before and
after it. What happens between two calls is local to a thread and is part of the
action of the call before or after. Every module of the portal makes one action
of one handler: a click, the answer or the failure of a request, a timer; a
browser runs them one at a time. Data is abstracted to what the properties
tell apart.

### 3.1 `DeviceLifecycle`

| State | Code |
|---|---|
| `hub` | the identities of the IoT Hub with status, the twin's `HubEnabledState` tag and the ETag (`IotHubRepository`) |
| `docs` | the DocumentDB collection, keyed by document id, not by device (`DeviceRegistryRepository`) |
| `virt` | the table the simulator reads (`VirtualDeviceTableStorage`) |
| `ruled` | the devices with rows in the rules table |
| `pc`, `job` | the request threads: next call, local variables |
| `tries` | `currentRetry` of `AzureRetryHelper` |
| `gap` | history: what a failure left behind that the code does not compensate |

The actions are named after the operation and the call: `Add*` is
`AddDeviceAsync` (validation, identity, twin, the lookup and the upsert of the
document, tag, simulator table, rollback), `Rm*` is `RemoveDeviceAsync`, `St*`
is `UpdateDeviceEnabledStatusAsync` with its revert, `Up*` is what
`UpdateDeviceAsync`, `SendCommandAsync` and `UpdateDeviceFromDeviceInfoPacketAsync`
have in common: read a copy, change it, check, save. `Retry` repeats a call of
the identity registry as `AzureRetryHelper` does. A call is refused, is applied
with its answer lost, or the process dies before it.

`gap` deserves a word. The code compensates some failures (the two rollbacks and
the revert) and gives up on others (a rollback that fails itself, a crash, a
lost answer). The agreement of the stores is claimed for the former; an action
adds to `gap` exactly where the code logs or loses the failure. A facet in `gap`
is not checked, so a dropped rollback is found (the mutant of `AddRollback`)
while a failed one is not reported. `SaveRule` is a rule saved from a form:
`SaveDeviceRuleAsync` does not ask whether the device is still there, so a form
posted after a removal leaves rules of a device that is gone, and the facet
`rules` of that device goes into `gap`. A revert writes the opposite of what was
asked for; where that is not the status of before (a disable of a disabled device
fails), what it leaves goes into `gap` too.

`DeviceOverlap` runs `DeviceLifecycle` with callers nothing orders, and adds two
histories: `again`, the calls that retry a rollback that was applied with its
answer lost, and `overrun`, the devices on which one operation ran over another.
The code lets this happen in four ways (`Overruns`), and the module shows that
there is no fifth:

| | |
|---|---|
| `RemovesUnderAdd` | a removal deletes the identity of an add that is not finished |
| `RollsBackTwice` | a rollback is retried although it was applied, and takes or gives an identity that is another operation's by now |
| `LeavesToAdd` | the rollback of a removal ends with the identity of an add that is not finished, and may still undo it |
| `SavesRemoved` | an upsert brings back a document that was removed since it was read |

On every other device the identity registry, which refuses to create an identity
twice, is the lock that keeps documents unique and the registries together.

### 3.2 `RulesStore` and `RuleRegister`

`rows` is the rules table (field, enabled, number of changes, ETag), `blobs` the
blob of each minute, `now` the clock, `stale` whether the last change was left
unpublished by a failure, `met` (a history too) the pairs of rules one of which was
written while a save of the other was past its check, with the same data field. Users open a rule and post it later with the ETag they
saw (`Open`, `Submit`), or start `New`, `Toggle`, `Delete`, `Clear`
(`RemoveAllRulesForDeviceAsync`). `Check` is the uniqueness test of
`SaveDeviceRuleAsync`; `Retrieve`, `Replace`, `Insert` and `DeleteRow` are
`AzureTableStorageClient`; `Snapshot`, `Name` and `Upload` are what
`BuildBlobEntityListFromTableRows` and `PersistRulesToBlobStorageAsync` do after
each change. A rule's content is the number of changes made to it: a change that
was computed from an old content shows as a number that does not grow by one.

`RuleRegister` is what the table promises: each rule is created, changed by
atomic read-modify-write steps, deleted. `RulesStore` implements it by mapping a
row to its number of changes.

### 3.3 `LocationJerk`

`blob` is the one blob of jerk locations with its ETag, `owner` and `checkpoint`
the lease and the checkpoint of each partition, `pos`, `pc` and `job` the
`ActionProcessor` of each worker and the users who delete locations. `Take`
handles one message of a batch, `Save` and `Throw` are the two ways to the
checkpoint, `Exists`, `Download` and `FetchEtag` are the three requests of
`GetLocationJerksAndEtagAsync`, `Upload` the conditional write of the merge.
Leases are lost (`LoseLease`), hosts die (`Crash`), a checkpoint or a save fails.
Items are good, without jerks, without device id, or blank, which are the cases
the merge tells apart.

### 3.4 `DeviceTransport` and `Simulator`

| State | Code |
|---|---|
| `table` | the simulator table, edited by `DeviceLogic` |
| `poll`, `read` | `BulkDeviceTester.ProcessDevicesAsync` |
| `tasks`, `cancelled` | `DeviceManager._tasks` and the tokens of the `TaskDetail`s |
| `pc` | `DeviceBase.StartAsync` of each started instance |
| `client`, `unavailable`, `stop`, `loop` | `_deviceClient`, `isDeviceClientAvailable`, `_cts`, and the next step of `SendLoop` |
| `queued`, `acked`, `applied` | reports are numbered: `_reports` holds `acked + 1 .. queued`, and the twin was last given `applied` |
| `mail`, `changed` | `_messages` is not empty; the collection under the loop's enumerator was changed |
| `health` | `StateCollection<DeviceClientState>` |

An instance is one start of a device, so a device that is removed and added
again has two, the first of which may still be closing. `Callback` stands for a
method, a desired property or a task they started, which hand over a report at
any time from the first method handler on. The two reports of `InitializeAsync`
are added without waiting in between and count as one. `_reports.Any()` is
two steps because the enumerator is taken and moved without the lock: `Wake`,
`Create` or the end of the report branch take it, `AnyReports` and `AnyMessages`
move it. `Release` empties the transport of an instance that is done: nothing
reads it any more, and without that the model would tell apart states that
behave alike. `Restart` is a crash of the web job or the forced restart of
`Program.RunAsync`.

### 3.5 `FilterStore`

| State | Code |
|---|---|
| `rows` | the table of filters; the key of a row is its id and its name (`DeviceListFilterRepository`) |
| `jobs` | the table of jobs: each job's filter and the name repeated there (`JobRepository`) |
| `updates` | the updates of job rows that `UpdateAssociatedFilterNameAsync` has started and nobody awaits |
| `call` | what each request thread is doing: next request, the id it was given, the id it is about, the names and jobs it has read |
| `mixed` | history: filters two operations of which overlapped, or one of which was left half done |
| `revived` | history: filters that were written again although they had been renamed or deleted, or their name given away |
| `contested` | history: names two filters were given at the same time |

`SaveFilter`, `NewFilter`, `DeleteFilter`, `ScheduleJob` begin what
`FilterLogic` and `JobController` do, `InitializeDefaultFilter` what an instance
does when it starts. `QueryJobs`, `FindFilter`, `ReadFilter`, `CheckName`,
`Retrieve`, `Write`, `DeleteOld`, `ReadAgain`, `Return`, `RemoveRow` and `AddJob`
are the requests to the tables in the order of the code: a renaming inserts the
row with the new name and then deletes the old one. `Fail` is an exception, a
lost answer or the end of the instance at any request; `Abort` adds the filter to
`mixed` where the code leaves something half done.

The histories keep apart three things the code does nothing about. Calls overlap
or stop half way (`mixed`), and two checks for one name pass before either writes
(`contested`): no condition at the table orders such calls. The third needs no
second call: a start of an instance writes the built-in filters under their first
names whatever became of them, and a page that saves a filter deleted in the
meantime renames the jobs it left, although the filter gets a new id
(`revived`). One row per filter and the names of jobs are claimed for filters that
are in neither `mixed` nor `revived` (`Excepted`); unique names for names that are
not in `contested`, unless one of the two is a built-in filter in `revived` under
its first name.

The default filter "All Devices" has no row that can be changed and is left out,
and `TouchFilter` changes nothing the model has.

### 3.6 `DetailsPane`, `GridPage`, `DevicePage`, `Portal`

`DetailsPane` is what the list pages share: the grid (`rows`, `lists`), the
cover of the page (`covered`), and the pane (`visible`, `content`, `spinner`,
`target`, `asks`, `posts`). A request for a panel is answered (`Filled`) however
much has been asked for since, because the code does not abort it; `raced` is
the history of that: two requests for the pane were on their way at once.
`lists` has an entry for each list request, TRUE once a later one was answered.

`GridPage` has the pages of rules (of devices and of locations, whose scripts
are the same here) and of jobs: `ListAnswered` with its draw, `ClickRow`,
`SortOrPage`, `DetailsShown`, `DetailsRefused`, `RetryDetails`, `SendChange`,
`ChangeAnswered`. `selected`, `deflt` and `mark` are the selected id, the row
the next draw will select and the row with the class `selected`. The two kinds
of page differ in `Reload`: `JobIndex` aborts the request before, the others
do not.

| State of `DevicePage` | Code |
|---|---|
| `cookie` | the cookie `device-id` |
| `boot`, `filterReady`, `bound` | what the page waits for before it has a table (columns, clauses, filter); `initialized` of the filter; how often the handlers of the table were attached |
| `marked`, `choice`, `known`, `ticks` | marked rows; the row and the flag `_setDefaultRowAndPage` will use; draws whose timer has not run |
| `loader`, `asked` | the request `self.loader` can abort; the panel the title names |
| `multi` | `selectedDeviceIds`, the checked devices |
| `saving`, `change`, `keys` | a filter that is being saved; the change sent from the pane; whose keys it shows |

`ColumnsRead` to `FilterAnswered` bring the page up; `DevicesListed` draws and
`Tick` is the timer that selects the row or closes the pane; `ClickDevice`,
`CheckDevice`, `EditColumns`, `ScheduleJob`, `ListAgain`, `SaveSelected`,
`FilterOpened` are the user's; `PanelShown`, `PanelRefused`, `StatusAnswered`,
`KeysAnswered`, `SimRemoved`, `ColumnsSaved` the answers in the pane.

`Portal` puts the pages into one window: `Navigate` and `RemoveDevice` load a
page, which loses every variable and every request but the cookie.

What is assumed of the browser: what is covered cannot be clicked, and a timer
without delay runs before the next answer or click. Of the server: any list, any
failure, any order of answers. One case is narrowed: an answer to a list request
from before the columns were saved comes once there is a table again.

### 3.7 `TelemetryPane`, `AlertMap`, `Dashboard`

`TelemetryPane` is `DashboardDevicePane`: `UpdateDeviceId` clears the timer it
remembers and sends a request, `Answered` and `Refused` set the timer,
`RefreshData` is the timer. `timerId` tells a timer that will fire from one that
has fired, which `clearTimeout` does not. `requests` has the device of each
request and whether a later answer for it was shown; `picks` and `overlaps` count
choices and those made while a request was on its way.

`AlertMap` is `AlertHistory` with `MapPane`: `asking`/`ticking` are the request
and the timer of the table, `rows` and `marked` its rows, `map` what became of
the map (`absent` without a key in the page, `asked` until its key has come),
`pins`, `chosen` and `box` the pins, the locations selected for deletion and the
box that lists them.

`Dashboard` composes both with the indicators of jobs: `Choose` marks the chosen
device among the alerts, `Deleted` reloads the page.

## 4. Runs

Deadlock is checked in the device runs, where a caller can always start
something, and on the dashboard, which always polls. The other models stop at
their bounds on operations, messages, edits or starts; in `portal_pages` and
`filters_calls` nobody has to ask for anything.

| Run | Question | Shows |
|---|---|---|
| `device_serial` | one caller after the other, every operation, every fault: do the stores agree, and does every operation end? | the inductive invariant `SerialInv`; `StoresAgree` (status, tag, simulator table and rules of a device at rest agree with its document); `Terminates` |
| `device_pair` | two callers on one device add, remove and update; calls are refused, answers lost, calls retried, processes die: is the identity registry enough of a lock? | `OneDocument`, `RegistriesMatch`: yes, but for the four ways of `Overruns` |
| `device_resurrect` | does an update create a device, which its summary excludes? | violated: a removal between the check and the upsert |
| `device_rollback` | is the document there when a removal rolls back, as its comment assumes? | violated: a removal deletes the identity of an add that has no document yet |
| `rules_serial` | requests that take turns, every failure | `BlobCurrent` |
| `rules_race` | two users on the rules of one device at once, answers lost | `UniqueField` (but for saves that were past the check at once), `NoLostChange` (the refinement of `RuleRegister`), `FutureBlobsOnly` |
| `jerk_one` | one partition handed over by crashes | `CheckpointedStored`, `StoredOncePerDelivery`, `Drained` |
| `jerk_two` | two partitions and a user on one blob, stolen leases | `ConsistentMerge` |
| `sim_one` | a device added, removed and added again, with a fault or a restart | `OneWanted`, `InitSafe`, `DownJustified`, `InOrder`, `Delivered`, `FollowsTable` |
| `portal_pages` | three pages in one window, lists that change, answers in any order: does the window stay usable and do its parts agree? | `CoveredForAnswer`, `ButtonsActOnShown`, `MarkIsTarget`, `PaneShowsAsked`, `SelectionIsOne`, `StaysSelected` |
| `dashboard_polls` | a device that changes while requests are on their way, failures, a late map key | `PollingGoesOn`, `NoOldTelemetry`, `MarksAreSeen`, `PartsAreShown` |
| `filters_calls` | two calls at once on the same filters, each table request of which may fail | `UniqueNames`, `OneRowPerFilter`, `JobsAgree`, `RenamingKeeps` |

Each passing run but `device_pair`, `rules_race` and `jerk_two`, whose
modules another run covers, also checks the type invariant.

### Bounds, and why they are enough

* Device runs: one device, because the operations of different devices touch
  different rows; two processes, because every hazard is a race of two calls;
  documents and ETags beyond those a run can hold at once are interchangeable
  (symmetry sets of `MCDeviceLifecycle` and `MCDeviceOverlap`). `RetryCount` 2
  lets a retry meet the effect of a call whose answer was lost and fail again.
  `device_pair` has `RetryCount` 1, so that a rollback whose answer was lost is
  made again, and every fault; three documents and two ETags, which is what two
  callers and a finished operation hold. It leaves out enabling and disabling
  (`"status"`), which neither create nor delete identity or document, for the
  size of the instance; the theorems about the same properties have them.
  `device_resurrect` and `device_rollback` look for one counterexample each and
  need no retry.
* Rules runs: two rules of one device and two fields for the races, three rules of
  two devices and two fields for the serial run; `MaxOps` operations (3 or 4)
  are a change, its rival, and what repairs or hides it. `Lookahead` 2 is
  `blobSaveMinutesInTheFuture`; `MaxDelay` 1 is the delay the comment on it
  reckons with; `MaxMinute` lets a blob's minute come.
* Jerk runs: three messages of one partition, one of which throws half way, or
  three of two partitions; five items, one of each kind and two of one location.
  `MaxFaults` 3 allows a crash of each owner and a failing save or checkpoint.
* Simulator runs: one device, as devices share nothing but the table and the
  ratio; three starts (the first, one after a fault, one after an edit), two
  edits (remove and add), one fault, and two reports of an instance: that of
  its initialisation and one callback before or after it.
* `portal_pages`: two items, so that one can be selected while another one is
  answered; `MaxAsks` 1 request per panel and `MaxPanels` 2 requests of the pane
  at once, enough for an answer to overtake another; `MaxLists` 2 list requests,
  one overtaking the other; `MaxTicks` 2, so that the table is made twice and a
  draw has two timers. The type, the marks and the requests are proved for every
  bound, so the run is there to find out cheaply.
* `dashboard_polls`: two devices chosen up to three times (`MaxPicks`): away, and
  back to the first while its earlier request is still on its way; one location,
  as locations do not meet; `MaxPosts` 1 deletion.
* `filters_calls`: a built-in filter and another one, three names (one shared
  "unnamed"), two jobs; `MaxRequests` 5 allows a filter to be made, given a job
  and renamed while another call is on it. Two calls at once, because the
  properties speak of pairs of rows, and a third call can only put a filter into
  `mixed` sooner.

### Fairness

* `device_serial`: weak fairness of each process's next call. A request thread
  that was started runs on; callers need not start anything.
* `jerk_one`: weak fairness of a worker's steps, among them taking a free lease.
  The Event Hub host renews and acquires leases by a timer of its own.
* `sim_one`: weak fairness of the poll, of each `StartAsync` and of each send
  loop: all three are loops around a timer, run by the thread pool. Edits,
  callbacks, telemetry, faults and restarts are never owed. `FollowsTable` is
  an "eventually always" and so speaks of runs in which the table and the hub
  calm down, which the bounds on edits and faults make all of them.
* `dashboard_polls`: timers fire and every request ends (weak fairness of
  `RefreshData`, `ReloadGrid`, `IndicatorsTimer` and of the end of a request,
  answered or not), and one that is made again and again is answered at last
  (strong fairness of an answer): a server that is down for ever shows nothing.
  Choices, selections, deletions and the key of the map are never owed.

## 5. Proofs

TLAPS checks every theorem below for all values of the constants that satisfy
the named assumptions of the modules (sets of any size, any number of processes,
faults and operations).

* **Device lifecycle.** `TypeCorrect` has one lemma per group of calls; that the
  retry counter stays within `RETRY_COUNT` is part of it. `RegistriesAgree` and
  `DocumentsUnique` are about `DeviceOverlap`: any number of callers that nothing
  orders, every operation, fault and retry. Neither property is inductive;
  `OverlapInv` adds that the add which created an identity is the only one, and
  that no document is there when it is about to insert one (`Locked`), where the
  two registries stand while adds and removals are under way (`Between`), and that a
  document in hand is of the device it was read for (`DocumentsHeld`). A call
  concerns one device, and a device in `overrun` stays there, so that each call has
  to be looked at only on its own device and where it is not one of `Overruns`.
  `SerialInvariant` and `DeviceStoresAgree` assume `Serial`: they say what each
  operation does by itself, a crash included. `SerialInv` says where an operation stands in the middle
  (`Midway`: after the identity was created and before the document was,
  the reverse for a removal), that the document about to be inserted is new and
  the document held exists. A call concerns one device, so the proof shows for
  each call where it leaves its process and its device, and one lemma lifts that
  to the others. `StoresAgree` speaks of devices at rest too. Its invariant
  `Story` says of every label, and of each of the four facets that `gap` has not
  given up, how far the operation has brought the stores: between the
  replacement of the identity and the update of its twin, for example, the tag
  and the simulator table still follow the status that was read, which is why the
  revert restores them when the call was a change. `CrashStory` shows that
  `CrashSpoils` lists exactly what a dying process may leave behind. TLC finds
  `Story` true on the instance of `device_serial`.
* **Device rules.** `FutureBlobs` needs only `DelayAssumption` (an upload takes
  less minutes than the look-ahead) and the invariant that an upload in progress
  is not late. `RegisterImplemented` rests on `Fresh`: whoever holds the ETag of
  the stored version holds its content, and ETags are given out once.
  `FieldsUnique` is about any number of threads at once; its invariant `Claimed`
  says that a rule with the field a thread is about to write is stored only if the
  two have met, because the check found none and whoever wrote it since saw the
  thread past its check. `BlobsCurrent` assumes `Serial`. `BlobCurrent` speaks of moments when nobody
  publishes; `BlobInv` adds what a thread that publishes has in hand: the view it
  read is that of the table, and the minute it chose is no earlier than that of
  any blob, because blobs are named `Lookahead` minutes after a clock that does not go
  back. The proof needs that there is a data field at all and that `NoField` is
  none of them (`ConstantsAssumption`).
* **Location jerk.** The invariant says that a version number stands for one
  content; `MergesAreConsistent` follows by looking at the merge.
  What is checkpointed is stored only as long as no upload is *blind*
  (`NoBlindUpload`): the ETag is asked for after the bytes
  (`LocationJerkRepository.cs:169`), so that an upload may pass its condition
  although the blob is not the one that was read, or, without a blob, go without
  condition. `StoredUnlessBlind` and `StoredPerDelivery` show that this is the only
  way to lose a jerk or to store it too often, for any partitions, workers, users,
  stolen leases, crashes and failures; the second supposes that every message is
  an event of its own (`DistinctMessages`), as a jerk sent twice is stored twice.
  Their invariants are `Held` (leases and what a writer has in hand), `KeptInv` (an item
  before a checkpoint is stored or was given up; an item before the position of
  the owner is that or in its batch) and `CountInv` (an item is stored, about to be
  merged and still to be delivered at most once more than there were faults).
  `StoredInTurns` and `StoredOnceInTurns` do without the hypothesis in the setting
  of `jerk_one` (`TurnsTaken`: one partition, no stolen lease, no user), where the
  lease alone sees to it that what was read is what is there (`Solo`).
  TLC found `Held`, `KeptInv` and `CountInv` true on an instance with two
  partitions, users and stolen leases whose steps were constrained to `NoBlindUpload`.
* **Simulator.** One invariant for five theorems. Instances are numbered in the
  order of their starts and only a started one has a device; a task is an
  instance of its device; a transport that was not opened is as its constructor
  left it; the twin has the acknowledged reports and at most one more; and
  before the first report nothing was sent, so nothing can have failed, which is
  why the rule "MUST NOT be called after any reports/message sent" is enough for
  the initialize methods.

* **List pages.** Two invariants, one for the pages of rules and jobs (`IInv`)
  and one for the page of devices (`DeviceInv`); each page leaves the variables
  of the other alone (`OffGrid`, `ElsewhereStep`), and a page that is loaded
  starts with both. `ButtonsActOnShown` and `PaneShowsAsked` speak of a pane at
  rest and are not inductive: `OnlyTarget` and `Alone` add that, unless requests
  overlapped, what is on its way is what the buttons act on and what the title
  names, `AskedTarget` and `PaneKnown` that something was asked for at all.
  `NoOldJobs` needs `OneJobList`. `SelectionIsOne` and `StaysSelected` rest on
  `Timers`: while the timer of a draw is due, the row it will select is that of
  the cookie, and a table that was made once has one such timer. `TableKnown`
  says that a table which exists was made.
* **Dashboard.** `DashboardInv` needs only `Started` (nothing runs before a
  device is chosen). That a choice without a request on its way starts no
  further chain follows from `OneTimer`, that no answer is old from
  `NoExtraChain`.
* **Filters.** `Typed` says what a call knows at each of its steps. `NamesUnique`
  rests on a claim for each pair of a call and another filter: what the check has
  established for a name that is about to be written holds until it is written,
  unless the name is excused (`WritesAlone` with `Claims` and `Excused`).
  `RowsSingle` follows from `RowsInv`: on a filter that is not excepted
  one call writes, and what it has read is what is stored (`Known`).
  `JobsFollow` rests on `JobInv`. `JobsAgree` speaks of a filter nothing is on its
  way for; `JobInv` adds for a filter with a call at work what that call knows of
  its jobs (`KnowsJobs`): until the row is written they have the name it
  has, a saving or forced deletion that has gone on has found them all, a
  deletion that was not forced has found none, and a forced deletion has sent
  updates that leave them without a name. `Settled` says that a job has a name or will
  be given it by an update on its way, and by no other update.
  TLC found `JobInv` true on an instance with two calls on the same filters.

`SerialInvariant` states `SerialInv` itself, the invariant the theorems that
assume `Serial` rest on.

Only model-checked: liveness (`Terminates`, `Drained`, `Delivered`,
`FollowsTable`, `PartsAreShown`), which is beyond the prover, and the two
violations of section 6, which are counterexamples.

## 6. What the runs found

1. `UpdateDeviceAsync` brings the document of a removed device back
   (`device_resurrect`).
2. A removal deletes the identity an add has created before the add has inserted
   its document; it finds no document, and its rollback, whose comment assumes that
   the document is still there, registers the identity again (`device_rollback`).

Properties that hold only with a condition say something about the code too:

* `OneDocument` and `RegistriesMatch` except a device on which one operation ran
  over another (`Overruns`, section 3.1): a removal under a running add, a rollback
  made twice because the answer to the first was lost, a removal's rollback that
  leaves the identity to an add which then undoes it, and an upsert of a document that
  was removed. In each of them an identity without document, or two documents, can
  remain.
* `StoresAgree` excepts rules posted for a device that was removed: nothing asks
  whether it is there, and nothing removes them.
* `UniqueField` excepts two rules whose saves were past the check for duplicates at
  once, as nothing orders them.
* `BlobCurrent` is claimed for callers that take turns, and for tables whose last
  change no failed call kept from being published: with two users the older
  snapshot may be uploaded last, and the newest blob misses a change until
  somebody changes a rule again.
* `ConsistentMerge` is claimed for uploads whose bytes and ETag are of one
  version: the first saves of two partitions carry no condition and overwrite
  each other, and any save overwrites what was stored between its download and
  the request for the ETag.
* `Drained` says that every batch is handled and every item settled (stored, thrown
  away with its batch, or of no interest), not that the last message is checkpointed:
  `ActionProcessor` logs a failing checkpoint and goes on, and only the next batch
  makes up for it.
* `Delivered` excepts a send loop that died: a report or a message handed over
  while the loop enumerates the collection ends it for good, and the device runs
  on without it.
* `SelectionIsOne` and `StaysSelected` are claimed for a table that was made once:
  after the columns were saved, each draw has two timers, and the second closes
  what the first has selected.
* `CoveredForAnswer` excepts a filter that could not be loaded or saved: the page
  of devices then stays covered.
* `ButtonsActOnShown` and `PaneShowsAsked` except overlapping requests: the
  answer for the item clicked before may come last.
* `UniqueNames` excepts a name two filters were given at the same time, and a
  built-in filter that a start of the portal wrote again under its first name after
  another filter was given it, or after it was itself renamed or deleted: that
  needs no second call.
* `JobsAgree`, `OneRowPerFilter` and `RenamingKeeps` except filters two calls met on,
  or a call left half done: a failed deletion of the old row leaves a filter with two
  rows, and two saves may update the jobs in the other order, or miss a job that is
  just being scheduled. Without any overlap they except a built-in filter that was
  renamed or deleted and is written again by a start, which gives it a second row or
  brings it back, and a deleted filter which a stale page saves once more: its jobs,
  whose names the deletion had cleared, are given the name of the new one.
* `PollingGoesOn` is about requests that fail. An exception in the handler of an
  answer (`TelemetryHistory.js:210`, on a reading with a field the first one lacks)
  would skip the next timer; the charts are not modelled.

## 7. What is not modelled, and why

* Location rules, action mappings, the hosts of the event processors and the
  command history: planned, see section 2.
* `MessageFeedbackProcessor`: never started.
* Name cache, user settings, keys, registrations, ICCIDs: single table operations
  in which the last writer wins by design. Icons: the copy of a blob is a matter
  of the blob service.
* Telemetry and alert readers: queries without state. Controllers, generated
  resources, deployment scripts: presentation and I/O.
* Vendored scripts (jQuery and its plugins, moment, knockout, bootstrap, the map
  and chart libraries), which are by far the larger part of the JavaScript: not
  this project's code. What they promise (one handler at a time, `abort` runs the
  failure handler at once, a draw event after new rows) is used.
* Of the portal's own scripts: the editor of filters beyond what it does to the
  page, forms and their validation, icons, cellular information, the page of
  locations and its report, actions, the charts, and all texts and layout.
* Inside the modelled parts: the values of device properties and their
  validation; thresholds of rules; the coordinates of jerks and the one-sided
  comparison of jerk lists; what telemetry and reports contain; the receive loop
  of a simulated device beyond the fact that it ends with its token; the client
  that is left open when the wait for a dead send loop throws.
* Of filters: suggested clauses and their hit counters, what a filter selects,
  the order of the recent ones.

Hazards of this code that no property covers yet:

| Where | What |
|---|---|
| `DeviceLogic.cs:257` | a DeviceInfo packet handled after a disable carries the status the device believes and overwrites the stored one |
| `DeviceLogic.cs:345` | the command history is a list inside the document: a command, a packet and a feedback each save their own copy and drop the entries of the others |
| `TelemetryJerkComparer.cs:18` | the comparison of jerk lists is one-sided: the order of two events decides whether they count as equal |
| `ActionEventProcessor.cs:49`, `DeviceEventProcessor.cs:46` | `Stop` waits for a flag that a task cancelled before it began never clears; the timeout it compares with never shrinks |
| `IoTHubWorkaroundTransport.cs:361` | the messages are taken out of the collection before they are sent: those of a failed call are lost |
| `IoTHubWorkaroundTransport.cs:102` | an old instance that finishes closing removes the entry its successor has set |
| `IoTHubWorkaroundTransport.cs:237` | a failed completion of a command is logged and swallowed: the command is delivered again and handled twice |
| `DeviceBase.cs:452` | a method handler that is set while the client is gone is registered by no later client |
| `DeviceManager.cs:52` | one device of a list that is known already ends the start of those after it |
| `ActionMappingRepository.cs:78` | the ETag that guards a save is fetched after the bytes it stands for, and is empty without a blob |
| `ActionMappingLogic.cs:47` | two web jobs both find no mapping and write the defaults, over what a user has changed meanwhile |
| `LocationRulesRepository.cs:274`, `LocationRulesLogic.cs:125` | an older snapshot can replace a newer one in the one blob; two saves for one point both find no duplicate |
| `DeviceAdministrationProcessor.cs:91` | an item that throws ends its message and the batch is checkpointed all the same |
| `BlobStorageClient.cs:93` | the source of a moved blob is deleted while the copy it feeds may be pending |
| `FilterLogic.cs:35` | the updates of two saves of a filter run in the other order, or one fails unseen: `JobsAgree` excepts both |
| `JobController.cs:226` | a filter renamed while a job for it is being scheduled: the job is written down with the old name, which `JobsAgree` excepts |
| `DeviceListFilterRepository.cs:265` | hit counters are read, added to and replaced without a condition |
| `DeviceDetails.js:55`, `:69` | the cellular view and its way back use what was remembered from the details before |
| `DeviceRuleProperties.js:51` | the answer to the form of one rule changes what is shown by then |
| `LocationsIndex.js:55` | the default location is not selected if it is the first row |
| `MapPane.js:33`, `:252` | nothing handles a map key that does not come; the map is fitted to the first answer only |
| `DeviceFilter.js:150`, `:210` | a filter that is loaded while another one is edited replaces it; a failed "save as" leaves the filter without its id |
| `DeviceFilter.js:389` | an edit that is cancelled restores the filter of before, whatever was loaded meanwhile |
