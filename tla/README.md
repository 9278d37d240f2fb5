# A specification of peakAnalyser

peakAnalyser is an EPICS areaDetector driver for Scienta Omicron electron
analysers. It drives a measurement on a PEAK server over JSON-RPC, accumulates
exposures into images, shows a live spectrum, and lets operators change settings
and start and stop acquisitions at any moment. These TLA+ modules model the
parts of it whose correctness depends on the order in which threads, calls,
replies and notifications happen. TLC checks them on small instances, and TLAPS
proves the main safety properties for every value of the constants.

Line numbers below are those of `peakAnalyserApp/src/peakAnalyser.cpp` unless
another file is named.

## The system

### Threads

| thread | code | what it does |
| --- | --- | --- |
| acquisition task | `acquisitionTask` 347-640 | sets up a measurement, runs exposures, publishes images, cleans up |
| port thread | `writeInt32`, `writeFloat64`, `writeOctet` 809-1150 | operator's writes, each under the driver lock, some with a call to the server in it |
| spectrum task | `spectrumTask` 652-703 | shows the live spectrum, at most once a second |
| notification threads | `NotificationServer::clientHandler`, or the event loop of websocketpp | run the callbacks of subscriptions |
| PEAK server | external | executes calls, acquires, sends notifications |

The task keeps the driver lock only around its accesses to parameters, and
releases it for every call to the server and for the array callbacks. The port
thread keeps it through its calls (`abort()` at 830, the calls of
`setupSpectrumDefinition`). The StateChanged callback (444-454) takes no lock;
the SpectrumUpdate callback (458-477) takes it for its counters and writes
`m_SpectrumLive` without it.

### Components

| component | state | operations | what makes it correct | status |
| --- | --- | --- | --- | --- |
| acquisition task | place in the code, locals, parameters, `startEvent`, `stopEvent` | frame, exposure, setup, cleanup; Start, Stop, image mode; StateChanged callback | an image is exactly NumExposures complete exposures; no Start or Stop is lost; every exposure ends; what was set up is given back | modelled: `AcquisitionTask` |
| PEAK server | measurement state, spectrum, subscriptions | the 13 calls the acquisition makes, the end of an exposure, failure, reset | external: what the driver relies on | modelled: `PeakServer` |
| live spectrum | `m_SpectrumLive`, step counters, progress, `spectrumEvent` | SpectrumUpdate callback, `spectrumTask` | the last point is shown; counters belong to the point they are shown with | modelled: `LiveSpectrum` |
| JSON-RPC over WebSocket | `m_connected`, `m_response`, one event | `call`, `connect`, the handlers | a call returns, and with its own reply | partly: `WebSocketRpc` (not `close` and the destructor) |
| HTTP client | pool of keep-alive sockets | `doRequest`, connect, close | own reply, no leak, retry of closed connections, bounded executions | modelled: `HttpClient`, `RequestExecution` |
| JSON-RPC over HTTP | none of its own | `call`, `subscribe`, `unsubscribe` | see the HTTP client and the notification server | modelled: in `HttpClient` and `NotificationServer` |
| PEAK API wrappers | `guid -> callback` | subscribe, unsubscribe, calls, `getMeasuredSpectrum` | a callback lives as long as its subscription | partly: in `AcquisitionTask` |
| notification server | `_subscribers`, a thread per connection | subscribe, unsubscribe, dispatch, answer | callbacks in order, none after unsubscribe, no end of an exposure lost | partly: `NotificationServer` (not malformed requests, a listener that cannot bind, the end of the IOC) |
| parameters, spectrum definition | ~80 parameters, `m_RequestedAxes`, `m_SpectrumDefinition` | `writeInt32`, `writeFloat64`, `setupSpectrumDefinition`, `setROI`, `setRegion`, `setPassEnergy` | the definition in force is that of the settings, within the limits of lens and detector; what is shown agrees with it | partly: `SpectrumSettings` (not element sets, slits, strings, zeroed supplies) |
| connection to the servers | - | `connectAnalyser` | runs once before any thread; its outcome is the initial state of `AcquisitionTask` and `SpectrumSettings` | partly |
| spectrum data | none | `createAxis`, `integrate`, `fromSpectrumChannel` | the function computed; what happens when the data do not come | partly: `createAxis` in `SpectrumSettings`, the GET of the data in `AcquisitionTask` and `LiveSpectrum` |
| base64, URL and header parsing, EPICS database, IOC, vendored libraries | - | - | strings, configuration, third party | not modelled |

`PROJECT.json` lists the same components with their sources, and the hazards,
each at the line where it bites, with the properties that guard against it.

### What is hard

* A Stop is a write to ADAcquire followed by a call that aborts. The task reads
  ADAcquire at five places (367, 396, 503, 625, 637) and may be anywhere between
  them.
* The end of an exposure is learned from a notification that may come before
  `start()` has returned, twice, late, or after its subscription has ended.
* Any of thirteen calls may fail before or after the server has executed it, also
  in the handler that cleans up after the failure of another. The data of a spectrum
  are fetched by one more request, whose failure nobody looks at (`peakApi.cpp:58`).
* Events are binary semaphores: a signal that nobody waits for stays.
* Keep-alive connections are closed by the server when they are idle; a timeout
  leaves a reply under way on its connection.
* Notifications come in on any number of connections, each with a thread of its own,
  while the task changes the map of callbacks without a lock.
* A setting is written in one scale, limited by two others, sent in a third, and shown
  from the server's answer; any parameter may be written next.

## Modules

| module | about | extends or uses |
| --- | --- | --- |
| `PeakServer` | operators on a server record: what is known, and assumed, of the external server | |
| `AcquisitionTask` | the core: the task, Start and Stop, the callback, the server | `PeakServer` |
| `ImageAcquisition` | what an acquisition promises | |
| `AcquisitionRefinement` | the mapping under which the task keeps that promise | both |
| `LiveSpectrum` | from an update to the point an operator sees | |
| `NotificationServer` | connections, threads and callbacks | `OrderedInbox` |
| `OrderedInbox` | what the acquisition takes for granted of notifications | |
| `SpectrumSettings` | settings and the spectrum definition | |
| `WebSocketRpc`, `HttpClient` | the two ways a call goes to the server | |
| `RequestExecution` | what the server executes of the requests of `HttpClient` | `HttpClient`, `RemoteCall` |
| `RemoteCall` | what a call over HTTP promises | |
| `MCAcquisition`, `MCSettings` | values of constants for TLC | |
| `*Proofs` | the theorems, one module for a component (three for the acquisition) | the component, `TLAPS` |

`LiveSpectrum`, `NotificationServer`, `WebSocketRpc` and `HttpClient` each have the
threads they race with; what they abstract of the acquisition is described below.

A definition marked *Variant* is a plausible mistake in the definition it
precedes. None of the specifications uses one: they show that the properties can
tell the code from its mistakes, each property failing with at least one.

### PeakServer

A server is a record: its state (Active, Measuring, Acquiring, Error), whether a
spectrum is defined, the exposures accumulated to their end since ClearSpectrum,
`cut` (something incomplete has been accumulated too) and the subscriptions.
`Accepts` says which calls succeed in which state, `After` what they leave.
The evidence is in how the driver uses it: the state has to be Active before
`startMeasurement` (427-430), the cleanup leaves the measurement only from
Measuring (566), the end of an exposure is the change to Measuring or Error
(450), and `getMeasuredSpectrum` may return an incomplete spectrum when aborted
(522).

### AcquisitionTask

A step is a critical section of the driver lock, a call to the server, or the
local code between the two. `pc` names the call or section that comes next.

| action | code |
| --- | --- |
| `GoToSleep`, `WakeUp`, `Begin` | 367-402: test of ADAcquire, the wait, the reset |
| `NextFrame`, `SnapshotParameters` | 403-420: parameters copied under the lock |
| `GetState` ... `RegisterUpdate` | 424-480, with `subscribeTo...` of `peakApi.cpp`: subscription at the server, then registration of the callback |
| `ClearSpectrum`, `NextExposure`, `AcquisitionAsync`, `WaitStop`, `Count` | 483-520: the loop over exposures |
| `GetMeasuredSpectrum` ... `FinishMeasurement` | 522-545 |
| `CleanState` ... `CleanMeasurement` | 546-577: the exception handler, and its own |
| `ReportError`, `ReportAborted`, `ReportImage`, `Published`, `EndFrame` | 579-637 |
| `Start`, `Stop`, `CancelAcquisition`, `WriteImageMode` | `writeInt32`; `abort()` is a step of its own because the server and the notification thread go on while the lock is kept |
| `StateChanged` | 444-454, after the dispatch of a notification |
| `ServerCompletes`, `ServerFails`, `ServerRecovers` | external |

A call has four outcomes: it succeeds; the server refuses it; the request is
lost; the reply is lost and the server has executed it. The last three are an
exception. Which calls may be lost is the constant `FaultyCalls`. `Patient`
restricts the operator to start only what is not shown in progress, `Repeats`
lets notifications come again, and `DeviceErrors` lets the analyser fail.

`getMeasuredSpectrum` makes two requests: the call, whose reply says where the data
are, and a GET of them (`peakApi.cpp:46-62`). When the GET fails `get` returns false,
which nobody looks at, and the data stay the zeros they were allocated with; the image is
published and counted all the same. Where `FaultyCalls` has "Attachment" the data of the
spectrum may be "zeros" (`Fetched`). `ImageAcquisition` has the constant `Contents` for
what a published image may hold: it promises whole exposures, and data only if no
GET of them may fail.

The contents of images, attributes, messages and the progress are left out (the
progress is in `LiveSpectrum`). `NumExposures` and `NumImages` are constants,
while ADImageMode changes at any time. Setting a parameter of the spectrum has no
effect on what is modelled here.

### LiveSpectrum

The SpectrumUpdate callback, in its steps: the counters under the lock
(`CountStep`), the assignment of `m_SpectrumLive` (`StoreSpectrum`), the member
IsLast (`FlagLast`) and the trigger (`Trigger`). `spectrumTask` tests
IsLast, reads and shows. The task is reduced to what it shares with them by
reference: `numSteps`, `numStepsCounter`, `numExposuresCounter`. A point is
identified by image, exposure and step; a spectrum read while it is replaced is
a data race, and any mixture may be shown (`Torn`). Whether a second has passed
is left open. The data of the point are fetched while it is shown: `LoseSpectrum` is the
GET that fails, after which zeros are shown (`Blank`), or the exception that is caught at
687-691, after which nothing is; `lost` keeps which point it was. `Estimate` is a write to a setting, which may come during an
acquisition and sets AcqNumSteps back to the estimate.

Notifications are taken one at a time and in the order the server sent them. An event
loop guarantees that by itself; for a thread per connection it is what
`NotificationServer` is shown to implement.

### NotificationServer and OrderedInbox

`NotificationServer::clientHandler` of `JsonRPCClientHTTP.cpp`, one copy for each
connection: it waits for a request (`Receive`, or `SelectFails`, as line 186 never
initialises a set that it passes to select), finds the callback (`Lookup`), runs it
(`StateChanged`, or `TakeLock`, `ReleaseLock` and `Store` for SpectrumUpdate) and
answers. A topic without a callback is answered too. The task is reduced to its
subscriptions and exposures. `_subscribers` is a map without a lock: a change takes
two steps, and what is looked up between them may or may not be found, which is
the least a data race can do.

`StartThrows` is a `start()` that throws: the task goes to the handler of the exception
and takes its callbacks out, whether the analyser acquires or not. When it does,
SpectrumUpdate may be running, or waiting for the driver lock, while its callback is erased;
and what the exposure still sends may reach into the next acquisition. `stray` records
that, until an acquisition begins (the analyser has to be at rest, 427-430) with nothing of it under
way. The calls that throw when nothing is acquired lead to the same steps with nothing to race
with, and an Unsubscribe that throws is in `AcquisitionTask` (`NoStaleCallback`).

A select that fails closes the connection with a request unread. The code loses it; the constant
`Resends` says whether the server sends it again, which the code cannot know.

`OrderedInbox` is the abstract specification: notifications have numbers, the least
one pending is handled, one at a time, and none is dropped while the acquisition
listens. The mapping takes for pending what is in the server's queue or in a
handler before its callback. `Window` is how many requests the server sends before it
has an answer. The code does nothing to keep order by itself: with `Window = 2` TLC
finds two callbacks running at once and notifications out of order. The order rests on
a server that awaits each answer, and that assumption has a name in the proofs
(`OneAtATime`). That none is lost rests on `Resends`: without it TLC finds the end of an
exposure lost, and the task waiting for ever.

### SpectrumSettings

Each parameter that reaches the spectrum definition has an action that is its branch of
`writeInt32` or `writeFloat64`, with what the branch clamps or restores. Most of them
go on to `setupSpectrumDefinition`, in two steps: `Fill` writes
`m_SpectrumDefinition` from the settings (the write ends before it when the analyser has
no such detector mode (1608-1612) or when an energy to sweep is not above zero), `Adjusted` or `AdjustFails` is the call to the server and what is shown
of the answer. The driver lock is held meanwhile, so that no other write comes between,
but `acquisitionTask` takes the definition without it (437): until `Fill` is done,
`DefineSpectrum` finds the old definition, the new one or neither. `Snapshot` is where the
task read the number of steps, under the lock; `FirstUpdate` is the region corrected by
the first update of a spectrum.

The numbers written are any integers, and the module takes them as the code does: `WithinDetector`
is `setROI`, which cuts a region that ends beyond the detector, also to an empty one or one of
negative size, and does not look at where it begins; no exposures may be set, and the time shown
is then 0 / 0, no number, when the next number is set (`PerExposure`; `AcqETA` is
the set of the number shown, empty for NaN). A detector mode may be stored that the analyser
has not. Only lens mode and pass energy are compared with what there is before they are
stored. A negative value of these enumerations, for which the records have no choice, would index
a vector before its begin and is excluded (`WrittenAssumption`).

`DefinitionCurrent` exempts settings with an energy to sweep not above zero, and the
time after a return at the modes (`skipped`); it does not compare the detector mode. `EtaShown`
allows NaN only once no exposures have been set (`zeroed`) and until the next accepted definition.

Quantities are integers in units of the resolution. An axis has a low and a high end,
a centre and a step, each swept or fixed according to the mode. `Count` is the
number of points of a sweep and `AxisData` what `createAxis` makes of it.

### WebSocketRpc

`JsonRPCClientWS`: one connection, one `m_response`, one event for the
connection and for all replies, and one event loop thread that runs the handlers
in order. `Callers` are the threads that call, `LockHolders` those that do so
with the driver lock. A handler for SpectrumUpdate needs that lock. Connections
and ids are model values; a closed connection's value is used again.

### HttpClient

`HTTPClient::doRequest`: the choice of a socket from the pool and its mutex, the
connection, the request, the wait with a timeout, the status line and the rest
of the reply, one retry. A descriptor has a stream: requests the server has not
read, the one it serves and replies to be read. The server may close a
connection at any moment, with or without loss of what it had sent. Timeouts are
always possible: `Select` times out whenever there is nothing to read.

### RequestExecution and RemoteCall

In `HttpClient` what is under way on a connection ends with it. A real server may have
received it all the same. `RequestExecution` has the steps of `HttpClient` and two more
variables: `executions` counts how often a request was executed, `late` the copies whose
connection ended before the server began them. A copy is added when a step of either side
ends the connection (`Follow`), and executed or dropped at any later time
(`ExecuteLate`), also when the call has long returned. Nothing else changes: the client
cannot see either variable, and `Make` only keeps an id from being used again while
a copy of it is left, as ids are a counter in the code (`mMsgId`).

`RemoteCall` is the abstract specification: a thread begins a call, it succeeds or fails,
and returns; meanwhile and afterwards the server executes it some number of times. It says
that a call succeeds only when it was executed, that none is executed more than
`MaxRetries + 1` times, and that the server may still execute only the call in progress and
calls it knew of before.

## Runs

`AcquisitionTask` (with `MCAcquisition`):

* **acq_nominal** - nothing fails, an operator who starts only what is not
  running and stops at any moment, all image modes. While the server acquires,
  ADStatus is such that Stop calls abort (`StopIsEffective`); the task leaves
  the wait only when the exposure is over (`WokenWhenDone`); asleep, it has
  given everything back (`ReleasedAsleep`); a Stop ends the acquisition
  (`StopObeyed`); and it implements `ImageAcquisition` with its fairness
  (`ImplementsImagesFairly`).
* **acq_faults** - any call except FinishSpectrum may be lost, and so may the GET of the
  data of an image. Every published image is made of NumExposures complete exposures,
  though its data may be zeros (`ImageComplete`), the counter never runs ahead of the server
  (`CountedExposuresCompleted`), no callback outlives its subscription
  (`NoStaleCallback`), the cleanup can succeed the next time
  (`CleanupCanSucceed`), and the safety part of the refinement holds
  (`ImplementsImages`). Failures accumulate over acquisitions here, as three guids
  allow for a leaked subscription beside the two in use.
* **acq_any** - an operator who writes Acquire at any moment, device errors, a
  start that may be lost, repeated notifications. No Start is lost
  (`NoLostStart`), a task that waits for the end of an exposure is owed its
  wake-up (`WakeUpOwed`), and every exposure ends (`ExposureEnds`).
* **acq_stop_between** - a disagreement with line 427, see below.

`LiveSpectrum`:

* **live_points** - any GET of data may fail. The last point of a complete acquisition is
  the one shown, or was the last one read and its data did not come (`LastPointShown`), all steps are counted when the task goes on
  (`AllStepsCounted`), the counter belongs to the point (`CounterMatchesPoint`),
  and the progress neither exceeds 100 nor falls within an exposure
  (`ProgressInBounds`).
* **live_dies** - a disagreement with line 649.

`WebSocketRpc`:

* **ws_calls** - one caller and a server that closes connections. A caller that
  waits is owed the signal that wakes it (`SignalOwed`), and every call
  returns (`CallReturns`); until a connection is lost, a call over an open
  connection gets its own reply (`OwnReply`, `AnsweredWhenConnected`) and
  `connect` waits for its connection (`FirstConnectWaits`).
* **ws_deadlock** - a disagreement with 495 and 611-612.

`HttpClient`:

* **http_requests** (of `RequestExecution`) - one caller; refused, lost and closed
  connections, timeouts, error replies, and a server that executes what was given up at
  any later time. A request gets its own reply or fails (`OwnReply`), an idle
  connection has nothing under way (`KeptConnectionsQuiet`), descriptors are
  neither leaked nor used after they were closed (`DescriptorsOwned`), one retry
  makes a closed connection good (`ClosedConnectionRetried`), nobody reads what
  nobody will send (`ReplyOwed`), a request answered at its first attempt has been executed
  exactly once and never will be again (`AnsweredOnce`), each step is one of `RemoteCall`,
  so that nothing is executed more often than it may be sent (`ImplementsRemoteCall`), and
  every request returns (`RequestReturns`). With two callers, who share connections, TLC
  found no violation of `AnsweredOnce` in some fifteen million states, but did not come to
  the end of them.
* **http_crossed** - a disagreement with `HTTPClient.h:26`, with two callers.

`NotificationServer`:

* **notifications** - two connections, acquisitions of two exposures, selects that fail,
  a `start()` that throws, a port that takes the driver lock at any moment. A callback stays
  registered as long as it runs, unless it runs for a `start()` that threw although the analyser
  acquired (`CallbackAlive`; without that exemption TLC finds it violated), notifications are handled in the order sent, each
  once, none lost (`ImplementsOrderedInbox`), the end the task waits for is on its way
  or will be sent (`EndOwed`), and every exposure ends (`EndArrives`).

`SpectrumSettings` (with `MCSettings`):

* **settings** - any three writes, any of them while the task takes the definition.
  The definition in force is the one the settings make (`DefinitionCurrent`), within
  what its lens mode allows, with a detector mode there is and a region that does not end beyond
  the detector (`WithinLimits`); the region shown is that of the
  definition in the scale of the energy mode (`RegionInScale`), the time that of the
  exposures set, or no number after none were (`EtaShown`); a sweep reaches every value between its ends
  (`SweepCoversRange`); the spectrum the server gets is that of the settings unless a
  write came between (`SpectrumOfSettings`).

The type invariants, `DisconnectedSleeps` of `AcquisitionTask` and `ExecutedAtMost` of
`RequestExecution` are proved for all values, and in no run.

### Bounds

| bound | value | why it is enough |
| --- | --- | --- |
| `NumExposures` | 2 (1 in acq_any) | a first and a further exposure, a Stop before, in, between and after them |
| `NumImages`, `MaxImages` | 2 | a first frame (with the setup) and a continued one; the counter is only compared with 0 and NumImages |
| `Guids` | 2; 3 in acq_faults | the two subscriptions, and one that leaked |
| steps, estimate (`LiveSpectrum`) | 2, 3 | a first and a last step; an estimate that is wrong |
| `MaxInbox` | 2 | a notification waiting behind the one being handled and one before it; replies and ends of exposures are never held back |
| `Ids` | 3 or 4 | own, stale and new ids for each caller; ids are used again only when nobody knows them |
| `Connections`, `Fds`, `NumSockets` | 2 | the connection in use and the one before, so that a reused descriptor can be mistaken |
| `MaxRetries` | 1 | the value of `MAX_HTTP_RETRIES` |
| `MaxWrites` | 3 | a write, one that changes the limits of what it wrote, and one that follows; the proofs have no bound |
| values written (`MCSettings`) | one to three a parameter | one inside and one outside of the limits of a lens mode or the detector; energies above and not above zero; steps of -1, 0 and 1; no exposures; regions that begin before the detector, beyond it, are empty or too large; a detector mode there is not |
| `NumExposures`, `Updates` (`NotificationServer`) | 2, 1 | a notification of each kind before the end, and a next exposure |
| `Window`, `Resends` | 1, TRUE | the two assumptions on the server above; with `Window = 2` or `Resends = FALSE` properties of the run are violated |
| `MaxAcquisitions`, `MaxBreaks` | 2, 1 | a late notification of the acquisition before; a notification sent again |

No bound limits how often an operator starts and stops or how many acquisitions
follow each other in `AcquisitionTask` and `LiveSpectrum`: their state spaces are
finite without that. In acq_faults the guids are symmetric and no property is a
liveness property.

CHECK_DEADLOCK is on in every run but notifications, which stops after its last
acquisition.

### Fairness

* The task runs (`WF` of `Task`). The steps that need the driver lock have strong
  fairness: an operator who keeps writing leaves the lock free between two
  writes, and epicsMutex does not starve a waiter for ever. `CancelAcquisition`
  returns, as `abort()` is an HTTP request with a timeout.
* The server ends an acquisition it has accepted, and a notification arrives.
  Both are external and are what line 500 relies on, as the wait has no
  timeout. Nothing is assumed of the operator, of failures, or of recovery.
* `WebSocketRpc`: threads run, a connection opens or fails, and a request is
  answered or lost with its connection.
* `HttpClient`: threads run, and the server completes a reply it has begun,
  since `recv` has no timeout after the first byte (`HTTPCommon.cpp:91`). It
  need not begin one.
* `NotificationServer`: the task and the handlers run, the port gives the lock back,
  the server ends an exposure and sends what it has. A callback that waits for
  the lock gets it in the end (`SF`), though the port may take it any number of times.
* `SpectrumSettings` has safety properties only.

## Proofs

All theorems are for arbitrary values of the constants, restricted only by the
named assumptions of the modules and those stated in the theorem.

**AcquisitionProofs** - in every environment, with any operator, any failures and
any repetition: `TypeCorrect` (`TypeOK`), `StartNeverLost` (`NoLostStart`),
`NeverAwakeDisconnected` (`DisconnectedSleeps`) and `WakeUpNeverLost`
(`WakeUpOwed`). The inductive invariant `AsleepInv` adds three facts to the type
invariant: who holds the lock at which place of the task; asleep with an acquisition
wanted, startEvent is full; without a connection the task stays at its wait with
startEvent empty. `NoLostStart` is not inductive alone, as `Begin` and `EndFrame`
change ADStatus, on which `Start` decides whether to signal. `PathInv` follows the path
of a frame: its status is success wherever an exposure may begin (`StatusInv`), the
task then holds a spectrum (`SpectrumInv`), and the guid it listens for is known to
the server and to the map of callbacks, so that the notification of any end finds its
callback (`SubscribedInv`). `CleanupPossible` (`CleanupCanSucceed`) assumes only that
FinishSpectrum is not lost: in a measurement the server then knows the spectrum whose
id the task holds (`HeldInv`), also after device errors and resets.

**AcquisitionImageProofs** - invariants in layers, each under the assumptions it
takes and no others. Any calls may fail in all of them, FinishSpectrum and the GET of
the data too, except in the last.

| theorem | property | assumes |
| --- | --- | --- |
| `StopAlwaysEffective` | `StopIsEffective` | `Patient` |
| `CallbacksHeld` | `NoStaleCallback` | no `DeviceErrors` |
| `NeverWokenEarly` | `WokenWhenDone` | no `DeviceErrors`, no `Repeats` |
| `PublishedImagesComplete` | `ImageComplete` | these three (`Benign`) |
| `CountedExposuresAreReal` | `CountedExposuresCompleted` | these three (`Benign`) |
| `AsleepReleased` | `ReleasedAsleep` | no `DeviceErrors`, no `Repeats`, `FaultyCalls = {}` |

When any one of these assumptions is dropped TLC finds the property violated, so that
none is an accident of the proof. The layers follow the argument:

* `FrameInv`: within a frame ADStatus is Acquire, so that a patient operator does not
  start, and ADAcquire only falls. This is why ADAcquire = 1 after an exposure
  means that it was not aborted.
* `SessionInv`: the callbacks registered are those of the guids held, and none is
  left when the server is Active: a notification reaches only the acquisition it
  is about.
* `QuietInv`: the server is in the state the task relies on at each place
  (`ServerInv`), and a notification that can stop the task is about the exposure it
  waits for, or finds the task past all waits (`NotificationInv`). stopEvent is empty
  when an exposure begins.
* `ExposureInv`: the counter of the task and that of the server agree at each
  place, unless the acquisition has been stopped.
* `ReleaseInv`, when moreover no call fails: the server has the subscriptions and the
  spectrum the task holds and no others, and the last frame leaves the
  measurement before it is reported. A refused call is possible here too, after a
  Stop between two images or when there are no guids left, and its handler gives
  everything back.

`IInv` is the conjunction of all but the last.

**AcquisitionRefinementProofs** - in a `Benign` environment,
`AcquisitionImplementsImages`: `Spec => ImplementsImages`, so that the detailed
specification implements the abstract one. Each action is shown to be a step of
`ImageAcquisition` or to leave its variables alone. Beyond `IInv` that takes three
facts (`RefInv`): the server never accumulates more exposures than the task asked
for, also when a Stop is under way; from the last exposure to the publication they
stay NumExposures; the local image counter is one ahead of ADNumImagesCounter exactly
when an image is waiting to be published. What an image holds is mapped too
(`contentBar`): where "Attachment" is not in `FaultyCalls` no published image is blank.

**WebSocketRpcProofs** - `WebSocketTypes` for any callers; `RepliesAreOwn`
(`OwnReply`), `OpenConnectionAnswers` (`AnsweredWhenConnected`) and
`ConnectionAwaited` (`FirstConnectWaits`) for one caller (`Alone`) and any
server, until it closes a connection. The argument is that the signals, the requests
and the handlers waiting that will signal are together at most one, and that the
one belongs to what the caller waits for. `SignalNeverMissing` (`SignalOwed`) is for one
caller too, but whenever the server closes its connections: each way a connection or a
request can end puts a handler that signals into the queue. `DeadlockNeedsUpdates` marks
the bounds of ws_deadlock: without SpectrumUpdate `NoDeadlock` holds, for any number
of callers with the lock.

**HttpClientProofs** - `ClientTypes` for any callers, and `ExecutionsFollowClient`:
what holds of `HttpClient` holds of `RequestExecution`. For one caller (`Alone`), any
server and any losses: `ReplyIsOwn` (`OwnReply`), `KeptConnectionsStayQuiet`
(`KeptConnectionsQuiet`), `DescriptorsNeverLeak` (`DescriptorsOwned`), `RetryRecovers`
(`ClosedConnectionRetried`) and `ReplyNeverMissing` (`ReplyOwed`). One caller always
finds the first socket of the pool free, so that there is one connection
(`OnlySocket`, `OnlyConnection`). On it the request of the call in progress is in one
of a few places (`Exchange`): not sent, not read by the server, being served, or
answered in one or two parts of which the client has read some. Outside of a call the
link has nothing under way: each way out of `doRequest` has read the whole reply or
closes the descriptor. Under the same assumption and on top of the same invariant,
`ExecutionsBounded` (`ExecutedAtMost`), `AnsweredExecutedOnce` (`AnsweredOnce`) and
`ClientImplementsRemoteCall` (`ImplementsRemoteCall`), for any number of retries.
`Budget` is the argument: each sending is one attempt and makes one copy of the
request, a copy is on the connection, executed, or given up, so that executions, late
copies and the copy under way are together at most the attempts made. `Answered` says
that what has a reply, or the beginning of one, was executed. With two callers
http_crossed refutes `OwnReply`, and TLC also refutes `ReplyOwed`, so that `Alone` is
needed.

**LiveSpectrumProofs** - for any numbers of steps, exposures and images and any estimate:
`LiveTypes`, `StepsAllCounted` (`AllStepsCounted`), `CounterIsOfPoint`
(`CounterMatchesPoint`), `LastPointIsShown` (`LastPointShown`) and
`ProgressStaysInBounds` (`ProgressInBounds`). The invariant `LiveInv` says that the
notifier works through one exposure at a time. While the task waits, either the server
acquires and has sent as many updates as are counted or under way, or the end is the last
notification (`PhaseInv`); the updates under way continue the count (`OrderInv`).
When the end is taken nothing is left, so that the task may reset the counter without
the lock. `ViewInv` follows the last point to the operator: it is in `m_SpectrumLive`
with IsLast set before the trigger, and from then on it is signalled, being read, or
has been read and is shown, unless its data did not come (`Presented`). `LastPointShown` says no
more than that: a GET that fails is not repeated.

**NotificationProofs** - `NotificationTypes` for any server. `EndNeverLost` (`EndOwed`) for one
that sends a request again that was left unread (`Resends`), also when it sends many at a
time: it announces the states of an acquisition as long as the task may wait for them
(`Announced`), the callback is registered by then (`Registered`), and a thread that ends leaves
no request unanswered (`ClosedEmpty`). For a server that awaits each answer (`OneAtATime`),
`CallbacksAlive` (`CallbackAlive`), and with `Resends` too `ServerImplementsInbox`
(`ImplementsOrderedInbox`), for any number of connections, exposures and updates and any
failed selects. `InboxInv` has two parts. One holds always: one request at most is
unanswered (`OneRequest`), numbers grow along the queue and the request is before it
(`Ordered`), while the task listens its two callbacks are registered and nothing is being
changed (`Registered`). The other holds while nothing of a `start()` that threw is under way
(`~stray`): what is under way is of this acquisition, the end of an exposure the last of it
(`Current`), and there is nothing to handle but in an exposure (`Stages`), so that the task
unsubscribes only when the callbacks of the exposure have returned.

**SpectrumSettingsProofs** - all of the run's properties, for any lens modes, pass
energies and detector, any number of writes, and any integers written (enumerations: any but
negative ones): `SettingsTypes`, `DefinitionStaysCurrent`, `DefinitionsWithinLimits`,
`RegionStaysInScale`, `EtaFollowsExposures`, `SweepsCoverRange`, `SpectraOfSettings`.
`WriteCases` reduces the twelve write actions to two cases: one that calls
`setupSpectrumDefinition` (`SettingUp`) and one that leaves the definition's settings alone
(`Keeping`). With that the invariants are short: `SettingsAllowed` (in every order of writes
the lens mode has theta Y when it is swept, no region ends beyond the detector, and a
definition is filled only from modes that were checked), `SetupConsistent`,
`RegionConsistent`, `SnapshotValid`, and `EtaConsistent`, which remembers that no exposures
were set: `DividedAgain` shows that any other number is divided away again exactly.

Only model-checked: liveness (`ExposureEnds`, `StopObeyed`, `CallReturns`,
`RequestReturns`, `EndArrives`) and the fair refinement (`ImplementsImagesFairly`), which
need ENABLED and fairness. Every other property of a passing run is a theorem, and for
four of the five the part that is not about fairness is one: nobody waits without a
timeout for what nobody owes him (`WakeUpOwed`, `SignalOwed`, `ReplyOwed`, `EndOwed`).
What TLC adds is that the debt is paid when the threads, the server and the network go on.

## Where the code and its words disagree

The four runs that expect a violation check a sentence of the code against what
the code does; `PROJECT.json` has the details under `findings`.

1. **acq_stop_between** (626): a Stop between two images of a series is seen by the
   test after the array callbacks but not by that before them. The measurement is not
   finished, ADStatus is Idle, and the next start fails with "Analyser not active".
2. **live_dies** (662): `spectrumTask` may test IsLast between the two writes of
   the callback; the exception is outside of the try block and ends the thread.
3. **ws_deadlock** (830): over a WebSocket, Stop waits for a reply with the driver
   lock while the thread that would deliver it waits for that lock.
4. **http_crossed** (`HTTPClient.cpp:177`): the lock of a socket is a temporary, so
   two threads may share a connection.

Observed while modelling, and made an assumption of the runs rather than a finding:

* When the reply to FinishSpectrum is lost after the server has executed it, the task
  keeps the id; every later cleanup fails at it and FinishMeasurement is never
  reached, until somebody resets the server. acq_faults leaves this one loss out;
  `CleanupCanSucceed` fails with it.
* A Stop followed by a Start before the task looks at ADAcquire makes the aborted
  exposure count as completed (503-509), and a Start while an abort is being handled leaves
  ADStatus such that a later Stop does not abort (588). `Patient` leaves both out: without it
  `ImageComplete`, `CountedExposuresCompleted` and `StopIsEffective` are violated.
* A repeated notification that comes after 488 ends the next exposure at once:
  `WokenWhenDone` and `ImageComplete` are checked without `Repeats`, and violated with it.
* The GET of the data of a spectrum may fail without a word (`peakApi.cpp:58`): an image of
  zeros is published and counted, or a blank point shown. No property says that data arrive.
* A Start that comes between the report of an abort and the wait leaves
  startEvent full when the acquisition it begins was begun already.
* The progress is multiplied by `numExposuresCounter` of the exposure under way
  (470): it falls at the start of each exposure after the first, although
  `docs/peakAnalyser.rst:118` calls it that of the acquisition. `ProgressInBounds`
  speaks of one exposure.
* `numSteps` is a copy taken before the first update corrects AcqNumSteps: in the first
  image IsLast compares with the estimate. `LastPointShown` and `ProgressInBounds`
  assume that it is right.
* The retry of `doRequest` repeats a POST that the server may have executed, and a request
  given up after its timeout may be executed when the caller has gone on: `ExecutedAtMost`
  and `AnsweredOnce` say how often. AcquisitionAsync executed again after the exposure that
  its first execution began has ended would add an exposure to the image;
  `AcquisitionTask` has each call executed at most once.
* `on_close` gives the event although nobody waits (`JsonRPCClientWS.cpp:155`): the next
  `connect` takes that signal for its own, and every later call is one signal ahead of
  its reply. `FirstConnectWaits` is about the connection before the first close.
* A write of the detector mode stores it, but it reaches the definition only with the next
  setting, although `docs/peakAnalyser.rst` says of such settings that they configure the
  next acquisition. `DefinitionCurrent` leaves it out.
* When an energy to sweep is not above zero, the definition of the settings before stays
  in force and is what an acquisition uses (1640).
* The same definition stays when the analyser has not the detector mode that was stored
  (1608-1612), or the element set, until a write puts it right.
* The task reads `m_SpectrumDefinition` without the lock (437): what it sends may be the
  definition of a later write than the number of steps it read, or half of one.
  `SpectrumOfSettings` is about acquisitions that no such write disturbs.
* `setROI` (1394-1414) checks the end of a region only. One may begin before the detector;
  one that begins at its edge or beyond is left empty or with a negative size, which stays
  when the minimum is put right. `WithinLimits` is about the end. The sum of minimum and size
  is an int, which may overflow; the model has integers.
* Once the number of exposures was 0, the estimated time is 0 / 0 with the next number
  (855), shown as NaN until a definition is accepted; it is then converted to an int (858),
  which is undefined. `EtaShown` has the NaN, strings are not modelled.
* A negative value of an enumeration would index a vector before its begin; the records have
  no such choice, and `WrittenAssumption` excludes it.
* The number of channels is limited when it is written, not when the size of the region
  is; it may exceed the size afterwards.
* A low end above the high one makes a sweep upwards from the low end; a distance near the
  epsilon of the division may add a point; the last point of a theta Y sweep may
  lie beyond the deflection range by less than a step.
* The ends and steps of an axis that is not swept are restored in the display, but kept in
  `m_RequestedAxes`.
* The published energy scale is kinetic also in binding mode.
* ZeroSupplies tests the parameter ADAcquire, not the state (971-976).
* The estimated time is formatted with `seconds % 3500` (1483), wrong from an hour on.
* When `start()` throws although the analyser acquires, the handler erases callbacks that may be
  running (555-559), with the locals they refer to still there but changed by the next
  acquisition. `CallbackAlive` exempts it, openly: it is what the code does.
* A select that fails loses the request (`JsonRPCClientHTTP.cpp:186`), unless the server sends it
  again: `Resends`. That notifications are in order rests on `Window = 1`, a server that
  awaits each answer.
* Two callers over a WebSocket share one event and one `m_response`
  (`JsonRPCClientWS.cpp:78`), and may take each other's replies. ws_calls has one caller, and no
  run shows it.
* A device error at rest would be taken for the end of the next exposure, and lets the task
  erase a callback that runs. `NotificationServer` sends such a state only for an exposure.
* The null value that follows a subscription is looked up while its callback is being
  inserted (`peakApi.cpp:168`): one of the two orders, or a data race.

## Not modelled

* Base64, URLs, headers, time strings, NDArray attributes, `integrate`: functions on
  strings and arrays without state, which unit tests reach.
* `close` and the destructors: they run when the IOC ends.
* Element sets, slits and the focal position are carried to the server unchanged. The zeroing
  of supplies, data type and colour mode do not meet the rest.
* What a request does to the measurement that is executed twice, or late, when it was given
  up. `RequestExecution` has such executions and counts them, but in `AcquisitionTask`
  a call is executed once, at once, or never.
* `reset`, `runningServers` and the queries of `connectAnalyser` run once, before any
  other thread.
* `json.hpp` (24 596 lines), asio and websocketpp are vendored. `json.hpp` is the larger part
  of the lines under `peakAnalyserApp/src`, so that any share of lines modelled is small.

Left open: a composition of `SpectrumSettings` with `AcquisitionTask`
in one state space, which now share only the place where the definition is read.

## Running

    tlc -config acq_nominal.cfg MCAcquisition.tla
    tlc -config settings.cfg MCSettings.tla
    tlc -config notifications.cfg NotificationServer.tla
    tlapm AcquisitionRefinementProofs.tla

The runs and their modules are listed in `PROJECT.json`. Each takes at most a
minute or two; the proofs together take some minutes.
