--------------------------- MODULE AcquisitionTask ---------------------------
(***************************************************************************)
(* peakAnalyser::acquisitionTask, the thread that drives a measurement on  *)
(* the PEAK server, together with everything it races with:                *)
(*                                                                         *)
(*   the task       loops over images ("frames"), each made of exposures;  *)
(*                  it holds the driver lock only around its accesses to   *)
(*                  the parameters, never around a call to the server;     *)
(*   the port       peakAnalyser::writeInt32 under the driver lock: Start  *)
(*                  and Stop (ADAcquire) and the image mode; Stop holds    *)
(*                  the lock while it calls CancelAcquisition;             *)
(*   the callback   the lambda subscribed to the server state, run by the  *)
(*                  notification thread, which signals stopEvent;          *)
(*   the server     see PeakServer.                                        *)
(*                                                                         *)
(* A step of the task is a critical section of the driver lock, a call to  *)
(* the server, or the purely local code between the two.                   *)
(*                                                                         *)
(* A definition marked "Variant" is a plausible mistake in the definition  *)
(* that follows it; no specification uses it.                              *)
(***************************************************************************)
EXTENDS PeakServer

CONSTANTS
    NumExposures,   \* ADNumExposures, exposures accumulated into an image
    NumImages,      \* ADNumImages, images of an acquisition in mode Multiple
    MaxImages,      \* bound: ADNumImagesCounter is not counted further
    ImageModes,     \* values the operator writes to ADImageMode
    Patient,        \* TRUE: the operator writes Acquire=1 only when ADStatus
                    \* does not show an acquisition in progress
    FaultyCalls,    \* calls whose request or reply the network may lose,
                    \* and "Attachment", the GET of a spectrum's data
    Repeats,        \* TRUE: the server may send a notification again
    DeviceErrors    \* TRUE: the analyser may fail

ASSUME NumExposuresAssumption == NumExposures \in Nat
ASSUME NumImagesAssumption    == NumImages \in Nat \ {0}
ASSUME MaxImagesAssumption    == MaxImages \in Nat /\ MaxImages >= NumImages
ASSUME ImageModesAssumption   == ImageModes \subseteq {"Single", "Multiple", "Continuous"}
ASSUME FaultyCallsAssumption  == FaultyCalls \subseteq Calls \union {"Attachment"}
ASSUME EnvironmentAssumption  == {Patient, Repeats, DeviceErrors} \subseteq BOOLEAN

VARIABLES
    \* the driver: its lock, its parameters, its events
    lock,                   \* who holds the driver lock
    ADAcquire, ADStatus, ADImageMode,
    ADNumExposuresCounter, ADNumImagesCounter,
    startEvent, stopEvent,  \* binary semaphores (epicsEvent)
    \* the task: its place in the code and its local variables
    pc, status, acquire, imageMode,
    numExposuresCounter, numImagesCounter,
    spectrumId, guidState, guidAcquired,
    spectrum,               \* what getMeasuredSpectrum returned
    \* the port thread, between writing ADAcquire=0 and the end of abort()
    port,
    \* the client of the server and the network
    reply,                  \* the guid of a subscription not yet registered
    callbacks,              \* guids whose callback is registered
    notes,                  \* state notifications under way, <<guid, state>>
    server

params  == <<ADAcquire, ADStatus, ADImageMode,
             ADNumExposuresCounter, ADNumImagesCounter>>
events  == <<startEvent, stopEvent>>
frame   == <<acquire, imageMode, numExposuresCounter, numImagesCounter, spectrum>>
session == <<spectrumId, guidState, guidAcquired, reply, callbacks>>
remote  == <<server, notes>>

vars == <<lock, params, events, pc, status, frame, session, port, remote>>

-----------------------------------------------------------------------------
PcLabels ==
    {"Top", "Wait", "Begin",
     "GetState", "DefineSpectrum", "StartMeasurement", "SetupSpectrum",
     "SubscribeState", "RegisterState", "SubscribeUpdate", "RegisterUpdate",
     "ClearSpectrum", "NextExposure", "AcquisitionAsync", "WaitStop", "Count",
     "GetMeasuredSpectrum", "UnsubscribeState", "UnsubscribeUpdate",
     "FinishSpectrum", "FinishMeasurement",
     "CleanState", "CleanUpdate", "CleanQuery", "CleanSpectrum", "CleanMeasurement",
     "Report", "Publish", "EndFrame"}

TypeOK ==
    /\ lock \in {"free", "task", "port"}
    /\ ADAcquire \in {0, 1}
    /\ ADStatus \in {"Idle", "Acquire", "Error", "Aborted", "Disconnected"}
    /\ ADImageMode \in ImageModes
    /\ ADNumExposuresCounter \in Nat
    /\ ADNumImagesCounter \in Nat
    /\ startEvent \in {"empty", "full"}
    /\ stopEvent \in {"empty", "full"}
    /\ pc \in PcLabels
    /\ status \in {"success", "error"}
    /\ acquire \in {0, 1}
    /\ imageMode \in ImageModes
    /\ numExposuresCounter \in Nat
    /\ numImagesCounter \in Nat
    /\ spectrumId \in {"none", "held"}
    /\ guidState \in Guids \union {NoGuid}
    /\ guidAcquired \in Guids \union {NoGuid}
    /\ spectrum \in [exposures : Nat, cut : {0, 1}, data : {"counts", "zeros"}]
    /\ port \in {"idle", "abort"}
    /\ reply \in Guids \union {NoGuid}
    /\ callbacks \subseteq Guids \union {NoGuid}
    /\ notes \subseteq Guids \X ServerStates
    /\ server \in Servers

(* The driver is constructed, and its threads are started, before iocInit  *)
(* lets an operator write: the task is in its loop and holds the lock.     *)
(* Without a connection ADStatus says so from the start.                   *)
Init ==
    /\ lock = "task"
    /\ ADAcquire = 0
    /\ ADStatus \in {"Idle", "Disconnected"}
    /\ ADImageMode \in ImageModes
    /\ ADNumExposuresCounter = 0
    /\ ADNumImagesCounter = 0
    /\ startEvent = "empty"
    /\ stopEvent = "empty"
    /\ pc = "Top"
    /\ status = "success"
    /\ acquire = 0
    /\ imageMode = ADImageMode
    /\ numExposuresCounter = 0
    /\ numImagesCounter = 0
    /\ spectrumId = "none"
    /\ guidState = NoGuid
    /\ guidAcquired = NoGuid
    /\ spectrum = [exposures |-> 0, cut |-> 0, data |-> "zeros"]
    /\ port = "idle"
    /\ reply = NoGuid
    /\ callbacks = {}
    /\ notes = {}
    /\ server = IdleServer

-----------------------------------------------------------------------------
(* One call to the server.  It succeeds; or it ends in an exception, after *)
(* an error reply, a lost request, or a lost reply to a call that the      *)
(* server did carry out.                                                   *)

\* The guids whose callback is registered, or is about to be.
Listeners == callbacks \union ({reply} \ {NoGuid})

Becomes(after) ==
    /\ server' = after
    /\ notes' = notes \union Announced(server, after, Listeners)

Reaches(call, after) == Accepts(server, call) /\ Becomes(after)

Succeeds(call, after) == Reaches(call, after)

Throws(call, after) ==
    \/ /\ call \in FaultyCalls
       /\ Reaches(call, after)
    \/ /\ call \in FaultyCalls \/ ~Accepts(server, call)
       /\ UNCHANGED remote

\* An exception inside the try block leads to the handler.
Catch ==
    /\ status' = "error"
    /\ pc' = "CleanState"

\* A call of the try block that assigns no variable of the driver.
Calling(call, next) ==
    /\ \/ /\ Succeeds(call, After(server, call))
          /\ pc' = next
          /\ UNCHANGED status
       \/ /\ Throws(call, After(server, call))
          /\ Catch
    /\ UNCHANGED <<lock, params, events, frame, session, port>>

-----------------------------------------------------------------------------
(* Top of the loop.  The lock is held. *)

\* Variant: the exposure counter is not reset.
SnapshotKeepsCounter ==
    /\ UNCHANGED ADNumExposuresCounter
    /\ numExposuresCounter' = 0
    /\ imageMode' = ADImageMode
    /\ numImagesCounter' = ADNumImagesCounter'
    /\ pc' = IF numImagesCounter' = 0 THEN "GetState" ELSE "ClearSpectrum"
    /\ lock' = "free"

\* Variant: the spectrum is cleared for the first frame only.
SnapshotSkipsClear ==
    /\ ADNumExposuresCounter' = 0
    /\ numExposuresCounter' = 0
    /\ imageMode' = ADImageMode
    /\ numImagesCounter' = ADNumImagesCounter'
    /\ pc' = IF numImagesCounter' = 0 THEN "GetState" ELSE "NextExposure"
    /\ lock' = "free"

\* A new frame starts from the parameters; the image counter survives.
SnapshotParameters ==
    /\ ADNumExposuresCounter' = 0
    /\ numExposuresCounter' = 0
    /\ imageMode' = ADImageMode
    /\ numImagesCounter' = ADNumImagesCounter'
    /\ pc' = IF numImagesCounter' = 0 THEN "GetState" ELSE "ClearSpectrum"
    /\ lock' = "free"

\* Nothing to acquire: release the lock and wait for startEvent.
GoToSleep ==
    /\ pc = "Top"
    /\ acquire' = ADAcquire
    /\ ADAcquire = 0
    /\ pc' = "Wait"
    /\ lock' = "free"
    /\ UNCHANGED <<params, events, status, imageMode, numExposuresCounter,
                   numImagesCounter, spectrum, session, port, remote>>

\* The acquisition goes on: the next frame.
NextFrame ==
    /\ pc = "Top"
    /\ acquire' = ADAcquire
    /\ ADAcquire = 1
    /\ UNCHANGED ADNumImagesCounter
    /\ SnapshotParameters
    /\ UNCHANGED <<ADAcquire, ADStatus, ADImageMode, events, status, spectrum,
                   session, port, remote>>

\* epicsEventWait(startEventId)
WakeUp ==
    /\ pc = "Wait"
    /\ startEvent = "full"
    /\ startEvent' = "empty"
    /\ pc' = "Begin"
    /\ UNCHANGED <<lock, params, stopEvent, status, frame, session, port, remote>>

\* Variant: ADStatus is not set.
BeginSilently ==
    /\ pc = "Begin"
    /\ lock = "free"
    /\ status' = "success"
    /\ acquire' = ADAcquire
    /\ ADNumImagesCounter' = 0
    /\ SnapshotParameters
    /\ UNCHANGED <<ADAcquire, ADStatus, ADImageMode, events, spectrum, session,
                   port, remote>>

\* A new acquisition.  ADAcquire is read but not tested.
Begin ==
    /\ pc = "Begin"
    /\ lock = "free"
    /\ status' = "success"
    /\ acquire' = ADAcquire
    /\ ADNumImagesCounter' = 0
    /\ ADStatus' = "Acquire"
    /\ SnapshotParameters
    /\ UNCHANGED <<ADAcquire, ADImageMode, events, spectrum, session, port, remote>>

-----------------------------------------------------------------------------
(* First frame: set up the measurement and the subscriptions. *)

GetState ==
    /\ pc = "GetState"
    /\ \/ /\ Succeeds("GetState", server)
          /\ IF server.state = "Active"
             THEN pc' = "DefineSpectrum" /\ UNCHANGED status
             ELSE Catch     \* "Analyser not active"
       \/ /\ Throws("GetState", server)
          /\ Catch
    /\ UNCHANGED <<lock, params, events, frame, session, port>>

DefineSpectrum ==
    /\ pc = "DefineSpectrum"
    /\ LET after == After(server, "DefineSpectrum")
       IN \/ /\ Succeeds("DefineSpectrum", after)
             /\ spectrumId' = "held"
             /\ pc' = "StartMeasurement"
             /\ UNCHANGED status
          \/ /\ Throws("DefineSpectrum", after)
             /\ Catch
             /\ UNCHANGED spectrumId
    /\ UNCHANGED <<lock, params, events, frame, guidState, guidAcquired, reply,
                   callbacks, port>>

StartMeasurement ==
    /\ pc = "StartMeasurement"
    /\ Calling("StartMeasurement", "SetupSpectrum")

SetupSpectrum ==
    /\ pc = "SetupSpectrum"
    /\ Calling("SetupSpectrum", "SubscribeState")

(* PeakAPI::subscribeTo...: the server subscribes first; the callback is   *)
(* registered only when the reply with the guid has come back.             *)

\* Guids nobody refers to.  A guid is new: nothing under way carries it.
\* Bound: with every guid taken by leaked subscriptions the call is refused.
UnusedGuids == Guids \ (server.stateSubs \union server.updateSubs \union callbacks)
FreshGuids  == UnusedGuids \ {n[1] : n \in notes}

Subscribing(call, next) ==
    /\ \/ \E g \in FreshGuids:
            /\ Succeeds(call, Subscribed(server, call, g))
            /\ reply' = g
            /\ pc' = next
            /\ UNCHANGED status
       \/ /\ \/ \E g \in FreshGuids: Throws(call, Subscribed(server, call, g))
             \/ UnusedGuids = {} /\ UNCHANGED remote
          /\ Catch
          /\ UNCHANGED reply
    /\ UNCHANGED <<lock, params, events, frame, spectrumId, guidState,
                   guidAcquired, callbacks, port>>

Registering(next) ==
    /\ callbacks' = callbacks \union {reply}
    /\ reply' = NoGuid
    /\ pc' = next
    /\ UNCHANGED <<lock, params, events, status, frame, spectrumId, port, remote>>

SubscribeState ==
    /\ pc = "SubscribeState"
    /\ Subscribing("SubscribeToState", "RegisterState")

\* Variant: the name of the method is returned instead of the guid.
RegisterStateMethod ==
    /\ pc = "RegisterState"
    /\ Registering("SubscribeUpdate")
    /\ guidState' = "State0"
    /\ UNCHANGED guidAcquired

RegisterState ==
    /\ pc = "RegisterState"
    /\ Registering("SubscribeUpdate")
    /\ guidState' = reply
    /\ UNCHANGED guidAcquired

SubscribeUpdate ==
    /\ pc = "SubscribeUpdate"
    /\ Subscribing("SubscribeToObservable", "RegisterUpdate")

RegisterUpdate ==
    /\ pc = "RegisterUpdate"
    /\ Registering("ClearSpectrum")
    /\ guidAcquired' = reply
    /\ UNCHANGED guidState

-----------------------------------------------------------------------------
(* Every frame: the exposures. *)

\* A call that names the spectrum fails when spectrumId is empty.
CallingSpectrum(call, next) ==
    IF spectrumId = "held"
    THEN Calling(call, next)
    ELSE Catch /\ UNCHANGED <<lock, params, events, frame, session, port, remote>>

ClearSpectrum ==
    /\ pc = "ClearSpectrum"
    /\ CallingSpectrum("ClearSpectrum", "NextExposure")

\* Variant: one exposure too many.
NextExposureOffByOne ==
    /\ pc = "NextExposure"
    /\ numExposuresCounter' = numExposuresCounter + 1
    /\ IF numExposuresCounter <= NumExposures
       THEN stopEvent' = "empty" /\ pc' = "AcquisitionAsync"
       ELSE UNCHANGED stopEvent /\ pc' = "GetMeasuredSpectrum"
    /\ UNCHANGED <<lock, params, startEvent, status, acquire, imageMode,
                   numImagesCounter, spectrum, session, port, remote>>

\* The condition of the while loop, and the token a repeated notification
\* may have left in stopEvent.
NextExposure ==
    /\ pc = "NextExposure"
    /\ numExposuresCounter' = numExposuresCounter + 1
    /\ IF numExposuresCounter < NumExposures
       THEN stopEvent' = "empty" /\ pc' = "AcquisitionAsync"
       ELSE UNCHANGED stopEvent /\ pc' = "GetMeasuredSpectrum"
    /\ UNCHANGED <<lock, params, startEvent, status, acquire, imageMode,
                   numImagesCounter, spectrum, session, port, remote>>

AcquisitionAsync ==
    /\ pc = "AcquisitionAsync"
    /\ CallingSpectrum("AcquisitionAsync", "WaitStop")

\* epicsEventWait(stopEventId): completed or aborted by user
WaitStop ==
    /\ pc = "WaitStop"
    /\ stopEvent = "full"
    /\ stopEvent' = "empty"
    /\ pc' = "Count"
    /\ UNCHANGED <<lock, params, startEvent, status, frame, session, port, remote>>

\* Variant: every exposure that ended counts as completed.
CountAnyEnd ==
    /\ pc = "Count"
    /\ lock = "free"
    /\ acquire' = 1
    /\ ADNumExposuresCounter' = numExposuresCounter
    /\ pc' = "NextExposure"
    /\ UNCHANGED <<lock, ADAcquire, ADStatus, ADImageMode, ADNumImagesCounter,
                   events, status, imageMode, numExposuresCounter,
                   numImagesCounter, spectrum, session, port, remote>>

\* ADAcquire tells a completed exposure from an aborted one.
Count ==
    /\ pc = "Count"
    /\ lock = "free"
    /\ acquire' = ADAcquire
    /\ ADNumExposuresCounter' = IF ADAcquire = 1 THEN numExposuresCounter
                                ELSE ADNumExposuresCounter
    /\ pc' = IF ADAcquire = 1 THEN "NextExposure" ELSE "GetMeasuredSpectrum"
    /\ UNCHANGED <<lock, ADAcquire, ADStatus, ADImageMode, ADNumImagesCounter,
                   events, status, imageMode, numExposuresCounter,
                   numImagesCounter, spectrum, session, port, remote>>

-----------------------------------------------------------------------------
(* Every frame: the image, and the end of the measurement. *)

Finished(acq, mode, images) ==
    \/ acq = 0
    \/ mode = "Single"
    \/ mode = "Multiple" /\ images >= NumImages

Counted(images) == IF images < MaxImages THEN images + 1 ELSE images

(* The reply only says where the data are.  They are fetched by a second   *)
(* request; if that one fails nobody is told, and the data remain the      *)
(* zeros they were allocated with.                                         *)
Fetched == IF "Attachment" \in FaultyCalls THEN {"counts", "zeros"} ELSE {"counts"}

GetMeasuredSpectrum ==
    /\ pc = "GetMeasuredSpectrum"
    /\ LET images == IF acquire = 1 THEN Counted(numImagesCounter)
                     ELSE numImagesCounter
       IN \/ /\ spectrumId = "held"
             /\ Succeeds("GetMeasuredSpectrum", server)
             /\ spectrum' \in [exposures : {server.exposures}, cut : {server.cut},
                               data : Fetched]
             /\ numImagesCounter' = images
             /\ pc' = IF Finished(acquire, imageMode, images)
                      THEN "UnsubscribeState" ELSE "Report"
             /\ UNCHANGED status
          \/ /\ \/ Throws("GetMeasuredSpectrum", server)
                \/ spectrumId = "none" /\ UNCHANGED remote
             /\ Catch
             /\ UNCHANGED <<spectrum, numImagesCounter>>
    /\ UNCHANGED <<lock, params, events, acquire, imageMode,
                   numExposuresCounter, session, port>>

(* PeakAPI::unsubscribe: nothing for a guid it does not know; otherwise    *)
(* the call first, and the callback is dropped only if the call succeeds.  *)
Unsubscribing(guid, next, handler) ==
    \/ /\ guid \notin callbacks
       /\ pc' = next
       /\ UNCHANGED <<status, callbacks, remote>>
    \/ /\ guid \in callbacks
       /\ \/ /\ Succeeds("Unsubscribe", Unsubscribed(server, guid))
             /\ callbacks' = callbacks \ {guid}
             /\ pc' = next
             /\ UNCHANGED status
          \/ /\ Throws("Unsubscribe", Unsubscribed(server, guid))
             /\ status' = "error"
             /\ pc' = handler
             /\ UNCHANGED callbacks

\* The guid is forgotten once unsubscribe returns without an exception.
Forgotten(guid, next) == IF pc' = next THEN NoGuid ELSE guid

UnsubscribeState ==
    /\ pc = "UnsubscribeState"
    /\ Unsubscribing(guidState, "UnsubscribeUpdate", "CleanState")
    /\ guidState' = Forgotten(guidState, "UnsubscribeUpdate")
    /\ UNCHANGED <<lock, params, events, frame, spectrumId, guidAcquired, reply, port>>

\* Variant: the guid just unsubscribed is unsubscribed again.
UnsubscribeStateTwice ==
    /\ pc = "UnsubscribeUpdate"
    /\ Unsubscribing(guidState, "FinishSpectrum", "CleanState")
    /\ guidAcquired' = Forgotten(guidAcquired, "FinishSpectrum")
    /\ UNCHANGED <<lock, params, events, frame, spectrumId, guidState, reply, port>>

UnsubscribeUpdate ==
    /\ pc = "UnsubscribeUpdate"
    /\ Unsubscribing(guidAcquired, "FinishSpectrum", "CleanState")
    /\ guidAcquired' = Forgotten(guidAcquired, "FinishSpectrum")
    /\ UNCHANGED <<lock, params, events, frame, spectrumId, guidState, reply, port>>

\* Variant: the id is kept after the spectrum is finished.
FinishSpectrumKeepsId ==
    /\ pc = "FinishSpectrum"
    /\ Calling("FinishSpectrum", "FinishMeasurement")

FinishSpectrum ==
    /\ pc = "FinishSpectrum"
    /\ LET after == After(server, "FinishSpectrum")
       IN \/ /\ spectrumId = "held"
             /\ Succeeds("FinishSpectrum", after)
             /\ spectrumId' = "none"
             /\ pc' = "FinishMeasurement"
             /\ UNCHANGED status
          \/ /\ \/ spectrumId = "held" /\ Throws("FinishSpectrum", after)
                \/ spectrumId = "none" /\ UNCHANGED remote
             /\ Catch
             /\ UNCHANGED spectrumId
    /\ UNCHANGED <<lock, params, events, frame, guidState, guidAcquired, reply,
                   callbacks, port>>

FinishMeasurement ==
    /\ pc = "FinishMeasurement"
    /\ Calling("FinishMeasurement", "Report")

-----------------------------------------------------------------------------
(* The exception handler.  A second exception ends the cleanup. *)

\* Variant: the handler forgets the guid without unsubscribing it.
CleanStateForgets ==
    /\ pc = "CleanState"
    /\ pc' = "CleanUpdate"
    /\ guidState' = NoGuid
    /\ UNCHANGED <<lock, params, events, status, frame, spectrumId, guidAcquired,
                   reply, callbacks, port, remote>>

CleanState ==
    /\ pc = "CleanState"
    /\ Unsubscribing(guidState, "CleanUpdate", "Report")
    /\ guidState' = Forgotten(guidState, "CleanUpdate")
    /\ UNCHANGED <<lock, params, events, frame, spectrumId, guidAcquired, reply, port>>

CleanUpdate ==
    /\ pc = "CleanUpdate"
    /\ Unsubscribing(guidAcquired, "CleanQuery", "Report")
    /\ guidAcquired' = Forgotten(guidAcquired, "CleanQuery")
    /\ UNCHANGED <<lock, params, events, frame, spectrumId, guidState, reply, port>>

\* The measurement is left only when the server is found in it.
CleanQuery ==
    /\ pc = "CleanQuery"
    /\ \/ /\ Succeeds("GetState", server)
          /\ pc' = IF server.state # "Measuring" THEN "Report"
                   ELSE IF spectrumId = "held" THEN "CleanSpectrum"
                   ELSE "CleanMeasurement"
       \/ /\ Throws("GetState", server)
          /\ pc' = "Report"
    /\ UNCHANGED <<lock, params, events, status, frame, session, port>>

CleanSpectrum ==
    /\ pc = "CleanSpectrum"
    /\ LET after == After(server, "FinishSpectrum")
       IN \/ /\ Succeeds("FinishSpectrum", after)
             /\ spectrumId' = "none"
             /\ pc' = "CleanMeasurement"
          \/ /\ Throws("FinishSpectrum", after)
             /\ pc' = "Report"
             /\ UNCHANGED spectrumId
    /\ UNCHANGED <<lock, params, events, status, frame, guidState, guidAcquired,
                   reply, callbacks, port>>

CleanMeasurement ==
    /\ pc = "CleanMeasurement"
    /\ LET after == After(server, "FinishMeasurement")
       IN Succeeds("FinishMeasurement", after) \/ Throws("FinishMeasurement", after)
    /\ pc' = "Report"
    /\ UNCHANGED <<lock, params, events, status, frame, session, port>>

-----------------------------------------------------------------------------
(* The lock is taken again for the outcome of the frame. *)

ReportError ==
    /\ pc = "Report"
    /\ lock = "free"
    /\ status = "error"
    /\ ADAcquire' = 0
    /\ ADStatus' = "Error"
    /\ lock' = "task"
    /\ pc' = "Top"
    /\ UNCHANGED <<ADImageMode, ADNumExposuresCounter, ADNumImagesCounter, events,
                   status, frame, session, port, remote>>

ReportAborted ==
    /\ pc = "Report"
    /\ lock = "free"
    /\ status = "success"
    /\ acquire = 0
    /\ ADStatus' = "Aborted"
    /\ lock' = "task"
    /\ pc' = "Top"
    /\ UNCHANGED <<ADAcquire, ADImageMode, ADNumExposuresCounter, ADNumImagesCounter,
                   events, status, frame, session, port, remote>>

\* The image is published, with the lock released, when the operator has
\* enabled array callbacks.
ReportImage ==
    /\ pc = "Report"
    /\ lock = "free"
    /\ status = "success"
    /\ acquire = 1
    /\ ADNumImagesCounter' = numImagesCounter
    /\ \/ pc' = "Publish" /\ UNCHANGED lock
       \/ pc' = "EndFrame" /\ lock' = "task"
    /\ UNCHANGED <<ADAcquire, ADStatus, ADImageMode, ADNumExposuresCounter, events,
                   status, frame, session, port, remote>>

\* doCallbacksGenericPointer has returned.
Published ==
    /\ pc = "Publish"
    /\ lock = "free"
    /\ lock' = "task"
    /\ pc' = "EndFrame"
    /\ UNCHANGED <<params, events, status, frame, session, port, remote>>

EndFrame ==
    /\ pc = "EndFrame"
    /\ IF Finished(ADAcquire, imageMode, numImagesCounter)
       THEN ADAcquire' = 0 /\ ADStatus' = "Idle"
       ELSE UNCHANGED <<ADAcquire, ADStatus>>
    /\ acquire' = ADAcquire'
    /\ pc' = "Top"
    /\ UNCHANGED <<lock, ADImageMode, ADNumExposuresCounter, ADNumImagesCounter,
                   events, status, imageMode, numExposuresCounter, numImagesCounter,
                   spectrum, session, port, remote>>

-----------------------------------------------------------------------------
(* The operator, through writeInt32 in the port thread. *)

local == <<pc, status, frame, session>>

\* Variant: a Start counts only when the last acquisition did not fail.
StartUnlessError ==
    /\ lock = "free"
    /\ Patient => ADStatus # "Acquire"
    /\ ADAcquire' = 1
    /\ startEvent' = IF ADStatus \notin {"Acquire", "Disconnected", "Error"} THEN "full"
                     ELSE startEvent
    /\ UNCHANGED <<lock, ADStatus, ADImageMode, ADNumExposuresCounter,
                   ADNumImagesCounter, stopEvent, local, port, remote>>

\* startEvent is given unless an acquisition is shown in progress.
Start ==
    /\ lock = "free"
    /\ Patient => ADStatus # "Acquire"
    /\ ADAcquire' = 1
    /\ startEvent' = IF ADStatus \notin {"Acquire", "Disconnected"} THEN "full"
                     ELSE startEvent
    /\ UNCHANGED <<lock, ADStatus, ADImageMode, ADNumExposuresCounter,
                   ADNumImagesCounter, stopEvent, local, port, remote>>

Stop ==
    /\ lock = "free"
    /\ ADAcquire' = 0
    /\ IF ADStatus = "Acquire"
       THEN lock' = "port" /\ port' = "abort"
       ELSE UNCHANGED <<lock, port>>
    /\ UNCHANGED <<ADStatus, ADImageMode, ADNumExposuresCounter,
                   ADNumImagesCounter, events, local, remote>>

\* PeakAnalyserClient::abort; an exception is logged and forgotten.
CancelAcquisition ==
    /\ port = "abort"
    /\ LET after == After(server, "CancelAcquisition")
       IN Succeeds("CancelAcquisition", after) \/ Throws("CancelAcquisition", after)
    /\ port' = "idle"
    /\ lock' = "free"
    /\ UNCHANGED <<params, events, local>>

WriteImageMode ==
    /\ lock = "free"
    /\ ADImageMode' \in ImageModes
    /\ UNCHANGED <<lock, ADAcquire, ADStatus, ADNumExposuresCounter,
                   ADNumImagesCounter, events, local, port, remote>>

-----------------------------------------------------------------------------
(* The server, and the thread that runs the callbacks. *)

driver == <<lock, params, startEvent, local, port>>

ServerCompletes ==
    /\ server.state = "Acquiring"
    /\ Becomes(Completed(server))
    /\ UNCHANGED <<driver, stopEvent>>

ServerFails ==
    /\ DeviceErrors
    /\ server.state \in {"Measuring", "Acquiring"}
    /\ Becomes(Failed(server))
    /\ UNCHANGED <<driver, stopEvent>>

\* Somebody resets the analyser with another client.
ServerRecovers ==
    /\ server.state = "Error"
    /\ Becomes(Recovered(server))
    /\ UNCHANGED <<driver, stopEvent>>

\* Variants: every change of state, only the end of an exposure, or the
\* state in which a measurement begins and ends.
StoppingAlways(state)   == state \in ServerStates
StoppingNoError(state)  == state = "Measuring"
StoppingActive(state)   == state \in {"Active", "Error"}

Stopping(state) == state \in {"Measuring", "Error"}

\* A notification without a registered callback is dropped.
StateChanged(n) ==
    /\ stopEvent' = IF n[1] \in callbacks /\ Stopping(n[2]) THEN "full" ELSE stopEvent
    /\ \/ notes' = notes \ {n}
       \/ Repeats /\ UNCHANGED notes
    /\ UNCHANGED <<driver, server>>

-----------------------------------------------------------------------------
Setup ==
    \/ GetState \/ DefineSpectrum \/ StartMeasurement \/ SetupSpectrum
    \/ SubscribeState \/ RegisterState \/ SubscribeUpdate \/ RegisterUpdate

Expose ==
    \/ ClearSpectrum \/ NextExposure \/ AcquisitionAsync \/ WaitStop \/ Count

Finish ==
    \/ GetMeasuredSpectrum \/ UnsubscribeState \/ UnsubscribeUpdate
    \/ FinishSpectrum \/ FinishMeasurement

Cleanup ==
    \/ CleanState \/ CleanUpdate \/ CleanQuery \/ CleanSpectrum \/ CleanMeasurement

Report ==
    \/ ReportError \/ ReportAborted \/ ReportImage \/ Published

Task ==
    \/ GoToSleep \/ NextFrame \/ WakeUp \/ Begin
    \/ Setup \/ Expose \/ Finish \/ Cleanup \/ Report \/ EndFrame

Operator == Start \/ Stop \/ WriteImageMode

Server == ServerCompletes \/ ServerFails \/ ServerRecovers

Next ==
    \/ Task
    \/ Operator
    \/ CancelAcquisition
    \/ Server
    \/ \E n \in notes: StateChanged(n)

Spec == Init /\ [][Next]_vars

(* The threads run, the lock is not kept from the task for ever (an        *)
(* operator's writes leave it free for most of the time), the server ends  *)
(* the acquisitions it accepted and its notifications arrive.  Nothing is  *)
(* assumed of the operator or of failures.                                 *)
LockSteps == Begin \/ Count \/ Report

Fairness ==
    /\ WF_vars(Task)
    /\ SF_vars(LockSteps)
    /\ WF_vars(CancelAcquisition)
    /\ WF_vars(ServerCompletes)
    /\ \A n \in Guids \X ServerStates:
          WF_vars(n \in notes /\ StateChanged(n) /\ notes' = notes \ {n})

FairSpec == Spec /\ Fairness

-----------------------------------------------------------------------------
(* Properties. *)

\* The task has the measurement to itself: it is past GetState and before the end.
Measured == {"SetupSpectrum", "SubscribeState", "RegisterState", "SubscribeUpdate",
             "RegisterUpdate", "ClearSpectrum", "NextExposure", "AcquisitionAsync",
             "WaitStop", "Count", "GetMeasuredSpectrum", "UnsubscribeState",
             "UnsubscribeUpdate", "FinishSpectrum", "FinishMeasurement"}

(* A Start is never lost: if the task sleeps although the operator wants   *)
(* an acquisition, the event that wakes it is given (the test of ADAcquire *)
(* and the sleep are one critical section, writeInt32 signals after        *)
(* setting ADAcquire, and ADStatus is never left on Acquire).              *)
NoLostStart ==
    pc = "Wait" /\ ADAcquire = 1 /\ ADStatus # "Disconnected" => startEvent = "full"

(* An image is published, and counted, only when the server accumulated    *)
(* all its exposures to their end and nothing else.  It holds what was     *)
(* accumulated, or nothing but zeros where the GET of its data may fail:   *)
(* then the image is published and counted all the same.                   *)
ImageComplete ==
    pc \in {"Publish", "EndFrame"} =>
        spectrum \in [exposures : {NumExposures}, cut : {0}, data : Fetched]

(* The exposure counter an operator sees during a frame does not run ahead *)
(* of the exposures the server completed ("normal completion", line 504).  *)
CountedExposuresCompleted ==
    pc \in {"NextExposure", "AcquisitionAsync", "WaitStop", "Count"} =>
        ADNumExposuresCounter <= server.exposures

(* Whenever the server acquires on the task's behalf ADStatus says so,     *)
(* which is what writeInt32 looks at before it calls abort().              *)
StopIsEffective ==
    pc = "WaitStop" /\ server.state = "Acquiring" => ADStatus = "Acquire"

(* The task is woken from an exposure only once the server is done with it.*)
WokenWhenDone ==
    pc = "Count" => server.state # "Acquiring"

(* Whoever waits is owed a wake-up, in every environment: the event is     *)
(* given, or its notification is under way to the callback, or the server  *)
(* acquires and will send it.  Line 500 waits without a timeout.           *)
WakeUpOwed ==
    pc = "WaitStop" =>
        \/ stopEvent = "full"
        \/ server.state = "Acquiring" /\ guidState \in callbacks \intersect server.stateSubs
        \/ \E n \in notes: n[1] \in callbacks /\ Stopping(n[2])

(* Asleep after an acquisition, the task has given everything back: the    *)
(* server is out of the measurement and knows no spectrum and no           *)
(* subscription of the driver.  A Stop between two images of an unfinished *)
(* series is the exception, see ActiveForFirstFrame.                       *)
ReleasedAsleep ==
    pc = "Wait" /\ (ADStatus = "Aborted" \/ Finished(1, imageMode, numImagesCounter)) =>
        /\ server.state = "Active"
        /\ server.spectrum = "none"
        /\ server.stateSubs \union server.updateSubs = {}
        /\ callbacks = {}

(* "Analyser has to be in Active state" for the first frame (line 427):    *)
(* with no failure and a patient operator it always is, were it not for a  *)
(* Stop that finds the task between two images.                            *)
ActiveForFirstFrame ==
    pc = "GetState" => server.state = "Active"

(* However an acquisition failed, the next one can clean up after it: the  *)
(* cleanup stops at FinishSpectrum, and never reaches FinishMeasurement,   *)
(* when it holds the id of a spectrum the server does not know.            *)
CleanupCanSucceed ==
    pc = "Wait" /\ server.state = "Measuring" /\ spectrumId = "held" =>
        server.spectrum = "defined"

(* One acquisition holds at most one callback of each kind.                *)
NoStaleCallback ==
    callbacks \subseteq {guidState, guidAcquired}

(* Without a connection the task sleeps for ever (it has no client to call).*)
DisconnectedSleeps ==
    ADStatus = "Disconnected" => pc \in {"Top", "Wait"}

(* Every exposure ends, however it was started or stopped and whatever     *)
(* failed: no wake-up is lost between start() and the wait.                *)
ExposureEnds == pc = "WaitStop" ~> pc # "WaitStop"

(* A Stop is obeyed: the acquisition ends unless it is started again.      *)
StopObeyed == ADAcquire = 0 ~> (pc = "Wait" \/ ADAcquire = 1)
=============================================================================
