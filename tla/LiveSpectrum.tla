---------------------------- MODULE LiveSpectrum ----------------------------
(***************************************************************************)
(* The live spectrum: what happens between an update the server sends and  *)
(* the point an operator sees.                                             *)
(*                                                                         *)
(*   the task      acquisitionTask, reduced to the counters it shares by   *)
(*                 reference with the SpectrumUpdate callback: numSteps    *)
(*                 and numExposuresCounter, which it writes without the    *)
(*                 driver lock, and numStepsCounter;                       *)
(*   the notifier  the thread that runs the callbacks in the order the     *)
(*                 server sent the notifications.  The SpectrumUpdate      *)
(*                 callback counts under the driver lock and then writes   *)
(*                 m_SpectrumLive, without it, in two steps;               *)
(*   spectrumTask  waits for spectrumEvent, a binary semaphore, and shows  *)
(*                 m_SpectrumLive, at most once a second but for the last  *)
(*                 point of an exposure.                                   *)
(*                                                                         *)
(* The critical sections of the driver lock in this module are single      *)
(* steps.  A definition marked "Variant" is a plausible mistake in the     *)
(* definition that follows it; no specification uses it.                   *)
(***************************************************************************)
EXTENDS Integers, Sequences

CONSTANTS
    NumExposures,       \* ADNumExposures
    NumImages,          \* ADNumImages, in image mode Multiple
    ActualSteps,        \* steps the analyser acquires in an exposure
    EstimatedSteps,     \* steps it estimated for the spectrum definition
    MaxInbox            \* bound: notifications under way

ASSUME CountsAssumption ==
    {NumExposures, NumImages, ActualSteps, EstimatedSteps, MaxInbox} \subseteq Nat \ {0}

VARIABLES
    \* parameters
    ADAcquire, ADStatus, ADNumImagesCounter,
    AcqNumSteps, AcqNumStepsCounter, AcqProgress,
    \* the task, and its variables that the callback captures
    pc, numSteps, numStepsCounter, numExposuresCounter,
    stopEvent,
    \* the server: steps acquired in the exposure under way, -1 at rest
    acquired,
    inbox,              \* notifications under way, in the order sent
    \* the notifier
    nPc, update,        \* the point the callback was called with
    \* what the notifier and spectrumTask share
    m_SpectrumLive, spectrumEvent,
    \* spectrumTask
    sPc,
    read,               \* the point it is reading
    shown,              \* the point published last
    lost                \* history: the point read last, if its data did not come

params   == <<ADAcquire, ADStatus, ADNumImagesCounter,
              AcqNumSteps, AcqNumStepsCounter, AcqProgress>>
locals   == <<numSteps, numStepsCounter, numExposuresCounter>>
remote   == <<acquired, inbox>>
notifier == <<nPc, update>>
live     == <<m_SpectrumLive, spectrumEvent>>
viewer   == <<sPc, read, shown, lost>>

vars == <<params, pc, locals, stopEvent, remote, notifier, live, viewer>>

-----------------------------------------------------------------------------
(* A point is the update after step s of exposure e of image i. *)
Points == [image : 0 .. NumImages, exposure : 1 .. NumExposures, step : 1 .. ActualSteps]
NoPoint == [image |-> 0, exposure |-> 0, step |-> 0]
Torn    == [image |-> 0, exposure |-> 0, step |-> 1]    \* parts of two points
Blank   == [image |-> 0, exposure |-> 0, step |-> 2]    \* zeros

LastPoint == [image |-> NumImages - 1, exposure |-> NumExposures, step |-> ActualSteps]

\* Notifications: an update, one without a value, the end of an exposure.
Null      == [type |-> "null"]
Measuring == [type |-> "Measuring"]
Update(p) == [type |-> "update", point |-> p]

TypeOK ==
    /\ ADAcquire \in {0, 1}
    /\ ADStatus \in {"Idle", "Acquire", "Aborted"}
    /\ ADNumImagesCounter \in 0 .. NumImages
    /\ AcqNumSteps \in {EstimatedSteps, ActualSteps}
    /\ AcqNumStepsCounter \in 0 .. ActualSteps
    /\ AcqProgress \in Nat
    /\ pc \in {"Top", "NextExposure", "Start", "WaitStop", "Count", "Publish"}
    /\ numSteps \in {EstimatedSteps, ActualSteps}
    /\ numStepsCounter \in 0 .. ActualSteps
    /\ numExposuresCounter \in 0 .. NumExposures + 1
    /\ stopEvent \in {"empty", "full"}
    /\ acquired \in -1 .. ActualSteps
    /\ inbox \in Seq({Null, Measuring} \union {Update(p) : p \in Points})
    /\ nPc \in {"idle", "count", "store", "flag", "trigger"}
    /\ update \in Points \union {NoPoint}
    /\ m_SpectrumLive \in [point : Points \union {NoPoint},
                           IsLast : {"missing", "false", "true"}]
    /\ spectrumEvent \in {"empty", "full"}
    /\ sPc \in {"wait", "test", "read", "show", "dead"}
    /\ read \in Points \union {NoPoint}
    /\ shown \in Points \union {NoPoint, Torn, Blank}
    /\ lost \in Points \union {NoPoint}

Init ==
    /\ ADAcquire = 0
    /\ ADStatus = "Idle"
    /\ ADNumImagesCounter = 0
    /\ AcqNumSteps = EstimatedSteps
    /\ AcqNumStepsCounter = 0
    /\ AcqProgress = 0
    /\ pc = "Top"
    /\ numSteps = EstimatedSteps
    /\ numStepsCounter = 0
    /\ numExposuresCounter = 0
    /\ stopEvent = "empty"
    /\ acquired = -1
    /\ inbox = <<>>
    /\ nPc = "idle"
    /\ update = NoPoint
    /\ m_SpectrumLive = [point |-> NoPoint, IsLast |-> "missing"]
    /\ spectrumEvent = "empty"
    /\ sPc = "wait"
    /\ read = NoPoint
    /\ shown = NoPoint
    /\ lost = NoPoint

-----------------------------------------------------------------------------
(* The task. *)

\* The number of steps is the estimate, or what the last exposure found.
Snapshot ==
    /\ numSteps' = AcqNumSteps
    /\ numExposuresCounter' = 0
    /\ pc' = "NextExposure"

\* A new acquisition, for an operator who writes Acquire=1 when none runs.
Begin ==
    /\ pc = "Top"
    /\ ADAcquire = 0
    /\ ADAcquire' = 1
    /\ ADStatus' = "Acquire"
    /\ ADNumImagesCounter' = 0
    /\ AcqProgress' = 0
    /\ Snapshot
    /\ UNCHANGED <<AcqNumSteps, AcqNumStepsCounter, numStepsCounter, stopEvent,
                   remote, notifier, live, viewer>>

NextFrame ==
    /\ pc = "Top"
    /\ ADAcquire = 1
    /\ Snapshot
    /\ UNCHANGED <<params, numStepsCounter, stopEvent, remote, notifier, live, viewer>>

\* Variant: the steps of all exposures are counted together.
NextExposureKeepsSteps ==
    /\ pc = "NextExposure"
    /\ numExposuresCounter' = numExposuresCounter + 1
    /\ IF numExposuresCounter < NumExposures
       THEN /\ numStepsCounter' = IF numExposuresCounter = 0 THEN 0 ELSE numStepsCounter
            /\ stopEvent' = "empty"
            /\ pc' = "Start"
       ELSE pc' = "Publish" /\ UNCHANGED <<numStepsCounter, stopEvent>>
    /\ UNCHANGED <<params, numSteps, remote, notifier, live, viewer>>

NextExposure ==
    /\ pc = "NextExposure"
    /\ numExposuresCounter' = numExposuresCounter + 1
    /\ IF numExposuresCounter < NumExposures
       THEN numStepsCounter' = 0 /\ stopEvent' = "empty" /\ pc' = "Start"
       ELSE pc' = "Publish" /\ UNCHANGED <<numStepsCounter, stopEvent>>
    /\ UNCHANGED <<params, numSteps, remote, notifier, live, viewer>>

Start ==
    /\ pc = "Start"
    /\ acquired' = 0
    /\ pc' = "WaitStop"
    /\ UNCHANGED <<params, locals, stopEvent, inbox, notifier, live, viewer>>

\* Variant: the steps are reset after an exposure, not before it.
WaitStopResetsSteps ==
    /\ pc = "WaitStop"
    /\ stopEvent = "full"
    /\ stopEvent' = "empty"
    /\ numStepsCounter' = 0
    /\ pc' = "Count"
    /\ UNCHANGED <<params, numSteps, numExposuresCounter, remote, notifier, live, viewer>>

WaitStop ==
    /\ pc = "WaitStop"
    /\ stopEvent = "full"
    /\ stopEvent' = "empty"
    /\ pc' = "Count"
    /\ UNCHANGED <<params, locals, remote, notifier, live, viewer>>

Count ==
    /\ pc = "Count"
    /\ IF ADAcquire = 1
       THEN pc' = "NextExposure" /\ UNCHANGED ADStatus
       ELSE pc' = "Top" /\ ADStatus' = "Aborted"
    /\ UNCHANGED <<ADAcquire, ADNumImagesCounter, AcqNumSteps, AcqNumStepsCounter,
                   AcqProgress, locals, stopEvent, remote, notifier, live, viewer>>

\* The image is complete; the last one ends the acquisition.
Publish ==
    /\ pc = "Publish"
    /\ ADNumImagesCounter' = ADNumImagesCounter + 1
    /\ IF ADAcquire = 0 \/ ADNumImagesCounter + 1 = NumImages
       THEN ADAcquire' = 0 /\ ADStatus' = "Idle"
       ELSE UNCHANGED <<ADAcquire, ADStatus>>
    /\ pc' = "Top"
    /\ UNCHANGED <<AcqNumSteps, AcqNumStepsCounter, AcqProgress, locals, stopEvent,
                   remote, notifier, live, viewer>>

-----------------------------------------------------------------------------
(* The operator. *)

\* At the top of its loop the task holds the lock.  A Stop between two
\* exposures has nothing to cancel: the next one runs.
Stop ==
    /\ pc # "Top"
    /\ ADAcquire = 1
    /\ ADAcquire' = 0
    /\ IF acquired >= 0
       THEN acquired' = -1 /\ inbox' = Append(inbox, Measuring)
       ELSE UNCHANGED remote
    /\ UNCHANGED <<ADStatus, ADNumImagesCounter, AcqNumSteps, AcqNumStepsCounter,
                   AcqProgress, pc, locals, stopEvent, notifier, live, viewer>>

(* Any write to a setting of the analyser estimates the region again, also *)
(* during an acquisition: setupSpectrumDefinition ends in setRegion.       *)
Estimate ==
    /\ AcqNumSteps' = EstimatedSteps
    /\ AcqNumStepsCounter' = 0
    /\ UNCHANGED <<ADAcquire, ADStatus, ADNumImagesCounter, AcqProgress, pc, locals,
                   stopEvent, remote, notifier, live, viewer>>

-----------------------------------------------------------------------------
(* The server. *)

Here == [image |-> ADNumImagesCounter, exposure |-> numExposuresCounter,
         step |-> acquired + 1]

ServerStep ==
    /\ acquired \in 0 .. ActualSteps - 1
    /\ Len(inbox) < MaxInbox
    /\ acquired' = acquired + 1
    /\ inbox' = Append(inbox, Update(Here))
    /\ UNCHANGED <<params, pc, locals, stopEvent, notifier, live, viewer>>

ServerNull ==
    /\ acquired >= 0
    /\ Len(inbox) < MaxInbox
    /\ Null \notin {inbox[i] : i \in 1 .. Len(inbox)}
    /\ inbox' = Append(inbox, Null)
    /\ UNCHANGED <<params, pc, locals, stopEvent, acquired, notifier, live, viewer>>

ServerCompletes ==
    /\ acquired = ActualSteps
    /\ acquired' = -1
    /\ inbox' = Append(inbox, Measuring)
    /\ UNCHANGED <<params, pc, locals, stopEvent, notifier, live, viewer>>

-----------------------------------------------------------------------------
(* The notifier. *)

Notified ==
    /\ nPc = "idle"
    /\ inbox # <<>>
    /\ inbox' = Tail(inbox)
    /\ LET n == Head(inbox)
       IN /\ stopEvent' = IF n = Measuring THEN "full" ELSE stopEvent
          /\ IF n.type = "update"
             THEN nPc' = "count" /\ update' = n.point
             ELSE UNCHANGED notifier     \* a null Value is ignored
    /\ UNCHANGED <<params, pc, locals, acquired, live, viewer>>

\* Variant: the accumulated exposures multiply the progress.
ProgressMultiplied(steps) ==
    (100 * steps * NumExposures) \div (numSteps * numExposuresCounter)

\* AcqProgress in whole percent.
Progress(steps) ==
    (100 * steps * numExposuresCounter) \div (numSteps * NumExposures)

\* The first update corrects the estimated region, numSteps stays.
CountStep ==
    /\ nPc = "count"
    /\ AcqNumSteps' = IF numStepsCounter = 0 THEN ActualSteps ELSE AcqNumSteps
    /\ numStepsCounter' = numStepsCounter + 1
    /\ AcqNumStepsCounter' = numStepsCounter'
    /\ AcqProgress' = Progress(numStepsCounter')
    /\ nPc' = "store"
    /\ UNCHANGED <<ADAcquire, ADStatus, ADNumImagesCounter, pc, numSteps,
                   numExposuresCounter, stopEvent, remote, update, live, viewer>>

\* The channel just received has no member IsLast.
StoreSpectrum ==
    /\ nPc = "store"
    /\ m_SpectrumLive' = [point |-> update, IsLast |-> "missing"]
    /\ nPc' = "flag"
    /\ UNCHANGED <<params, pc, locals, stopEvent, remote, update, spectrumEvent, viewer>>

FlagLast ==
    /\ nPc = "flag"
    /\ m_SpectrumLive' = [m_SpectrumLive EXCEPT
                             !.IsLast = IF numSteps = numStepsCounter THEN "true" ELSE "false"]
    /\ nPc' = "trigger"
    /\ UNCHANGED <<params, pc, locals, stopEvent, remote, update, spectrumEvent, viewer>>

\* Variant: spectrumTask is told of a point only when it waits for one.
TriggerIfWaiting ==
    /\ nPc = "trigger"
    /\ spectrumEvent' = IF sPc = "wait" THEN "full" ELSE spectrumEvent
    /\ nPc' = "idle"
    /\ UNCHANGED <<params, pc, locals, stopEvent, remote, update, m_SpectrumLive, viewer>>

Trigger ==
    /\ nPc = "trigger"
    /\ spectrumEvent' = "full"
    /\ nPc' = "idle"
    /\ UNCHANGED <<params, pc, locals, stopEvent, remote, update, m_SpectrumLive, viewer>>

-----------------------------------------------------------------------------
(* spectrumTask. *)

WaitUpdate ==
    /\ sPc = "wait"
    /\ spectrumEvent = "full"
    /\ spectrumEvent' = "empty"
    /\ sPc' = "test"
    /\ UNCHANGED <<params, pc, locals, stopEvent, remote, notifier, m_SpectrumLive,
                   read, shown, lost>>

(* Whether a second has gone by is left open.  Otherwise IsLast decides;   *)
(* get<bool>() throws when it is missing, and nothing catches that: the    *)
(* thread is terminated.                                                   *)
Throttle ==
    /\ sPc = "test"
    /\ sPc' \in {"read",
                 CASE m_SpectrumLive.IsLast = "true"    -> "read"
                   [] m_SpectrumLive.IsLast = "false"   -> "wait"
                   [] m_SpectrumLive.IsLast = "missing" -> "dead"}
    /\ UNCHANGED <<params, pc, locals, stopEvent, remote, notifier, live,
                   read, shown, lost>>

\* m_SpectrumLive is read in place; its data are fetched by a request of their own.
ReadSpectrum ==
    /\ sPc = "read"
    /\ read' = m_SpectrumLive.point
    /\ lost' = NoPoint
    /\ sPc' = "show"
    /\ UNCHANGED <<params, pc, locals, stopEvent, remote, notifier, live, shown>>

\* A point replaced meanwhile is a data race: either point, or a mixture.
ShowSpectrum ==
    /\ sPc = "show"
    /\ shown' \in IF m_SpectrumLive.point = read THEN {read}
                  ELSE {read, m_SpectrumLive.point, Torn}
    /\ read' = NoPoint
    /\ sPc' = "wait"
    /\ UNCHANGED <<params, pc, locals, stopEvent, remote, notifier, live, lost>>

(* The request for the data fails: get() returns false, which nobody       *)
(* looks at, and zeros are shown; or something throws, and the point is    *)
(* dropped with a message.                                                 *)
LoseSpectrum ==
    /\ sPc = "show"
    /\ shown' \in {Blank, shown}
    /\ read' = NoPoint
    /\ lost' = read
    /\ sPc' = "wait"
    /\ UNCHANGED <<params, pc, locals, stopEvent, remote, notifier, live>>

-----------------------------------------------------------------------------
Task     == Begin \/ NextFrame \/ NextExposure \/ Start \/ WaitStop \/ Count \/ Publish
Operator == Stop \/ Estimate
Server   == ServerStep \/ ServerNull \/ ServerCompletes
Notifier == Notified \/ CountStep \/ StoreSpectrum \/ FlagLast \/ Trigger
Viewer   == WaitUpdate \/ Throttle \/ ReadSpectrum \/ ShowSpectrum \/ LoseSpectrum

Next == Task \/ Operator \/ Server \/ Notifier \/ Viewer

Spec == Init /\ [][Next]_vars

-----------------------------------------------------------------------------
(* Properties. *)

(* Nothing is left to be done with the updates of the acquisition. *)
Quiet == inbox = <<>> /\ nPc = "idle" /\ sPc = "wait" /\ spectrumEvent = "empty"

(* "Always update the last point": when everything has come to rest after *)
(* a complete acquisition, its last point is the one published last, or    *)
(* else it was the last one read and its data did not come.  Earlier       *)
(* points may be torn, skipped or lost.  An acquisition whose numSteps was *)
(* an estimate that proved wrong is exempt, its last point is not known as *)
(* the last; from the second image on, the first update has corrected it.  *)
LastPointShown ==
    /\ Quiet
    /\ ADStatus = "Idle" /\ ADNumImagesCounter = NumImages
    /\ numSteps = ActualSteps
    => LastPoint \in {shown, lost}

(* The steps of an exposure that ran to its end have all been counted when *)
(* the task goes on, whatever the notifier still had to do.                *)
AllStepsCounted ==
    pc = "Count" /\ ADAcquire = 1 => numStepsCounter = ActualSteps

(* The step counter is that of the point it is shown with: the task resets *)
(* it without the lock, but never under the feet of a callback.            *)
CounterMatchesPoint ==
    nPc \in {"store", "flag", "trigger"} => numStepsCounter = update.step

(* Progress never exceeds 100 percent, nor falls within an exposure, when  *)
(* numSteps is right.                                                      *)
ProgressInBounds ==
    [][pc = "WaitStop" /\ AcqProgress' # AcqProgress /\ numSteps = ActualSteps =>
          /\ AcqProgress' <= 100
          /\ numStepsCounter > 0 => AcqProgress' >= AcqProgress]_vars

(* spectrumTask "must not return until the IOC stops". *)
SpectrumTaskNeverDies == sPc # "dead"
=============================================================================
