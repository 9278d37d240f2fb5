----------------------- MODULE AcquisitionImageProofs -----------------------
(***************************************************************************)
(* A published image is complete, a Stop is effective, the task is not     *)
(* woken early, and what an acquisition set up is given back: theorems     *)
(* about AcquisitionTask for every number of exposures and images, every   *)
(* mixture of image modes and every set of guids.                          *)
(*                                                                         *)
(* The invariant comes in layers, each with the weakest assumptions about  *)
(* the environment that it holds under, on top of PathInv, which needs     *)
(* none: FrameInv (a patient operator), SessionInv (an analyser that does  *)
(* not fail), QuietInv (moreover, no notification comes twice), and        *)
(* ExposureInv (all three).  TLC finds each theorem below violated when    *)
(* one of its hypotheses is dropped.                                       *)
(***************************************************************************)
EXTENDS AcquisitionProofs

-----------------------------------------------------------------------------
\* Where a failed frame may still have a callback.
Leftover == Cleaning \union {"Report", "Top", "Wait", "Begin", "GetState"}
InFrame  == SettingUp \union Exposing \union Finishing \union Cleaning \union Handing

Left == pc \in Leftover /\ (pc \in {"Report", "Top"} => status = "error")

-----------------------------------------------------------------------------
(* What the steps do to the server. *)

\* Unsubscribing leaves the state of the server and removes subscriptions only.
LEMMA UnsubscribedEffect ==
    \A s \in Servers : \A g :
        /\ Unsubscribed(s, g).state = s.state
        /\ Unsubscribed(s, g).stateSubs \subseteq s.stateSubs
BY DEF Unsubscribed, Servers

\* Defining a spectrum leaves the state and the subscriptions of the server.
LEMMA DefinedEffect ==
    \A s \in Servers :
        LET after == After(s, "DefineSpectrum")
        IN  after.state = s.state /\ after.stateSubs = s.stateSubs
BY DEF After, Servers

\* Defining or clearing the spectrum changes nothing the subscribers see.
LEMMA DefineStep ==
    ASSUME TypeOK, DefineSpectrum
    PROVE  /\ server'.state = server.state
           /\ server'.stateSubs = server.stateSubs
           /\ notes' = notes
BY DefinedEffect DEF TypeOK, DefineSpectrum, Succeeds, Throws, Reaches, Becomes, Announced, remote

\* Nor does clearing the spectrum, which leaves no exposure in it.
LEMMA ClearStep ==
    ASSUME TypeOK, ClearSpectrum
    PROVE  /\ server'.state = server.state
           /\ server'.stateSubs = server.stateSubs
           /\ notes' = notes
           /\ pc' = "NextExposure" => server'.exposures = 0 /\ server'.cut = 0
<1>1. After(server, "ClearSpectrum") = [server EXCEPT !.exposures = 0, !.cut = 0]
  BY DEF After
<1> DEFINE cleared == [server EXCEPT !.exposures = 0, !.cut = 0]
<1>2. /\ cleared.state = server.state /\ cleared.stateSubs = server.stateSubs
      /\ cleared.exposures = 0 /\ cleared.cut = 0
  BY DEF TypeOK, Servers
<1>3. After(server, "ClearSpectrum") = cleared
  BY <1>1
<1> HIDE DEF cleared
<1>4. \/ UNCHANGED remote /\ pc' = "CleanState"
      \/ Becomes(cleared)
  BY <1>3 DEF ClearSpectrum, CallingSpectrum, Calling, Catch, Succeeds, Throws, Reaches
<1>5. QED
  BY <1>2, <1>4 DEF Becomes, Announced, remote

\* Subscribing leaves the state of the server.
LEMMA SubscribeStep ==
    ASSUME TypeOK, NEW call, NEW next, Subscribing(call, next)
    PROVE  server'.state = server.state
BY DEF TypeOK, Servers, Subscribing, Subscribed, Succeeds, Throws, Reaches, Becomes, remote

\* An abort that reaches an acquiring server ends the exposure.
LEMMA CancelStep ==
    ASSUME TypeOK, CancelAcquisition
    PROVE  \/ UNCHANGED remote
           \/ /\ server.state = "Acquiring"
              /\ server' = [server EXCEPT !.state = "Measuring", !.cut = 1]
              /\ notes' = notes \union ((server.stateSubs \intersect Listeners) \X {"Measuring"})
           \/ /\ server' = server
              /\ notes' = notes
<1>1. After(server, "CancelAcquisition") =
          IF server.state = "Acquiring"
          THEN [server EXCEPT !.state = "Measuring", !.cut = 1] ELSE server
  BY DEF After
<1>2. /\ server \in Servers
      /\ \/ Becomes(After(server, "CancelAcquisition"))
         \/ UNCHANGED remote
  BY DEF TypeOK, CancelAcquisition, Succeeds, Throws, Reaches
<1>3. QED
  BY <1>1, <1>2 DEF Servers, Becomes, Announced, remote

-----------------------------------------------------------------------------
(* A patient operator: ADStatus shows the acquisition, so it is not        *)
(* restarted, and within a frame ADAcquire only falls.                     *)
FrameInv ==
    /\ pc \in InFrame => ADStatus = "Acquire"
    /\ pc = "Top" /\ ADAcquire = 1 => ADStatus = "Acquire" /\ spectrumId = "held"
    /\ pc = "ClearSpectrum" => spectrumId = "held"
    /\ pc \in InFrame /\ ADAcquire = 1 => acquire = 1
    /\ port = "abort" => ADAcquire = 0 /\ ADStatus = "Acquire"

\* What leaves the task, ADStatus and the abort under way leaves FrameInv.
LEMMA FrameAside ==
    ASSUME FrameInv, UNCHANGED <<pc, ADStatus, ADAcquire, acquire, spectrumId>>,
           port' = "abort" => port = "abort"
    PROVE  FrameInv'
BY DEF FrameInv

(* FrameInv is inductive when the operator is patient. *)
LEMMA FrameInduction ==
    ASSUME Patient = TRUE
    PROVE  AsleepInv /\ PathInv /\ FrameInv /\ [Next]_vars => FrameInv'
<1> SUFFICES ASSUME AsleepInv, PathInv, FrameInv, [Next]_vars  PROVE FrameInv'
  OBVIOUS
<1> USE DEF SettingUp, Exposing, Finishing, Cleaning, Handing, InFrame
<1>1. CASE Server \/ (\E n \in notes : StateChanged(n)) \/ WriteImageMode
           \/ CancelAcquisition \/ UNCHANGED vars
  BY <1>1, FrameAside
     DEF Server, ServerCompletes, ServerFails, ServerRecovers, StateChanged, driver, local,
         WriteImageMode, CancelAcquisition, vars, params, frame, session
<1>2. CASE Start \/ Stop
  BY <1>2 DEF Start, Stop, local, frame, session, FrameInv, AsleepInv, LockInv
<1>3. CASE GoToSleep \/ NextFrame \/ WakeUp \/ Begin
  BY <1>3 DEF GoToSleep, NextFrame, WakeUp, Begin, SnapshotParameters, params, session, FrameInv,
              AsleepInv, LockInv
<1>4. CASE Setup \/ ClearSpectrum \/ AcquisitionAsync
  <2>1. /\ pc \in SettingUp \union {"AcquisitionAsync"} /\ pc' \in InFrame
        /\ pc' = "ClearSpectrum" => UNCHANGED spectrumId /\ pc = "RegisterUpdate"
        /\ UNCHANGED <<params, acquire, port>>
    BY <1>4 DEF Setup, GetState, DefineSpectrum, StartMeasurement, SetupSpectrum, SubscribeState,
                RegisterState, SubscribeUpdate, RegisterUpdate, ClearSpectrum, AcquisitionAsync,
                Calling, CallingSpectrum, Subscribing, Registering, Catch, frame, session
  <2> QED
    BY <2>1 DEF params, FrameInv, PathInv, SpectrumInv
<1>5. CASE NextExposure \/ WaitStop \/ Count
  BY <1>5 DEF NextExposure, WaitStop, Count, params, frame, FrameInv
<1>6. CASE Finish \/ Cleanup
  <2>1. /\ pc \in Finishing \union Cleaning
        /\ pc' \in (Finishing \union Cleaning \union Handing)
        /\ UNCHANGED <<params, acquire, port>>
    BY <1>6 DEF Finish, GetMeasuredSpectrum, UnsubscribeState, UnsubscribeUpdate, FinishSpectrum,
                FinishMeasurement, Cleanup, CleanState, CleanUpdate, CleanQuery, CleanSpectrum,
                CleanMeasurement, Calling, Unsubscribing, Catch, frame
  <2> QED
    BY <2>1 DEF params, FrameInv
<1>7. CASE Report
  BY <1>7 DEF Report, ReportError, ReportAborted, ReportImage, Published, params, frame, FrameInv,
              AsleepInv, LockInv
<1>8. CASE EndFrame
  BY <1>8 DEF EndFrame, session, FrameInv, PathInv, StatusInv, SpectrumInv, Continues, Over, Finished,
              AsleepInv, TypeOK, LockInv
<1> QED
  BY <1>1, <1>2, <1>3, <1>4, <1>5, <1>6, <1>7, <1>8 DEF Next, Task, Expose, Operator

LEMMA FrameInvariant ==
    ASSUME Patient = TRUE
    PROVE  Spec => []FrameInv
<1>1. Init => FrameInv
  BY DEF Init, FrameInv, InFrame, SettingUp, Exposing, Finishing, Cleaning, Handing
<1>2. AsleepInv /\ PathInv /\ FrameInv /\ [Next]_vars => FrameInv'
  BY FrameInduction
<1> QED
  BY <1>1, <1>2, AsleepInvariant, PathInvariant, PTL DEF Spec

(* While the server acquires for the task a Stop leads to an abort,        *)
(* whatever fails, as long as the operator is patient.                     *)
THEOREM StopAlwaysEffective ==
    ASSUME Patient = TRUE
    PROVE  Spec => []StopIsEffective
<1>1. FrameInv => StopIsEffective
  BY DEF StopIsEffective, FrameInv, InFrame, Exposing
<1> QED
  BY <1>1, FrameInvariant, PTL

-----------------------------------------------------------------------------
(* An analyser that does not fail: it stays in the measurement from        *)
(* StartMeasurement to FinishMeasurement, and the callbacks are those of   *)
(* this acquisition and die with the measurement.                          *)
SessionInv ==
    /\ server.state # "Error"
    /\ pc \in {"DefineSpectrum", "StartMeasurement"} => server.state = "Active"
    /\ callbacks = {guidState, guidAcquired} \ {NoGuid}
    /\ guidState = guidAcquired => guidState = NoGuid
    /\ reply \notin callbacks
    /\ reply # NoGuid <=> pc \in {"RegisterState", "RegisterUpdate"}
    /\ server.state = "Active" => callbacks = {}
    /\ pc \in {"SetupSpectrum", "SubscribeState", "RegisterState"} =>
           callbacks = {} /\ server.state # "Active"
    /\ pc \in {"SubscribeUpdate", "RegisterUpdate"} =>
           callbacks \subseteq {guidState} /\ server.state # "Active"
    /\ pc \in {"UnsubscribeUpdate", "CleanUpdate"} => callbacks \subseteq {guidAcquired}
    /\ pc \in {"FinishSpectrum", "FinishMeasurement", "CleanQuery", "CleanSpectrum",
               "CleanMeasurement"} => callbacks = {}

\* What a call does to the state of the server.
LEMMA CallState ==
    ASSUME TypeOK, NEW call \in Calls,
           Succeeds(call, After(server, call)) \/ Throws(call, After(server, call))
    PROVE  \/ UNCHANGED server.state
           \/ call = "StartMeasurement" /\ server'.state = "Measuring"
           \/ call = "AcquisitionAsync" /\ server'.state = "Acquiring" /\ server.state = "Measuring"
           \/ call = "CancelAcquisition" /\ server'.state = "Measuring" /\ server.state = "Acquiring"
           \/ call = "FinishMeasurement" /\ server'.state = "Active"
<1>1. \/ UNCHANGED server
      \/ Accepts(server, call) /\ server' = After(server, call)
  BY DEF Succeeds, Throws, Reaches, Becomes, remote
<1> QED
  BY <1>1, CallEffect DEF TypeOK, Accepts, Calls

\* What neither moves the task nor touches its session leaves SessionInv.
LEMMA SessionAside ==
    ASSUME SessionInv, UNCHANGED <<pc, guidState, guidAcquired, reply, callbacks>>,
           server'.state # "Error",
           server'.state = "Active" <=> server.state = "Active"
    PROVE  SessionInv'
BY DEF SessionInv

(* SessionInv is inductive when the analyser does not fail. *)
LEMMA SessionInduction ==
    ASSUME DeviceErrors = FALSE
    PROVE  TypeOK /\ SessionInv /\ [Next]_vars => SessionInv'
<1> SUFFICES ASSUME TypeOK, SessionInv, [Next]_vars  PROVE SessionInv'
  OBVIOUS
<1>0. server \in Servers
  BY DEF TypeOK
<1>1. CASE Operator \/ (\E n \in notes : StateChanged(n)) \/ UNCHANGED vars
  BY <1>1, SessionAside
     DEF Operator, Start, Stop, WriteImageMode, StateChanged, driver, local, session, remote, vars,
         SessionInv
<1>2. CASE CancelAcquisition
  <2>1. UNCHANGED local
    BY <1>2 DEF CancelAcquisition
  <2>2. \/ UNCHANGED server.state
        \/ server'.state = "Measuring" /\ server.state = "Acquiring"
    BY <1>2, CallState DEF CancelAcquisition, Calls
  <2> QED
    BY <2>1, <2>2, SessionAside DEF local, session, SessionInv
<1>3. CASE Server
  <2>1. ServerCompletes
    BY <1>3 DEF Server, ServerFails, ServerRecovers, SessionInv
  <2>2. server'.state = "Measuring" /\ server.state = "Acquiring"
    BY <1>0, <2>1 DEF ServerCompletes, Becomes, Completed, Servers
  <2> QED
    BY <2>1, <2>2, SessionAside DEF ServerCompletes, driver, local, session
<1>4. CASE GoToSleep \/ NextFrame \/ WakeUp \/ Begin \/ NextExposure \/ WaitStop \/ Count
           \/ Report \/ EndFrame
  BY <1>4 DEF GoToSleep, NextFrame, WakeUp, Begin, SnapshotParameters, NextExposure, WaitStop, Count,
              Report, ReportError, ReportAborted, ReportImage, Published, EndFrame, session, remote,
              SessionInv
<1>5. CASE GetState \/ DefineSpectrum \/ GetMeasuredSpectrum
  <2>1. UNCHANGED <<server.state, guidState, guidAcquired, reply, callbacks>>
    BY <1>0, <1>5, CallEffect
       DEF GetState, DefineSpectrum, GetMeasuredSpectrum, Succeeds, Throws, Reaches, Becomes, session,
           remote, Calls
  <2>2. /\ pc \in {"GetState", "DefineSpectrum", "GetMeasuredSpectrum"}
        /\ pc' \in {"DefineSpectrum", "StartMeasurement", "UnsubscribeState", "Report", "CleanState"}
        /\ pc' = "DefineSpectrum" => server.state = "Active"
        /\ pc' = "StartMeasurement" => pc = "DefineSpectrum"
    BY <1>5 DEF GetState, DefineSpectrum, GetMeasuredSpectrum, Catch
  <2> QED
    BY <2>1, <2>2 DEF SessionInv
<1>6. CASE StartMeasurement
  <2>1. /\ UNCHANGED session /\ pc = "StartMeasurement"
        /\ \/ pc' = "CleanState"
           \/ pc' = "SetupSpectrum" /\ server' = After(server, "StartMeasurement")
    BY <1>6 DEF StartMeasurement, Calling, Catch, Succeeds, Reaches, Becomes
  <2>2. UNCHANGED server.state \/ server'.state = "Measuring"
    BY <1>6, CallState DEF StartMeasurement, Calling, Calls
  <2>3. pc' = "SetupSpectrum" => server'.state = "Measuring"
    BY <1>0, <2>1, CallEffect DEF Calls
  <2> QED
    BY <2>1, <2>2, <2>3 DEF session, SessionInv
<1>7. CASE SetupSpectrum \/ ClearSpectrum \/ AcquisitionAsync
  <2>1. /\ UNCHANGED session
        /\ \/ pc = "SetupSpectrum" /\ pc' \in {"SubscribeState", "CleanState"}
           \/ pc # "SetupSpectrum" /\ pc' \in {"NextExposure", "WaitStop", "CleanState"}
        /\ pc \notin {"RegisterState", "RegisterUpdate"}
    BY <1>7 DEF SetupSpectrum, ClearSpectrum, AcquisitionAsync, CallingSpectrum, Calling, Catch
  <2>2. \/ UNCHANGED server.state
        \/ server.state # "Active" /\ server'.state = "Acquiring"
    BY <1>7, CallState
       DEF SetupSpectrum, ClearSpectrum, AcquisitionAsync, CallingSpectrum, Calling, Calls, remote
  <2> QED
    BY <2>1, <2>2 DEF session, SessionInv
<1>8. CASE SubscribeState \/ SubscribeUpdate
  <2>1. /\ UNCHANGED <<guidState, guidAcquired, callbacks, server.state>>
        /\ \/ UNCHANGED reply /\ pc' = "CleanState"
           \/ /\ reply' \in Guids /\ reply' \notin callbacks
              /\ \/ pc = "SubscribeState" /\ pc' = "RegisterState"
                 \/ pc = "SubscribeUpdate" /\ pc' = "RegisterUpdate"
    BY <1>8, SubscribeStep
       DEF SubscribeState, SubscribeUpdate, Subscribing, Catch, FreshGuids, UnusedGuids
  <2>2. pc \in {"SubscribeState", "SubscribeUpdate"}
    BY <1>8 DEF SubscribeState, SubscribeUpdate
  <2> QED
    BY <2>1, <2>2, GuidsAssumption DEF SessionInv
<1>9. CASE RegisterState \/ RegisterUpdate
  BY <1>9 DEF RegisterState, RegisterUpdate, Registering, remote, SessionInv
<1>10. CASE UnsubscribeState \/ UnsubscribeUpdate \/ CleanState \/ CleanUpdate
  <2>1. UNCHANGED <<server.state, reply>>
    BY <1>0, <1>10, UnsubscribedEffect
       DEF UnsubscribeState, UnsubscribeUpdate, CleanState, CleanUpdate, Unsubscribing, Succeeds, Throws,
           Reaches, Becomes, remote
  <2>2. \/ /\ UNCHANGED <<guidState, guidAcquired, callbacks>>
           /\ pc' \in {"CleanState", "Report"}
        \/ /\ guidState' = NoGuid /\ callbacks' = callbacks \ {guidState}
           /\ UNCHANGED guidAcquired
           /\ pc' \in {"UnsubscribeUpdate", "CleanUpdate"}
        \/ /\ guidAcquired' = NoGuid /\ callbacks' = callbacks \ {guidAcquired}
           /\ UNCHANGED guidState
           /\ pc \in {"UnsubscribeUpdate", "CleanUpdate"} /\ pc' \in {"FinishSpectrum", "CleanQuery"}
    BY <1>10 DEF UnsubscribeState, UnsubscribeUpdate, CleanState, CleanUpdate, Unsubscribing, Forgotten
  <2>3. pc \notin {"RegisterState", "RegisterUpdate"}
    BY <1>10 DEF UnsubscribeState, UnsubscribeUpdate, CleanState, CleanUpdate
  <2> QED
    BY <2>1, <2>2, <2>3 DEF SessionInv
<1>11. CASE FinishSpectrum \/ FinishMeasurement \/ CleanQuery \/ CleanSpectrum \/ CleanMeasurement
  <2>1. /\ UNCHANGED <<guidState, guidAcquired, reply, callbacks>>
        /\ pc \in {"FinishSpectrum", "FinishMeasurement", "CleanQuery", "CleanSpectrum",
                   "CleanMeasurement"}
        /\ pc' \in {"FinishMeasurement", "CleanSpectrum", "CleanMeasurement", "CleanState", "Report"}
    BY <1>11 DEF FinishSpectrum, FinishMeasurement, CleanQuery, CleanSpectrum, CleanMeasurement,
                 Calling, Catch, session
  <2>2. UNCHANGED server.state \/ server'.state = "Active"
    BY <1>11, CallState
       DEF FinishSpectrum, FinishMeasurement, CleanQuery, CleanSpectrum, CleanMeasurement, Calling,
           Succeeds, Throws, Reaches, Becomes, Calls, remote
  <2> QED
    BY <2>1, <2>2 DEF SessionInv
<1> QED
  BY <1>1, <1>2, <1>3, <1>4, <1>5, <1>6, <1>7, <1>8, <1>9, <1>10, <1>11
     DEF Next, Task, Setup, Expose, Finish, Cleanup

LEMMA SessionInvariant ==
    ASSUME DeviceErrors = FALSE
    PROVE  Spec => []SessionInv
<1>1. Init => SessionInv
  BY DEF Init, SessionInv, IdleServer
<1>2. TypeOK /\ SessionInv /\ [Next]_vars => SessionInv'
  BY SessionInduction
<1> QED
  BY <1>1, <1>2, TypeCorrect, PTL DEF Spec

(* Whatever the operator does and however calls fail, the callbacks that   *)
(* can still be run are those of the subscriptions the task holds.         *)
THEOREM CallbacksHeld ==
    ASSUME DeviceErrors = FALSE
    PROVE  Spec => []NoStaleCallback
<1>1. SessionInv => NoStaleCallback
  BY DEF SessionInv, NoStaleCallback
<1> QED
  BY <1>1, SessionInvariant, PTL

-----------------------------------------------------------------------------
(* An analyser that does not fail, and notifications that come once.       *)

\* Where the task relies on the state of the server, it is as relied upon.
ServerInv ==
    /\ pc \in (SettingUp \ {"GetState", "DefineSpectrum", "StartMeasurement", "ClearSpectrum"})
              \union (Exposing \ {"WaitStop"}) \union Finishing
           => server.state = "Measuring"
    /\ pc = "WaitStop" => server.state \in {"Measuring", "Acquiring"}
    /\ pc = "ClearSpectrum" /\ spectrumId = "held" => server.state = "Measuring"
    /\ pc \in Handing /\ Continues => server.state = "Measuring"
    /\ pc = "Top" /\ ADAcquire = 1 /\ spectrumId = "held" => server.state = "Measuring"
    /\ server.state = "Acquiring" /\ guidState # NoGuid => pc = "WaitStop" \/ Left

\* A notification that can stop the task is about the exposure it waits for,
\* or comes too late to matter.
Heard(n) == n[1] \in callbacks \union {reply} /\ Stopping(n[2])

NotificationInv ==
    /\ guidAcquired \notin server.stateSubs
    /\ pc = "RegisterUpdate" => reply \notin server.stateSubs
    /\ \A n \in notes : Heard(n) =>
           /\ n = <<guidState, "Measuring">>
           /\ \/ pc = "WaitStop" /\ server.state = "Measuring" /\ stopEvent = "empty"
              \/ Left
    /\ pc = "AcquisitionAsync" => stopEvent = "empty"
    /\ pc = "WaitStop" /\ server.state = "Acquiring" => stopEvent = "empty"

QuietInv == ServerInv /\ NotificationInv

\* The invariants a step of a quiet environment starts from.
QuietBase == AsleepInv /\ PathInv /\ SessionInv /\ QuietInv

\* What leaves the task, the server and the notifications leaves QuietInv.
LEMMA QuietAside ==
    ASSUME QuietInv, pc = "Top" => UNCHANGED ADAcquire,
           UNCHANGED <<pc, status, acquire, imageMode, numImagesCounter, spectrumId, guidState,
                       guidAcquired, reply, callbacks, stopEvent, server, notes>>
    PROVE  QuietInv'
BY DEF QuietInv, ServerInv, NotificationInv, Heard, Left, Continues, Over

\* The end of an exposure is heard by the one callback that waits for it.
LEMMA EndHeardOnce ==
    ASSUME QuietBase, server.state = "Acquiring", server'.state = "Measuring",
           UNCHANGED <<pc, status, acquire, imageMode, numImagesCounter, spectrumId, guidState,
                       guidAcquired, reply, callbacks, stopEvent, server.stateSubs>>,
           notes' \subseteq notes \union ((server.stateSubs \intersect Listeners) \X {"Measuring"})
    PROVE  QuietInv'
<1> USE DEF QuietBase, QuietInv, Leftover, SettingUp, Exposing, Finishing, Cleaning, Handing
<1>1. pc \notin {"RegisterState", "RegisterUpdate"} /\ reply = NoGuid
  BY DEF SessionInv, ServerInv
<1>2. ServerInv'
  BY DEF ServerInv, Left
<1>3. ASSUME NEW n \in notes', Heard(n)'
      PROVE  n = <<guidState, "Measuring">> /\ (pc = "WaitStop" \/ Left)
  <2>1. n[1] \in callbacks \union {reply} /\ Stopping(n[2])
    BY <1>3 DEF Heard, Stopping
  <2>2. CASE n \in notes
    BY <2>1, <2>2 DEF Heard, NotificationInv
  <2>3. CASE n \in (server.stateSubs \intersect Listeners) \X {"Measuring"}
    <3>1. n = <<n[1], "Measuring">> /\ n[1] \in server.stateSubs /\ n[1] # NoGuid
      BY <2>3, GuidsAssumption DEF AsleepInv, TypeOK, Servers
    <3>2. n[1] = guidState
      BY <1>1, <2>1, <3>1 DEF SessionInv, NotificationInv
    <3> QED
      BY <3>1, <3>2 DEF ServerInv
  <2> QED
    BY <2>2, <2>3
<1>4. NotificationInv'
  BY <1>1, <1>3 DEF NotificationInv, Left, ServerInv
<1> QED
  BY <1>2, <1>4

\* No call of the task announces the end of an exposure to it.
LEMMA CallsUnheard ==
    ASSUME QuietBase, NEW call \in Calls, call # "CancelAcquisition",
           call = "StartMeasurement" => pc \notin {"RegisterState", "RegisterUpdate"},
           Succeeds(call, After(server, call)) \/ Throws(call, After(server, call))
    PROVE  /\ server'.stateSubs = server.stateSubs
           /\ notes \subseteq notes'
           /\ \A n \in notes' : n \in notes \/ ~Stopping(n[2])
<1>1. \/ UNCHANGED remote
      \/ Accepts(server, call) /\ Becomes(After(server, call))
  BY DEF Succeeds, Throws, Reaches
<1>2. CASE UNCHANGED remote
  BY <1>2 DEF remote
<1>3. CASE Accepts(server, call) /\ Becomes(After(server, call))
  <2>1. server' = After(server, call) /\ server \in Servers
    BY <1>3 DEF Becomes, QuietBase, AsleepInv, TypeOK
  <2>2. call = "StartMeasurement" => Listeners = {}
    BY <1>3 DEF Accepts, QuietBase, SessionInv, Listeners
  <2>3. /\ server'.stateSubs = server.stateSubs
        /\ \/ server'.state = server.state
           \/ server'.state \in {"Active", "Acquiring"}
           \/ call = "StartMeasurement"
    BY <2>1, CallEffect DEF Calls
  <2>4. notes' = notes \union Announced(server, server', Listeners)
    BY <1>3, <2>1 DEF Becomes
  <2>5. \A n \in Announced(server, server', Listeners) : ~Stopping(n[2])
    BY <2>2, <2>3 DEF Announced, Stopping
  <2> QED
    BY <2>3, <2>4, <2>5
<1> QED
  BY <1>1, <1>2, <1>3

\* A step of the task to where no notification matters, but one that comes late.
LEMMA QuietMove ==
    ASSUME QuietBase, UNCHANGED <<guidState, guidAcquired, callbacks, reply>>, reply = NoGuid,
           server'.stateSubs \subseteq server.stateSubs,
           \A n \in notes' : n \in notes \/ ~Stopping(n[2]),
           pc # "WaitStop" \/ server.state = "Acquiring" \/ stopEvent = "full",
           Left => Left' \/ callbacks = {},
           ServerInv',
           pc' = "AcquisitionAsync" => stopEvent' = "empty",
           pc' = "WaitStop" => stopEvent' = "empty"
    PROVE  QuietInv'
<1>1. ASSUME NEW n \in notes', Heard(n)'  PROVE n = <<guidState, "Measuring">> /\ Left'
  <2>1. n \in notes /\ Heard(n)
    BY <1>1 DEF Heard, Stopping
  <2>2. n[1] # NoGuid
    BY <2>1, GuidsAssumption DEF QuietBase, AsleepInv, TypeOK
  <2> QED
    BY <2>1, <2>2 DEF Heard, QuietBase, QuietInv, NotificationInv
<1>2. NotificationInv'
  BY <1>1, GuidsAssumption DEF QuietBase, QuietInv, NotificationInv, SessionInv, AsleepInv, TypeOK, Servers
<1> QED
  BY <1>2 DEF QuietInv

\* A subscription is announced to nobody, and is a fresh one.
LEMMA SubscribeEffect ==
    ASSUME TypeOK, NEW call, NEW next, Subscribing(call, next)
    PROVE  /\ server'.state = server.state /\ notes' = notes
           /\ server'.stateSubs \subseteq server.stateSubs \union FreshGuids
           /\ call # "SubscribeToState" => server'.stateSubs = server.stateSubs
           /\ \/ UNCHANGED reply /\ Catch
              \/ reply' \in FreshGuids /\ pc' = next
<1>1. \/ UNCHANGED remote
      \/ \E g \in FreshGuids : Becomes(Subscribed(server, call, g))
  BY DEF Subscribing, Succeeds, Throws, Reaches
<1>2. \A g \in FreshGuids :
          LET after == Subscribed(server, call, g)
          IN  /\ after.state = server.state
              /\ after.stateSubs \subseteq server.stateSubs \union FreshGuids
              /\ call # "SubscribeToState" => after.stateSubs = server.stateSubs
  BY DEF Subscribed, TypeOK, Servers
<1>3. \/ UNCHANGED reply /\ Catch
      \/ reply' \in FreshGuids /\ pc' = next
  BY DEF Subscribing
<1> QED
  BY <1>1, <1>2, <1>3 DEF Becomes, Announced, remote

(* QuietInv is inductive when the analyser does not fail and no            *)
(* notification comes twice.                                               *)
LEMMA QuietInduction ==
    ASSUME DeviceErrors = FALSE, Repeats = FALSE
    PROVE  QuietBase /\ [Next]_vars => QuietInv'
<1> SUFFICES ASSUME QuietBase, [Next]_vars  PROVE QuietInv'
  OBVIOUS
<1>0. server \in Servers /\ TypeOK
  BY DEF QuietBase, AsleepInv, TypeOK
<1> USE DEF SettingUp, Exposing, Finishing, Cleaning, Handing, Leftover
<1>1. CASE Operator \/ UNCHANGED vars
  BY <1>1, QuietAside
     DEF Operator, Start, Stop, WriteImageMode, local, events, frame, session, remote, vars, params,
         QuietBase, AsleepInv, LockInv
<1>2. ASSUME NEW n \in notes, StateChanged(n)
      PROVE  QuietInv'
  <2>1. notes' = notes \ {n} /\ UNCHANGED <<local, params, server>>
    BY <1>2 DEF StateChanged, driver
  <2>2. ServerInv'
    BY <2>1 DEF local, params, frame, session, QuietBase, QuietInv, ServerInv, Left, Continues, Over
  <2>3. CASE n[1] \in callbacks /\ Stopping(n[2])
    <3>1. \A m \in notes' : ~Heard(m)
      BY <2>1, <2>3 DEF QuietBase, QuietInv, NotificationInv, Heard
    <3>2. pc # "AcquisitionAsync" /\ ~(pc = "WaitStop" /\ server.state = "Acquiring")
      BY <2>3 DEF QuietBase, QuietInv, NotificationInv, Heard, Left
    <3> QED
      BY <2>1, <2>2, <3>1, <3>2 DEF local, session, QuietBase, QuietInv, NotificationInv, Heard
  <2>4. CASE ~(n[1] \in callbacks /\ Stopping(n[2]))
    BY <1>2, <2>1, <2>2, <2>4
       DEF StateChanged, local, session, QuietBase, QuietInv, NotificationInv, Heard, Left
  <2> QED
    BY <2>3, <2>4
<1>3. CASE CancelAcquisition
  <2>1. UNCHANGED <<local, params, events>>
    BY <1>3 DEF CancelAcquisition
  <2>2. \/ UNCHANGED remote
        \/ /\ server.state = "Acquiring"
           /\ server' = [server EXCEPT !.state = "Measuring", !.cut = 1]
           /\ notes' = notes \union ((server.stateSubs \intersect Listeners) \X {"Measuring"})
    BY <1>0, <1>3, CancelStep DEF remote
  <2>3. CASE UNCHANGED remote
    BY <2>1, <2>3, QuietAside DEF local, params, events, frame, session, remote, QuietBase
  <2>4. CASE server.state = "Acquiring" /\ server' = [server EXCEPT !.state = "Measuring", !.cut = 1]
    BY <1>0, <2>1, <2>2, <2>4, EndHeardOnce DEF local, params, events, frame, session, Servers, remote
  <2> QED
    BY <2>2, <2>3, <2>4
<1>4. CASE Server
  <2>1. ServerCompletes
    BY <1>4 DEF Server, ServerFails, ServerRecovers, QuietBase, SessionInv
  <2>2. /\ server.state = "Acquiring" /\ server'.state = "Measuring"
        /\ server'.stateSubs = server.stateSubs
        /\ notes' = notes \union ((server.stateSubs \intersect Listeners) \X {"Measuring"})
    BY <1>0, <2>1 DEF ServerCompletes, Becomes, Completed, Announced, Servers
  <2> QED
    BY <2>1, <2>2, EndHeardOnce DEF ServerCompletes, driver, local, params, frame, session
<1>5. CASE GoToSleep \/ WakeUp \/ Begin \/ NextFrame
  BY <1>5 DEF GoToSleep, WakeUp, Begin, NextFrame, SnapshotParameters, session, remote, events, params,
              QuietBase, QuietInv, ServerInv, NotificationInv, Heard, Left, PathInv, StatusInv
<1>6. CASE GetState
  <2>1. /\ UNCHANGED <<server, notes, session>> /\ pc = "GetState"
        /\ \/ pc' = "CleanState" /\ status' = "error"
           \/ pc' = "DefineSpectrum" /\ server.state = "Active"
    BY <1>6 DEF GetState, Catch, Succeeds, Throws, Reaches, Becomes, Announced, remote
  <2>2. \A n \in notes : n[1] # NoGuid
    BY <1>0, GuidsAssumption DEF TypeOK
  <2> QED
    BY <2>1, <2>2 DEF session, QuietBase, QuietInv, ServerInv, NotificationInv, Heard, Left, SessionInv
<1>7. CASE DefineSpectrum
  BY <1>0, <1>7, DefineStep
     DEF DefineSpectrum, Catch, events, QuietBase, QuietInv, ServerInv, NotificationInv, Heard, Left, SessionInv
<1>8. CASE StartMeasurement \/ SetupSpectrum
  <2>1. PICK call \in {"StartMeasurement", "SetupSpectrum"} :
          /\ pc = call
          /\ Succeeds(call, After(server, call)) \/ Throws(call, After(server, call))
          /\ \/ Catch
             \/ /\ server' = After(server, call) /\ UNCHANGED status
                /\ pc' = IF call = "StartMeasurement" THEN "SetupSpectrum" ELSE "SubscribeState"
          /\ UNCHANGED session
    BY <1>8 DEF StartMeasurement, SetupSpectrum, Calling, Succeeds, Reaches, Becomes
  <2>2. /\ server'.stateSubs = server.stateSubs
        /\ \A n \in notes' : n \in notes \/ ~Stopping(n[2])
    BY <2>1, CallsUnheard DEF Calls
  <2>3. \/ server'.state = "Measuring"
        \/ server'.state = server.state /\ pc' = "CleanState"
    BY <1>0, <1>8, <2>1, CallEffect, CallState
       DEF Calls, QuietBase, QuietInv, ServerInv, Catch
  <2>4. ServerInv'
    BY <2>1, <2>3 DEF Catch, session, QuietBase, QuietInv, ServerInv, Left, SessionInv
  <2>5. reply = NoGuid
    BY <2>1 DEF QuietBase, SessionInv
  <2> QED
    BY <2>1, <2>2, <2>4, <2>5, QuietMove DEF session, Left, Catch
<1>9. CASE SubscribeState \/ SubscribeUpdate
  <2>1. server.state = "Measuring"
    BY <1>9 DEF SubscribeState, SubscribeUpdate, QuietBase, QuietInv, ServerInv
  <2>2. /\ UNCHANGED <<guidState, guidAcquired, callbacks, spectrumId, server.state, notes>>
        /\ server'.stateSubs \subseteq server.stateSubs \union FreshGuids
        /\ pc = "SubscribeUpdate" => server'.stateSubs = server.stateSubs
        /\ \/ UNCHANGED reply /\ Catch
           \/ /\ reply' \in FreshGuids
              /\ pc = "SubscribeState" /\ pc' = "RegisterState"
           \/ /\ reply' \in FreshGuids
              /\ pc = "SubscribeUpdate" /\ pc' = "RegisterUpdate"
    <3>1. CASE SubscribeState
      <4>1. Subscribing("SubscribeToState", "RegisterState") /\ pc = "SubscribeState"
            /\ UNCHANGED <<guidState, guidAcquired, callbacks, spectrumId>>
        BY <3>1 DEF SubscribeState, Subscribing
      <4> QED
        BY <1>0, <4>1, SubscribeEffect
    <3>2. CASE SubscribeUpdate
      <4>1. Subscribing("SubscribeToObservable", "RegisterUpdate") /\ pc = "SubscribeUpdate"
            /\ UNCHANGED <<guidState, guidAcquired, callbacks, spectrumId>>
        BY <3>2 DEF SubscribeUpdate, Subscribing
      <4> QED
        BY <1>0, <4>1, SubscribeEffect
    <3> QED
      BY <1>9, <3>1, <3>2
  <2>3. /\ guidAcquired \notin server'.stateSubs
        /\ pc' = "RegisterUpdate" => reply' \notin server'.stateSubs
    <3>1. guidAcquired \notin FreshGuids
      BY GuidsAssumption DEF FreshGuids, UnusedGuids, QuietBase, SessionInv
    <3> QED
      BY <2>2, <3>1 DEF QuietBase, QuietInv, NotificationInv, FreshGuids, UnusedGuids, Catch
  <2>4. ServerInv'
    BY <2>1, <2>2 DEF Catch, ServerInv
  <2>5. \A n \in notes' : ~Heard(n)'
    BY <1>9, <2>2 DEF SubscribeState, SubscribeUpdate, QuietBase, QuietInv, NotificationInv, Heard,
                      FreshGuids, Stopping, Left
  <2> QED
    BY <2>2, <2>3, <2>4, <2>5 DEF QuietInv, NotificationInv, Catch
<1>10. CASE RegisterState \/ RegisterUpdate
  <2>1. \A n \in notes : n[1] # NoGuid /\ ~Heard(n)
    BY <1>10, GuidsAssumption
       DEF RegisterState, RegisterUpdate, QuietBase, QuietInv, NotificationInv, AsleepInv, TypeOK, Left
  <2>2. \A n \in notes' : ~Heard(n)'
    BY <1>10, <2>1 DEF RegisterState, RegisterUpdate, Registering, remote, Heard, Stopping
  <2>3. UNCHANGED remote
    BY <1>10 DEF RegisterState, RegisterUpdate, Registering
  <2> QED
    BY <1>10, <2>2, <2>3
       DEF RegisterState, RegisterUpdate, Registering, remote, QuietBase, QuietInv, ServerInv,
           NotificationInv
<1>11. CASE ClearSpectrum \/ AcquisitionAsync
  <2>1. PICK call \in {"ClearSpectrum", "AcquisitionAsync"} :
          /\ pc = call
          /\ \/ UNCHANGED remote
             \/ Succeeds(call, After(server, call)) \/ Throws(call, After(server, call))
          /\ \/ Catch
             \/ /\ server' = After(server, call) /\ UNCHANGED status
                /\ spectrumId = "held"
                /\ pc' = IF call = "ClearSpectrum" THEN "NextExposure" ELSE "WaitStop"
          /\ UNCHANGED <<session, stopEvent>>
    BY <1>11 DEF ClearSpectrum, AcquisitionAsync, CallingSpectrum, Calling, Succeeds, Reaches, Becomes, events
  <2>2. /\ server'.stateSubs = server.stateSubs
        /\ \A n \in notes' : n \in notes \/ ~Stopping(n[2])
    BY <2>1, CallsUnheard DEF Calls, remote
  <2>3. \/ server'.state = server.state
        \/ server'.state = "Acquiring" /\ call = "AcquisitionAsync"
    BY <1>0, <2>1, CallState DEF Calls, remote
  <2>4. ServerInv'
    BY <2>1, <2>3 DEF Catch, session, QuietBase, QuietInv, ServerInv, Left
  <2>5. reply = NoGuid
    BY <2>1 DEF QuietBase, SessionInv
  <2> QED
    BY <2>1, <2>2, <2>4, <2>5, QuietMove DEF session, Left, Catch, QuietBase, QuietInv, NotificationInv
<1>12. CASE NextExposure \/ WaitStop \/ Count
  BY <1>12 DEF NextExposure, WaitStop, Count, session, remote, QuietBase, QuietInv, ServerInv,
               NotificationInv, Heard, Left
<1>13. CASE GetMeasuredSpectrum
  <2>1. /\ UNCHANGED <<server, notes, session>>
        /\ pc = "GetMeasuredSpectrum" /\ pc' \in {"UnsubscribeState", "Report", "CleanState"}
    BY <1>13 DEF GetMeasuredSpectrum, Catch, Succeeds, Throws, Reaches, Becomes, Announced, remote
  <2> QED
    BY <2>1 DEF session, QuietBase, QuietInv, ServerInv, NotificationInv, Heard, Left
<1>14. CASE UnsubscribeState \/ UnsubscribeUpdate \/ CleanState \/ CleanUpdate
  <2>1. /\ UNCHANGED <<server.state, notes, reply, spectrumId>>
        /\ server'.stateSubs \subseteq server.stateSubs
    BY <1>0, <1>14, UnsubscribedEffect
       DEF UnsubscribeState, UnsubscribeUpdate, CleanState, CleanUpdate, Unsubscribing, Succeeds, Throws,
           Reaches, Becomes, Announced, remote
  <2>2. \/ /\ UNCHANGED <<guidState, guidAcquired, callbacks>>
           /\ pc' = "CleanState" /\ status' = "error"
        \/ /\ UNCHANGED <<guidState, guidAcquired, callbacks>>
           /\ pc \in {"CleanState", "CleanUpdate"} /\ pc' = "Report" /\ status' = "error"
        \/ /\ guidState' = NoGuid /\ callbacks' = callbacks \ {guidState}
           /\ UNCHANGED guidAcquired
           /\ pc \in {"UnsubscribeState", "CleanState"} /\ pc' \in {"UnsubscribeUpdate", "CleanUpdate"}
        \/ /\ guidAcquired' = NoGuid /\ callbacks' = callbacks \ {guidAcquired}
           /\ UNCHANGED guidState
           /\ pc = "UnsubscribeUpdate" /\ pc' = "FinishSpectrum"
        \/ /\ guidAcquired' = NoGuid /\ callbacks' = callbacks \ {guidAcquired}
           /\ UNCHANGED guidState
           /\ pc = "CleanUpdate" /\ pc' = "CleanQuery"
    BY <1>14 DEF UnsubscribeState, UnsubscribeUpdate, CleanState, CleanUpdate, Unsubscribing, Forgotten
  <2>3. pc \in {"UnsubscribeState", "UnsubscribeUpdate", "CleanState", "CleanUpdate"}
    BY <1>14 DEF UnsubscribeState, UnsubscribeUpdate, CleanState, CleanUpdate
  <2>4. ServerInv'
    BY <1>14, <2>1, <2>2, <2>3
       DEF UnsubscribeState, UnsubscribeUpdate, CleanState, CleanUpdate, Unsubscribing,
           QuietBase, QuietInv, ServerInv, Left, PathInv, StatusInv, Continues
  <2>5. NotificationInv'
    BY <2>1, <2>2, <2>3, GuidsAssumption
       DEF QuietBase, QuietInv, NotificationInv, Heard, Left, PathInv, StatusInv, SessionInv, AsleepInv, TypeOK,
           Servers, Stopping
  <2> QED
    BY <2>4, <2>5 DEF QuietInv
<1>15. CASE FinishSpectrum \/ CleanQuery \/ CleanSpectrum
  <2>0. \/ UNCHANGED remote
        \/ Becomes(server)
        \/ Becomes(After(server, "FinishSpectrum"))
    BY <1>15 DEF FinishSpectrum, CleanQuery, CleanSpectrum, Succeeds, Throws, Reaches
  <2>1. UNCHANGED <<server.state, server.stateSubs, notes>>
    <3>1. LET after == After(server, "FinishSpectrum")
          IN  after.state = server.state /\ after.stateSubs = server.stateSubs
      BY <1>0, CallEffect DEF Calls
    <3> QED  BY <2>0, <3>1 DEF Becomes, Announced, remote
  <2>2. UNCHANGED <<guidState, guidAcquired, callbacks, reply>>
    BY <1>15 DEF FinishSpectrum, CleanQuery, CleanSpectrum, session
  <2>3. /\ pc = "FinishSpectrum" => pc' \in {"FinishMeasurement", "CleanState"}
        /\ pc # "FinishSpectrum" => /\ pc' \in {"CleanSpectrum", "CleanMeasurement", "Report"}
                                    /\ UNCHANGED status
        /\ pc \in {"FinishSpectrum", "CleanQuery", "CleanSpectrum"}
    BY <1>15 DEF FinishSpectrum, CleanQuery, CleanSpectrum, Catch
  <2> QED
    BY <2>1, <2>2, <2>3 DEF QuietBase, QuietInv, ServerInv, NotificationInv, Heard, Left, PathInv, StatusInv, Continues
<1>16. CASE FinishMeasurement \/ CleanMeasurement
  <2>1. /\ UNCHANGED <<session, frame>>
        /\ Succeeds("FinishMeasurement", After(server, "FinishMeasurement"))
           \/ Throws("FinishMeasurement", After(server, "FinishMeasurement"))
        /\ \/ pc' = "Report" /\ UNCHANGED status
           \/ pc' = "CleanState"
        /\ pc \in {"FinishMeasurement", "CleanMeasurement"}
    BY <1>16 DEF FinishMeasurement, CleanMeasurement, Calling, Catch
  <2>2. /\ server'.stateSubs \subseteq server.stateSubs
        /\ \A n \in notes' : n \in notes \/ ~Stopping(n[2])
    BY <2>1, CallsUnheard DEF Calls
  <2>3. server'.state \in {server.state, "Active"}
    BY <1>0, <2>1, CallState DEF Calls
  <2>4. callbacks = {} /\ guidState = NoGuid /\ guidAcquired = NoGuid /\ reply = NoGuid
    BY <1>0, <2>1 DEF QuietBase, SessionInv, TypeOK
  <2>5. ServerInv'
    BY <2>1, <2>3, <2>4
       DEF session, frame, QuietBase, QuietInv, ServerInv, PathInv, StatusInv, Continues, Over
  <2> QED
    BY <2>1, <2>2, <2>4, <2>5, QuietMove DEF session
<1>17. CASE Report \/ EndFrame
  BY <1>17 DEF Report, ReportError, ReportAborted, ReportImage, Published, EndFrame, session, remote,
               events, frame, QuietBase, QuietInv, ServerInv, NotificationInv, Heard, Left, PathInv,
               StatusInv, SpectrumInv, Continues, Over, Finished
<1> QED
  BY <1>1, <1>2, <1>3, <1>4, <1>5, <1>6, <1>7, <1>8, <1>9, <1>10, <1>11, <1>12, <1>13, <1>14, <1>15,
     <1>16, <1>17
     DEF Next, Task, Setup, Expose, Finish, Cleanup

LEMMA QuietInvariant ==
    ASSUME DeviceErrors = FALSE, Repeats = FALSE
    PROVE  Spec => []QuietInv
<1>1. Init => QuietInv
  BY GuidsAssumption
     DEF Init, QuietInv, ServerInv, NotificationInv, SettingUp, Exposing, Finishing, Cleaning, Handing,
         IdleServer
<1>2. AsleepInv /\ PathInv /\ SessionInv /\ QuietInv /\ [Next]_vars => QuietInv'
  BY QuietInduction DEF QuietBase
<1> QED
  BY <1>1, <1>2, AsleepInvariant, PathInvariant, SessionInvariant, PTL DEF Spec

(* The task is never woken from an exposure that is still running,         *)
(* whatever the operator does and whatever calls fail.                     *)
THEOREM NeverWokenEarly ==
    ASSUME DeviceErrors = FALSE, Repeats = FALSE
    PROVE  Spec => []WokenWhenDone
<1>1. QuietInv => WokenWhenDone
  BY DEF QuietInv, WokenWhenDone, ServerInv, Exposing
<1> QED
  BY <1>1, QuietInvariant, PTL

-----------------------------------------------------------------------------
(* All three: the exposures of a patient operator's acquisition.           *)
Benign ==
    /\ Patient = TRUE
    /\ Repeats = FALSE
    /\ DeviceErrors = FALSE

\* The exposures of the server agree with the counter of the task.
ExposureInv ==
    /\ pc \in SettingUp => numExposuresCounter = 0 /\ ADNumExposuresCounter = 0
    /\ pc \in Exposing => /\ numExposuresCounter <= NumExposures
                          /\ ADNumExposuresCounter <= server.exposures
    /\ pc = "NextExposure" /\ acquire = 1 =>
           server.exposures = numExposuresCounter /\ server.cut = 0
    /\ pc = "AcquisitionAsync" /\ ADAcquire = 1 =>
           server.exposures + 1 = numExposuresCounter /\ server.cut = 0
    /\ pc = "WaitStop" /\ server.state = "Acquiring" /\ ADAcquire = 1 =>
           server.exposures + 1 = numExposuresCounter /\ server.cut = 0
    /\ pc = "WaitStop" /\ server.state = "Measuring" /\ ADAcquire = 1 =>
           server.exposures = numExposuresCounter /\ server.cut = 0
    /\ pc = "Count" /\ ADAcquire = 1 =>
           server.exposures = numExposuresCounter /\ server.cut = 0
    /\ pc = "GetMeasuredSpectrum" /\ acquire = 1 =>
           server.exposures = NumExposures /\ server.cut = 0
    /\ pc \in Finishing \ {"GetMeasuredSpectrum"} /\ acquire = 1 =>
           spectrum \in [exposures : {NumExposures}, cut : {0}, data : Fetched]
    /\ pc \in Handing /\ status = "success" /\ acquire = 1 =>
           spectrum \in [exposures : {NumExposures}, cut : {0}, data : Fetched]

IInv == /\ AsleepInv
        /\ PathInv
        /\ FrameInv
        /\ SessionInv
        /\ ServerInv
        /\ NotificationInv
        /\ ExposureInv

(* ExposureInv is inductive when the environment is Benign. *)
LEMMA ExposureInduction ==
    ASSUME Benign
    PROVE  IInv /\ [Next]_vars => ExposureInv'
<1> SUFFICES ASSUME IInv, [Next]_vars  PROVE ExposureInv'
  OBVIOUS
<1> USE NumExposuresAssumption
    DEF Benign, IInv, AsleepInv, TypeOK, Servers, LockInv, PathInv, StatusInv, FrameInv, ServerInv,
        ExposureInv, SettingUp, Exposing, Finishing, Cleaning, Handing, InFrame
<1>1. CASE GoToSleep
  BY <1>1 DEF GoToSleep
<1>2. CASE NextFrame
  BY <1>2 DEF NextFrame, SnapshotParameters
<1>3. CASE WakeUp
  BY <1>3 DEF WakeUp
<1>4. CASE Begin
  BY <1>4 DEF Begin, SnapshotParameters
<1>5. CASE GetState
  BY <1>5 DEF GetState, Catch, params, frame
<1>6. CASE DefineSpectrum
  BY <1>6 DEF DefineSpectrum, Catch, params, frame
<1>7. CASE StartMeasurement
  BY <1>7 DEF StartMeasurement, Calling, Catch, params, frame
<1>8. CASE SetupSpectrum
  BY <1>8 DEF SetupSpectrum, Calling, Catch, params, frame
<1>9. CASE SubscribeState
  BY <1>9 DEF SubscribeState, Subscribing, Catch, Subscribed, params, frame
<1>10. CASE RegisterState
  BY <1>10 DEF RegisterState, Registering, params, frame
<1>11. CASE SubscribeUpdate
  BY <1>11 DEF SubscribeUpdate, Subscribing, Catch, Subscribed, params,
       frame
<1>12. CASE RegisterUpdate
  BY <1>12 DEF RegisterUpdate, Registering, params, frame
<1>13. CASE ClearSpectrum
  <2>1. \/ pc' = "NextExposure" /\ server'.exposures = 0 /\ server'.cut = 0
        \/ pc' = "CleanState"
    BY <1>13, ClearStep DEF ClearSpectrum, CallingSpectrum, Calling, Catch
  <2>2. numExposuresCounter' = 0 /\ ADNumExposuresCounter' = 0
    BY <1>13 DEF ClearSpectrum, CallingSpectrum, Calling, params, frame
  <2>3. QED
    BY <2>1, <2>2
<1>14. CASE NextExposure
  BY <1>14 DEF NextExposure, params, remote
<1>15. CASE AcquisitionAsync
  <2>1. \/ pc' = "WaitStop" /\ server' = [server EXCEPT !.state = "Acquiring"]
        \/ pc' = "CleanState"
    BY <1>15 DEF AcquisitionAsync, CallingSpectrum, Calling, Catch,
         Succeeds, Reaches, Becomes, After
  <2>2. UNCHANGED <<params, frame>>
    BY <1>15 DEF AcquisitionAsync, CallingSpectrum, Calling
  <2>3. QED
    BY <1>15, <2>1, <2>2 DEF AcquisitionAsync, params, frame
<1>16. CASE WaitStop
  BY <1>16 DEF NotificationInv, WaitStop, params, frame, remote
<1>17. CASE Count
  <2>1. CASE ADAcquire = 1
    BY <1>17, <2>1 DEF Count, remote
  <2>2. CASE ADAcquire = 0
    BY <1>17, <2>2 DEF Count
  <2>3. QED
    BY <2>1, <2>2
<1>18. CASE GetMeasuredSpectrum
  BY <1>18 DEF GetMeasuredSpectrum, Catch, Finished, Counted
<1>19. CASE UnsubscribeState
  BY <1>19 DEF UnsubscribeState, Unsubscribing, Unsubscribed, frame
<1>20. CASE UnsubscribeUpdate
  BY <1>20 DEF UnsubscribeUpdate, Unsubscribing, Unsubscribed, frame
<1>21. CASE FinishSpectrum
  BY <1>21 DEF FinishSpectrum, Catch, frame
<1>22. CASE FinishMeasurement
  <2>1. pc' \in {"Report", "CleanState"} /\ (pc' = "Report" => UNCHANGED status)
    BY <1>22 DEF FinishMeasurement, Calling, Catch
  <2>2. UNCHANGED <<params, frame>>
    BY <1>22 DEF FinishMeasurement, Calling
  <2>3. QED
    BY <1>22, <2>1, <2>2 DEF FinishMeasurement, frame
<1>23. CASE CleanState
  BY <1>23 DEF CleanState, Unsubscribing, Unsubscribed
<1>24. CASE CleanUpdate
  BY <1>24 DEF CleanUpdate, Unsubscribing, Unsubscribed
<1>25. CASE CleanQuery
  BY <1>25 DEF CleanQuery
<1>26. CASE CleanSpectrum
  BY <1>26 DEF CleanSpectrum
<1>27. CASE CleanMeasurement
  BY <1>27 DEF CleanMeasurement
<1>28. CASE ReportError
  BY <1>28 DEF ReportError
<1>29. CASE ReportAborted
  BY <1>29 DEF ReportAborted
<1>30. CASE ReportImage
  BY <1>30 DEF ReportImage, frame
<1>31. CASE Published
  BY <1>31 DEF Published, frame
<1>32. CASE EndFrame
  BY <1>32 DEF EndFrame, Finished
<1>33. CASE Start
  BY <1>33 DEF Start, local
<1>34. CASE Stop
  BY <1>34 DEF Stop, local, frame, remote
<1>35. CASE CancelAcquisition
  <2>1. \/ UNCHANGED server
        \/ /\ server.state = "Acquiring"
           /\ server'.state = "Measuring" /\ server'.exposures = server.exposures
    BY <1>35, CancelStep DEF remote
  <2>2. ADAcquire = 0 /\ UNCHANGED <<params, pc, status, frame>>
    BY <1>35 DEF CancelAcquisition, local
  <2> QED
    BY <2>1, <2>2 DEF params, frame
<1>36. CASE WriteImageMode
  BY <1>36 DEF WriteImageMode, local, frame, remote
<1>37. CASE ServerCompletes
  BY <1>37 DEF ServerCompletes, driver, local, Becomes, Completed, params,
       frame
<1>38. CASE ServerFails
  BY <1>38 DEF ServerFails, driver, local
<1>39. CASE ServerRecovers
  BY <1>39 DEF SessionInv, ServerRecovers, driver, local, Recovered
<1>40. ASSUME NEW m \in notes, StateChanged(m)
      PROVE  ExposureInv'
  BY <1>40 DEF StateChanged, driver, local, params, frame
<1>41. CASE UNCHANGED vars
  BY <1>41 DEF vars, params, frame, remote
<1>42. QED
  BY <1>1, <1>2, <1>3, <1>4, <1>5, <1>6, <1>7, <1>8, <1>9, <1>10, <1>11,
       <1>12, <1>13, <1>14, <1>15, <1>16, <1>17, <1>18, <1>19, <1>20, <1>21,
       <1>22, <1>23, <1>24, <1>25, <1>26, <1>27, <1>28, <1>29, <1>30, <1>31,
       <1>32, <1>33, <1>34, <1>35, <1>36, <1>37, <1>38, <1>39, <1>40, <1>41
       DEF Next, Task, Operator, Server, Setup, Expose, Finish, Cleanup,
       Report

\* The invariant of an acquisition holds throughout.
LEMMA ImageInvariant ==
    ASSUME Benign
    PROVE  Spec => []IInv
<1>1. Init => ExposureInv
  BY DEF Init, ExposureInv, SettingUp, Exposing, Finishing, Handing, IdleServer
<1>2. /\ AsleepInv /\ PathInv /\ FrameInv /\ SessionInv /\ QuietInv /\ ExposureInv
      /\ [Next]_vars
      => ExposureInv'
  BY ExposureInduction DEF IInv, QuietInv
<1>3. Spec => []FrameInv
  BY FrameInvariant DEF Benign
<1>4. Spec => []SessionInv /\ []QuietInv
  BY SessionInvariant, QuietInvariant DEF Benign
<1>5. /\ AsleepInv /\ PathInv /\ FrameInv /\ SessionInv /\ QuietInv /\ ExposureInv
      => IInv
  BY DEF IInv, QuietInv
<1> QED
  BY <1>1, <1>2, <1>3, <1>4, <1>5, AsleepInvariant, PathInvariant, PTL DEF Spec

(* No incomplete image is published: the spectrum handed to the users was  *)
(* accumulated from NumExposures exposures that the server completed, and  *)
(* from nothing else, whatever calls fail; it holds their counts unless    *)
(* the GET of the data is among what may fail, and then counts or zeros.   *)
THEOREM PublishedImagesComplete ==
    ASSUME Benign
    PROVE  Spec => []ImageComplete
<1>1. IInv => ImageComplete
  BY DEF IInv, ImageComplete, PathInv, StatusInv, ExposureInv, Handing
<1> QED
  BY <1>1, ImageInvariant, PTL

(* The exposure counter never runs ahead of the server. *)
THEOREM CountedExposuresAreReal ==
    ASSUME Benign
    PROVE  Spec => []CountedExposuresCompleted
<1>1. IInv => CountedExposuresCompleted
  BY DEF IInv, CountedExposuresCompleted, ExposureInv, Exposing
<1> QED
  BY <1>1, ImageInvariant, PTL

-----------------------------------------------------------------------------
(* When no call fails, what was set up is given back: the server has the   *)
(* subscriptions and the spectrum the task holds, and nothing else, and is *)
(* in the measurement until the task has left it.                          *)
SubscriptionInv ==
    /\ server.stateSubs = {guidState, IF pc = "RegisterState" THEN reply ELSE NoGuid} \ {NoGuid}
    /\ server.updateSubs = {guidAcquired, IF pc = "RegisterUpdate" THEN reply ELSE NoGuid}
                           \ {NoGuid}

MeasurementInv ==
    /\ spectrumId = "held" <=> server.spectrum = "defined"
    /\ server.state = "Acquiring" => pc = "WaitStop"
    /\ server.state = "Active" => spectrumId = "none" \/ pc = "StartMeasurement"
    /\ server.state # "Active" =>
           spectrumId = "held" \/ pc \in {"FinishMeasurement", "CleanMeasurement"}
    /\ pc \in {"StartMeasurement", "CleanSpectrum"} => spectrumId = "held"
    /\ pc \in {"FinishMeasurement", "CleanMeasurement"} => spectrumId = "none"
    /\ pc \in {"CleanSpectrum", "CleanMeasurement"} => server.state = "Measuring"

\* A frame that was the last one has left the measurement before it is reported.
LeftInv ==
    /\ pc = "Report" /\ (status = "error" \/ acquire = 0 \/ Over) => server.state = "Active"
    /\ pc \in {"Publish", "EndFrame"} /\ Over => server.state = "Active"
    /\ pc = "Top" /\ ADAcquire = 0 /\ (ADStatus \in {"Aborted", "Error"} \/ Over)
           => server.state = "Active"
    /\ pc = "Wait" /\ (ADStatus \in {"Aborted", "Error"} \/ Over) => server.state = "Active"

ReleaseInv == SubscriptionInv /\ MeasurementInv /\ LeftInv

\* A call that the server accepts is executed, and returns.
LEMMA NothingThrown ==
    ASSUME FaultyCalls = {}, NEW call, NEW after, Throws(call, after)
    PROVE  ~Accepts(server, call) /\ UNCHANGED remote
BY DEF Throws

\* What the operator does, and the callback, leave it.
LEMMA ReleaseAside ==
    ASSUME ReleaseInv, pc = "Top" => UNCHANGED ADAcquire,
           UNCHANGED <<pc, ADStatus, guidState, guidAcquired, reply, spectrumId, server, status, acquire,
                       imageMode, numImagesCounter>>
    PROVE  ReleaseInv'
BY DEF ReleaseInv, SubscriptionInv, MeasurementInv, LeftInv, Over

\* Every step of the acquisition keeps it when no call fails.
LEMMA ReleaseInduction ==
    ASSUME DeviceErrors = FALSE, Repeats = FALSE, FaultyCalls = {}
    PROVE  QuietBase /\ ReleaseInv /\ [Next]_vars => ReleaseInv'
<1> SUFFICES ASSUME QuietBase, ReleaseInv, [Next]_vars, QuietInv'  PROVE ReleaseInv'
  BY QuietInduction
<1>0. /\ server \in Servers /\ pc \in PcLabels
      /\ StatusInv /\ SpectrumInv /\ SessionInv /\ ServerInv /\ ServerInv'
  BY DEF QuietBase, AsleepInv, TypeOK, PathInv, QuietInv
<1>1. CASE Start \/ Stop \/ WriteImageMode \/ (\E n \in notes : StateChanged(n)) \/ UNCHANGED vars
  <2>1. lock = "free" => pc # "Top"
    BY DEF QuietBase, AsleepInv, LockInv
  <2> QED
    BY <1>1, <2>1, ReleaseAside
       DEF Start, Stop, WriteImageMode, StateChanged, driver, local, session, frame, params, remote, vars
<1>2. CASE WakeUp \/ Begin \/ NextFrame \/ NextExposure \/ WaitStop \/ Count
  BY <1>0, <1>2
     DEF WakeUp, Begin, NextFrame, SnapshotParameters, NextExposure, WaitStop, Count, session, remote,
         params, frame, ReleaseInv, SubscriptionInv, MeasurementInv, LeftInv, ServerInv, Exposing,
         SettingUp
<1>3. CASE GoToSleep
  BY <1>3 DEF GoToSleep, session, remote, params, ReleaseInv, SubscriptionInv, MeasurementInv,
              LeftInv, Over
<1>4. CASE RegisterState \/ RegisterUpdate
  BY <1>0, <1>4
     DEF RegisterState, RegisterUpdate, Registering, remote, SessionInv, ReleaseInv, SubscriptionInv,
         MeasurementInv, LeftInv
<1>5. CASE ReportError \/ ReportAborted \/ ReportImage \/ Published
  BY <1>0, <1>5
     DEF ReportError, ReportAborted, ReportImage, Published, session, remote, frame, ReleaseInv,
         SubscriptionInv, MeasurementInv, LeftInv, Over, StatusInv, Handing
<1>6. CASE EndFrame
  BY <1>0, <1>6
     DEF EndFrame, session, remote, frame, ReleaseInv, SubscriptionInv, MeasurementInv, LeftInv, Over,
         Finished, QuietBase, AsleepInv, TypeOK
<1>7. CASE CancelAcquisition
  <2>1. /\ UNCHANGED <<pc, ADStatus, ADAcquire, status, frame, session>>
        /\ \/ UNCHANGED server
           \/ server' = After(server, "CancelAcquisition")
    BY <1>7 DEF CancelAcquisition, Succeeds, Throws, Reaches, Becomes, local, params, remote
  <2>2. /\ server'.state = IF server'.state = server.state THEN server.state ELSE "Measuring"
        /\ server'.state # server.state => server.state = "Acquiring"
        /\ UNCHANGED <<server.spectrum, server.stateSubs, server.updateSubs>>
    BY <1>0, <2>1, CallEffect DEF Calls
  <2> QED
    BY <2>1, <2>2 DEF frame, session, ReleaseInv, SubscriptionInv, MeasurementInv, LeftInv, Over
<1>8. CASE Server
  <2>1. CASE ServerCompletes
    <3>1. UNCHANGED <<pc, ADStatus, ADAcquire, status, frame, session>> /\ server.state = "Acquiring"
      BY <2>1 DEF ServerCompletes, driver, local, params
    <3>2. server'.state = "Measuring" /\ UNCHANGED <<server.spectrum, server.stateSubs, server.updateSubs>>
      BY <1>0, <2>1 DEF ServerCompletes, Completed, Becomes, Servers
    <3> QED
      BY <3>1, <3>2 DEF frame, session, ReleaseInv, SubscriptionInv, MeasurementInv, LeftInv, Over
  <2> QED
    BY <1>0, <1>8, <2>1 DEF Server, ServerFails, ServerRecovers, SessionInv
<1>9. CASE GetState
  <2>1. UNCHANGED <<server, session, frame>> /\ pc = "GetState"
    BY <1>9, NothingThrown DEF GetState, Succeeds, Reaches, Becomes, remote
  <2>2. pc' \in {"DefineSpectrum", "CleanState"}
    BY <1>9 DEF GetState, Catch
  <2> QED
    BY <2>1, <2>2 DEF session, ReleaseInv, SubscriptionInv, MeasurementInv, LeftInv
<1>10. CASE DefineSpectrum
  <2>1. Accepts(server, "DefineSpectrum")
    BY DEF Accepts
  <2>2. /\ pc = "DefineSpectrum" /\ pc' = "StartMeasurement" /\ spectrumId' = "held"
        /\ UNCHANGED <<guidState, guidAcquired, reply>> /\ server' = After(server, "DefineSpectrum")
    BY <1>10, <2>1, NothingThrown DEF DefineSpectrum, Succeeds, Reaches, Becomes
  <2>3. /\ server'.state = server.state /\ server'.spectrum = "defined"
        /\ UNCHANGED <<server.stateSubs, server.updateSubs>>
    BY <1>0, <2>2, CallEffect DEF Calls
  <2> QED
    BY <2>2, <2>3 DEF ReleaseInv, SubscriptionInv, MeasurementInv, LeftInv
<1>11. CASE StartMeasurement \/ SetupSpectrum \/ ClearSpectrum \/ AcquisitionAsync
  <2>1. CASE pc = "ClearSpectrum" /\ spectrumId # "held"
    <3>1. UNCHANGED <<server, session>> /\ pc' = "CleanState"
      BY <1>11, <2>1
         DEF StartMeasurement, SetupSpectrum, ClearSpectrum, AcquisitionAsync, CallingSpectrum, Catch, remote
    <3> QED
      BY <2>1, <3>1 DEF session, ReleaseInv, SubscriptionInv, MeasurementInv, LeftInv
  <2>2. CASE ~(pc = "ClearSpectrum" /\ spectrumId # "held")
    <3>1. PICK call \in {"StartMeasurement", "SetupSpectrum", "ClearSpectrum", "AcquisitionAsync"} :
            /\ pc = call /\ pc' \in {"SetupSpectrum", "SubscribeState", "NextExposure", "WaitStop",
                                     "CleanState"}
            /\ call = "AcquisitionAsync" /\ pc' # "WaitStop" => UNCHANGED server
            /\ UNCHANGED session
            /\ server' = server \/ server' = After(server, call)
            /\ call = "StartMeasurement" /\ Accepts(server, call) => server' = After(server, call)
      BY <1>11, NothingThrown
         DEF StartMeasurement, SetupSpectrum, ClearSpectrum, AcquisitionAsync, CallingSpectrum, Calling,
             Catch, Succeeds, Throws, Reaches, Becomes, remote
    <3>2. call = "StartMeasurement" => server'.state = "Measuring"
      BY <1>0, <3>1, CallEffect DEF Calls, Accepts, SessionInv
    <3>3. call # "StartMeasurement" => server.state = "Measuring"
      BY <1>0, <2>2, <3>1 DEF ServerInv, SettingUp, Exposing
    <3>4. /\ server'.state \in {"Measuring", "Acquiring"}
          /\ server'.state = "Acquiring" => pc' = "WaitStop"
          /\ UNCHANGED <<server.spectrum, server.stateSubs, server.updateSubs>>
      BY <1>0, <3>1, <3>2, <3>3, CallEffect DEF Calls
    <3>5. spectrumId = "held" /\ spectrumId' = "held"
      BY <3>1, <3>3 DEF session, ReleaseInv, MeasurementInv
    <3> QED
      BY <3>1, <3>4, <3>5 DEF session, ReleaseInv, SubscriptionInv, MeasurementInv, LeftInv
  <2> QED
    BY <2>1, <2>2
<1>13. CASE SubscribeState \/ SubscribeUpdate
  <2>1. server.state = "Measuring"
    BY <1>0, <1>13 DEF SubscribeState, SubscribeUpdate, ServerInv, SettingUp
  <2>2. UNCHANGED <<guidState, guidAcquired, spectrumId>>
    BY <1>13 DEF SubscribeState, SubscribeUpdate, Subscribing
  <2>3. CASE UNCHANGED <<server, reply>> /\ pc' = "CleanState"
    BY <1>13, <2>1, <2>2, <2>3
       DEF SubscribeState, SubscribeUpdate, ReleaseInv, SubscriptionInv, MeasurementInv, LeftInv
  <2>4. ASSUME NEW g \in Guids, NEW call \in {"SubscribeToState", "SubscribeToObservable"},
               server' = Subscribed(server, call, g), reply' = g,
               IF call = "SubscribeToState" THEN pc = "SubscribeState" /\ pc' = "RegisterState"
               ELSE pc = "SubscribeUpdate" /\ pc' = "RegisterUpdate"
        PROVE  ReleaseInv'
    <3>1. /\ UNCHANGED <<server.state, server.spectrum>>
          /\ call = "SubscribeToState" => /\ server'.stateSubs = server.stateSubs \union {g}
                                          /\ server'.updateSubs = server.updateSubs
          /\ call # "SubscribeToState" => /\ server'.stateSubs = server.stateSubs
                                          /\ server'.updateSubs = server.updateSubs \union {g}
      BY <1>0, <2>4 DEF Subscribed, Servers
    <3>2. pc = "SubscribeState" => guidState = NoGuid
      BY <1>0 DEF SessionInv
    <3>3. pc = "SubscribeUpdate" => guidAcquired = NoGuid
      BY <1>0 DEF SessionInv
    <3> QED
      BY <2>1, <2>2, <2>4, <3>1, <3>2, <3>3, GuidsAssumption
         DEF ReleaseInv, SubscriptionInv, MeasurementInv, LeftInv
  <2>5. ASSUME NEW call \in {"SubscribeToState", "SubscribeToObservable"}, NEW next,
               Subscribing(call, next)
        PROVE  \/ UNCHANGED <<server, reply>> /\ pc' = "CleanState"
               \/ \E g \in Guids : server' = Subscribed(server, call, g) /\ reply' = g /\ pc' = next
    <3>1. Accepts(server, call)
      BY <2>5 DEF Accepts
    <3> QED
      BY <2>5, <3>1, NothingThrown
         DEF Subscribing, Catch, Succeeds, Reaches, Becomes, FreshGuids, UnusedGuids, remote
  <2> QED
    BY <1>13, <2>3, <2>4, <2>5 DEF SubscribeState, SubscribeUpdate
<1>14. CASE GetMeasuredSpectrum
  <2>1. UNCHANGED <<server, session, acquire, imageMode>> /\ pc = "GetMeasuredSpectrum"
    BY <1>14, NothingThrown
       DEF GetMeasuredSpectrum, Succeeds, Throws, Reaches, Becomes, remote
  <2>2. server.state = "Measuring" /\ spectrumId = "held" /\ server.spectrum = "defined"
    BY <1>0, <2>1 DEF ServerInv, Finishing, ReleaseInv, MeasurementInv
  <2>3. \/ pc' = "UnsubscribeState"
        \/ /\ pc' = "Report" /\ ~Finished(acquire, imageMode, numImagesCounter')
           /\ status' = status
    BY <1>14, <2>2, NothingThrown DEF GetMeasuredSpectrum, Accepts
  <2>4. status = "success"
    BY <1>0, <2>1 DEF StatusInv, Finishing
  <2>5. acquire = 1 \/ acquire = 0
    BY DEF QuietBase, AsleepInv, TypeOK
  <2> QED
    BY <2>1, <2>2, <2>3, <2>4, <2>5
       DEF session, ReleaseInv, SubscriptionInv, MeasurementInv, LeftInv, Over, Finished
<1>15. CASE UnsubscribeState \/ UnsubscribeUpdate \/ CleanState \/ CleanUpdate
  <2>1. ASSUME NEW guid, NEW next, NEW handler, Unsubscribing(guid, next, handler)
        PROVE  /\ pc' = next /\ UNCHANGED status
               /\ \/ guid \notin callbacks /\ UNCHANGED <<server, callbacks>>
                  \/ guid \in callbacks /\ server' = Unsubscribed(server, guid)
    <3>1. Accepts(server, "Unsubscribe")
      BY DEF Accepts
    <3> QED
      BY <2>1, <3>1, NothingThrown DEF Unsubscribing, Succeeds, Reaches, Becomes, remote
  <2>2. /\ UNCHANGED <<spectrumId, reply>>
        /\ pc \in {"UnsubscribeState", "UnsubscribeUpdate", "CleanState", "CleanUpdate"}
        /\ pc' \in {"UnsubscribeUpdate", "FinishSpectrum", "CleanUpdate", "CleanQuery"}
    BY <1>15, <2>1 DEF UnsubscribeState, UnsubscribeUpdate, CleanState, CleanUpdate
  <2>3. PICK guid : /\ \/ guid \notin callbacks /\ UNCHANGED server
                       \/ guid \in callbacks /\ server' = Unsubscribed(server, guid)
                    /\ \/ guid = guidState /\ guidState' = NoGuid /\ guidAcquired' = guidAcquired
                       \/ guid = guidAcquired /\ guidAcquired' = NoGuid /\ guidState' = guidState
    BY <1>15, <2>1 DEF UnsubscribeState, UnsubscribeUpdate, CleanState, CleanUpdate, Forgotten
  <2>4. /\ UNCHANGED <<server.state, server.spectrum>>
        /\ \/ guid = NoGuid /\ UNCHANGED <<server.stateSubs, server.updateSubs>>
           \/ guid # NoGuid /\ server'.stateSubs = server.stateSubs \ {guid}
                            /\ server'.updateSubs = server.updateSubs \ {guid}
    <3>1. guid \notin callbacks => guid = NoGuid
      BY <1>0, <2>3 DEF SessionInv
    <3>2. NoGuid \notin callbacks
      BY <1>0 DEF SessionInv
    <3> QED
      BY <1>0, <2>3, <3>1, <3>2 DEF Unsubscribed, Servers
  <2>5. SubscriptionInv'
    BY <1>0, <2>2, <2>3, <2>4 DEF ReleaseInv, SubscriptionInv, SessionInv
  <2>6. MeasurementInv' /\ LeftInv'
    BY <2>2, <2>4 DEF ReleaseInv, MeasurementInv, LeftInv
  <2> QED
    BY <2>5, <2>6 DEF ReleaseInv
<1>16. CASE FinishSpectrum \/ CleanSpectrum
  <2>1. /\ pc = "FinishSpectrum" \/ pc = "CleanSpectrum"
        /\ server.state = "Measuring" /\ spectrumId = "held" /\ server.spectrum = "defined"
    BY <1>0, <1>16 DEF FinishSpectrum, CleanSpectrum, ServerInv, Finishing, ReleaseInv, MeasurementInv
  <2>2. Accepts(server, "FinishSpectrum")
    BY <2>1 DEF Accepts
  <2>3. /\ UNCHANGED <<guidState, guidAcquired, reply>>
        /\ server' = After(server, "FinishSpectrum") /\ spectrumId' = "none"
        /\ pc' \in {"FinishMeasurement", "CleanMeasurement"}
    BY <1>16, <2>1, <2>2, NothingThrown DEF FinishSpectrum, CleanSpectrum, Succeeds, Reaches, Becomes
  <2>4. /\ server'.state = server.state /\ server'.spectrum = "none"
        /\ UNCHANGED <<server.stateSubs, server.updateSubs>>
    BY <1>0, <2>3, CallEffect DEF Calls
  <2> QED
    BY <2>1, <2>3, <2>4 DEF ReleaseInv, SubscriptionInv, MeasurementInv, LeftInv
<1>17. CASE FinishMeasurement \/ CleanMeasurement
  <2>1. /\ pc \in {"FinishMeasurement", "CleanMeasurement"} /\ server.state = "Measuring"
        /\ UNCHANGED session
    BY <1>0, <1>17
       DEF FinishMeasurement, CleanMeasurement, Calling, ServerInv, Finishing, ReleaseInv, MeasurementInv
  <2>2. Accepts(server, "FinishMeasurement")
    BY <2>1 DEF Accepts
  <2>3. server' = After(server, "FinishMeasurement") /\ pc' = "Report"
    BY <1>17, <2>2, NothingThrown
       DEF FinishMeasurement, CleanMeasurement, Calling, Succeeds, Reaches, Becomes
  <2>4. /\ server'.state = "Active" /\ server'.spectrum = server.spectrum
        /\ UNCHANGED <<server.stateSubs, server.updateSubs>>
    BY <1>0, <2>3, CallEffect DEF Calls
  <2> QED
    BY <2>1, <2>3, <2>4 DEF session, ReleaseInv, SubscriptionInv, MeasurementInv, LeftInv
<1>18. CASE CleanQuery
  <2>1. pc = "CleanQuery" /\ UNCHANGED <<session, server>>
    BY <1>18, NothingThrown DEF CleanQuery, Succeeds, Reaches, Becomes, remote
  <2>2. server.state \in {"Active", "Measuring"}
    BY <1>0, <2>1 DEF SessionInv, ReleaseInv, MeasurementInv, Servers, ServerStates
  <2>3. pc' = IF server.state # "Measuring" THEN "Report"
              ELSE IF spectrumId = "held" THEN "CleanSpectrum" ELSE "CleanMeasurement"
    <3>1. Accepts(server, "GetState")
      BY DEF Accepts
    <3> QED
      BY <1>18, <3>1, NothingThrown DEF CleanQuery
  <2>4. spectrumId \in {"none", "held"}
    BY DEF QuietBase, AsleepInv, TypeOK
  <2> QED
    BY <2>1, <2>2, <2>3, <2>4 DEF session, ReleaseInv, SubscriptionInv, MeasurementInv, LeftInv
<1>19. QED
  BY <1>1, <1>2, <1>3, <1>4, <1>5, <1>6, <1>7, <1>8, <1>9, <1>10, <1>11, <1>13, <1>14, <1>15,
     <1>16, <1>17, <1>18
     DEF Next, Task, Setup, Expose, Finish, Cleanup, Report, Operator

(* When no call fails, an acquisition that is over has given everything    *)
(* back before the task sleeps (spectrum, subscriptions, measurement),     *)
(* whatever the operator does.                                             *)
THEOREM AsleepReleased ==
    ASSUME DeviceErrors = FALSE, Repeats = FALSE, FaultyCalls = {}
    PROVE  Spec => []ReleasedAsleep
<1>1. Init => ReleaseInv
  BY GuidsAssumption DEF Init, IdleServer, ReleaseInv, SubscriptionInv, MeasurementInv, LeftInv
<1>2. QuietBase /\ ReleaseInv /\ [Next]_vars => ReleaseInv'
  BY ReleaseInduction
<1>3. QuietBase /\ ReleaseInv => ReleasedAsleep
  <2> SUFFICES ASSUME QuietBase, ReleaseInv, pc = "Wait",
                      ADStatus = "Aborted" \/ Over
               PROVE  /\ server.state = "Active" /\ server.spectrum = "none" /\ callbacks = {}
                      /\ server.stateSubs \union server.updateSubs = {}
    BY DEF ReleasedAsleep, Over
  <2>1. server.state = "Active" /\ callbacks = {}
    BY DEF ReleaseInv, LeftInv, QuietBase, SessionInv
  <2>2. guidState = NoGuid /\ guidAcquired = NoGuid
    BY <2>1 DEF QuietBase, SessionInv
  <2>3. server.spectrum \in {"none", "defined"}
    BY DEF QuietBase, AsleepInv, TypeOK, Servers
  <2> QED
    BY <2>1, <2>2, <2>3 DEF ReleaseInv, SubscriptionInv, MeasurementInv
<1>4. QuietBase <=> AsleepInv /\ PathInv /\ SessionInv /\ QuietInv
  BY DEF QuietBase
<1> QED
  BY <1>1, <1>2, <1>3, <1>4, AsleepInvariant, PathInvariant, SessionInvariant, QuietInvariant, PTL
     DEF Spec
=============================================================================
