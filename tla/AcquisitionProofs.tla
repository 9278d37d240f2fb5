-------------------------- MODULE AcquisitionProofs --------------------------
(***************************************************************************)
(* Theorems about AcquisitionTask that hold for every value of its         *)
(* constants and in every environment: any operator, any failure (but for  *)
(* CleanupPossible, one call must not be lost).                            *)
(***************************************************************************)
EXTENDS AcquisitionTask, TLAPS

-----------------------------------------------------------------------------
(* The invariant of the lock and of the sleep: the task holds the lock     *)
(* exactly at the top of its loop and at the end of a frame, and whenever  *)
(* it may fall asleep ADStatus does not make writeInt32 swallow a Start.   *)
LockInv ==
    /\ lock = "task" <=> pc \in {"Top", "EndFrame"}
    /\ lock = "port" <=> port = "abort"

SleepInv ==
    /\ pc = "Top" /\ ADAcquire = 0 => ADStatus # "Acquire"
    /\ pc = "Wait" => ADStatus # "Acquire"
    /\ NoLostStart

(* Nothing wakes the task of a driver without a connection. *)
DisconnectedInv ==
    ADStatus = "Disconnected" =>
        /\ pc \in {"Top", "Wait"}
        /\ startEvent = "empty"
        /\ pc = "Top" => ADAcquire = 0

-----------------------------------------------------------------------------
(* The server and the notifications keep their types. *)

LEMMA ServerTypes ==
    ASSUME NEW s \in Servers
    PROVE  /\ \A call \in Calls : After(s, call) \in Servers
           /\ \A call, g : g \in Guids => Subscribed(s, call, g) \in Servers
           /\ \A g : Unsubscribed(s, g) \in Servers
           /\ Completed(s) \in Servers
           /\ Failed(s) \in Servers
           /\ Recovered(s) \in Servers
<1>1. ASSUME NEW call \in Calls PROVE After(s, call) \in Servers
  BY DEF After, Calls, Servers, ServerStates
<1>2. ASSUME NEW call, NEW g \in Guids PROVE Subscribed(s, call, g) \in Servers
  BY DEF Subscribed, Servers
<1>3. ASSUME NEW g PROVE Unsubscribed(s, g) \in Servers
  BY DEF Unsubscribed, Servers
<1>4. Completed(s) \in Servers
  <2>1. s.exposures + 1 \in Nat
    BY DEF Servers
  <2>2. QED
    BY <2>1 DEF Completed, Servers, ServerStates
<1>5. Failed(s) \in Servers
  BY DEF Failed, Servers, ServerStates
<1>6. Recovered(s) \in Servers
  BY DEF Recovered, Servers, ServerStates
<1>7. QED
  BY <1>1, <1>2, <1>3, <1>4, <1>5, <1>6

\* A step of the server keeps its type and that of the notifications.
LEMMA BecomesTypes ==
    ASSUME TypeOK, NEW after \in Servers, Becomes(after)
    PROVE  server' \in Servers /\ notes' \subseteq Guids \X ServerStates
BY DEF TypeOK, Becomes, Announced, Servers

\* A call, whether it succeeds or throws.
LEMMA CallTypes ==
    ASSUME TypeOK, NEW call, NEW after \in Servers,
           Succeeds(call, after) \/ Throws(call, after)
    PROVE  server' \in Servers /\ notes' \subseteq Guids \X ServerStates
<1>1. CASE Becomes(after)
  BY <1>1, BecomesTypes
<1>2. CASE UNCHANGED remote
  BY <1>2 DEF TypeOK, remote
<1>3. QED
  BY <1>1, <1>2 DEF Succeeds, Throws, Reaches

-----------------------------------------------------------------------------
(* Types. *)

\* A call of the try block keeps the type of what it changes.
LEMMA CallingTypes ==
    ASSUME TypeOK, NEW call \in Calls, NEW next \in PcLabels, Calling(call, next)
    PROVE  TypeOK'
<1>1. After(server, call) \in Servers
  BY ServerTypes DEF TypeOK
<1>2. server' \in Servers /\ notes' \subseteq Guids \X ServerStates
  BY <1>1, CallTypes DEF Calling
<1>3. QED
  BY <1>2 DEF TypeOK, Calling, Catch, params, events, frame, session, PcLabels

\* The same for a call that needs the id of the spectrum.
LEMMA CallingSpectrumTypes ==
    ASSUME TypeOK, NEW call \in Calls, NEW next \in PcLabels, CallingSpectrum(call, next)
    PROVE  TypeOK'
<1>1. CASE spectrumId = "held"
  BY <1>1, CallingTypes DEF CallingSpectrum
<1>2. CASE spectrumId # "held"
  BY <1>2 DEF CallingSpectrum, TypeOK, Catch, params, events, frame, session, remote, PcLabels
<1>3. QED
  BY <1>1, <1>2

\* A subscription hands over a guid of Guids.
LEMMA SubscribingTypes ==
    ASSUME TypeOK, NEW call, NEW next \in PcLabels, Subscribing(call, next)
    PROVE  TypeOK'
<1>1. server' \in Servers /\ notes' \subseteq Guids \X ServerStates
  BY CallTypes, ServerTypes DEF Subscribing, FreshGuids, UnusedGuids, TypeOK, remote
<1>2. reply' \in Guids \union {NoGuid}
  BY DEF Subscribing, FreshGuids, UnusedGuids, TypeOK
<1>3. QED
  BY <1>1, <1>2 DEF Subscribing, TypeOK, Catch, params, events, frame, PcLabels

\* An unsubscription only removes callbacks.
LEMMA UnsubscribingTypes ==
    ASSUME TypeOK, NEW guid, NEW next \in PcLabels, NEW handler \in PcLabels,
           Unsubscribing(guid, next, handler)
    PROVE  /\ server' \in Servers
           /\ notes' \subseteq Guids \X ServerStates
           /\ callbacks' \subseteq Guids \union {NoGuid}
           /\ pc' \in PcLabels
           /\ status' \in {"success", "error"}
<1>1. Unsubscribed(server, guid) \in Servers
  BY ServerTypes DEF TypeOK
<1>2. server' \in Servers /\ notes' \subseteq Guids \X ServerStates
  BY <1>1, CallTypes DEF Unsubscribing, TypeOK, remote
<1>3. QED
  BY <1>2 DEF Unsubscribing, TypeOK

(* TypeOK is inductive. *)
LEMMA TypeInduction == TypeOK /\ [Next]_vars => TypeOK'
<1> SUFFICES ASSUME TypeOK, [Next]_vars PROVE TypeOK'
  OBVIOUS
<1>0. numImagesCounter \in Nat => Counted(numImagesCounter) \in Nat
  BY DEF Counted
<1>1. CASE GoToSleep
  BY <1>1 DEF TypeOK, GoToSleep, params, events, frame, session, remote, PcLabels
<1>2. CASE WakeUp
  BY <1>2 DEF TypeOK, WakeUp, params, events, frame, session, remote, PcLabels
<1>3. CASE NextExposure
  BY <1>3 DEF TypeOK, NextExposure, params, events, frame, session, remote, PcLabels
<1>4. CASE WaitStop
  BY <1>4 DEF TypeOK, WaitStop, params, events, frame, session, remote, PcLabels
<1>5. CASE Count
  BY <1>5 DEF TypeOK, Count, params, events, frame, session, remote, PcLabels
<1>6. CASE ReportError
  BY <1>6 DEF TypeOK, ReportError, params, events, frame, session, remote, PcLabels
<1>7. CASE ReportAborted
  BY <1>7 DEF TypeOK, ReportAborted, params, events, frame, session, remote, PcLabels
<1>8. CASE ReportImage
  BY <1>8 DEF TypeOK, ReportImage, params, events, frame, session, remote, PcLabels
<1>9. CASE Published
  BY <1>9 DEF TypeOK, Published, params, events, frame, session, remote, PcLabels
<1>10. CASE EndFrame
  BY <1>10 DEF TypeOK, EndFrame, params, events, frame, session, remote, PcLabels
<1>11. CASE NextFrame
  BY <1>11 DEF TypeOK, NextFrame, SnapshotParameters, events, session, remote, PcLabels
<1>12. CASE Begin
  BY <1>12 DEF TypeOK, Begin, SnapshotParameters, events, session, remote, PcLabels
<1>13. CASE RegisterState
  BY <1>13 DEF TypeOK, RegisterState, Registering, params, events, frame, remote, PcLabels
<1>14. CASE RegisterUpdate
  BY <1>14 DEF TypeOK, RegisterUpdate, Registering, params, events, frame, remote, PcLabels
<1>15. CASE Start
  BY <1>15 DEF TypeOK, Start, events, local, frame, session, remote
<1>16. CASE Stop
  BY <1>16 DEF TypeOK, Stop, events, local, frame, session, remote
<1>17. CASE WriteImageMode
  BY <1>17 DEF TypeOK, WriteImageMode, events, local, frame, session, remote
<1>18. CASE StartMeasurement
  BY <1>18, CallingTypes DEF StartMeasurement, Calls, PcLabels
<1>19. CASE SetupSpectrum
  BY <1>19, CallingTypes DEF SetupSpectrum, Calls, PcLabels
<1>20. CASE FinishMeasurement
  BY <1>20, CallingTypes DEF FinishMeasurement, Calls, PcLabels
<1>21. CASE ClearSpectrum
  BY <1>21, CallingSpectrumTypes DEF ClearSpectrum, Calls, PcLabels
<1>22. CASE AcquisitionAsync
  BY <1>22, CallingSpectrumTypes DEF AcquisitionAsync, Calls, PcLabels
<1>23. CASE SubscribeState
  BY <1>23, SubscribingTypes DEF SubscribeState, PcLabels
<1>24. CASE SubscribeUpdate
  BY <1>24, SubscribingTypes DEF SubscribeUpdate, PcLabels
<1>25. CASE GetState
  <2>1. server \in Servers
    BY ServerTypes DEF TypeOK, Calls
  <2>2. server' \in Servers /\ notes' \subseteq Guids \X ServerStates
    BY <1>25, <2>1, CallTypes DEF GetState, TypeOK, remote
  <2>3. QED
    BY <1>25, <2>2 DEF TypeOK, GetState, Catch, PcLabels, params, events, frame, session
<1>26. CASE DefineSpectrum
  <2>1. After(server, "DefineSpectrum") \in Servers
    BY ServerTypes DEF TypeOK, Calls
  <2>2. server' \in Servers /\ notes' \subseteq Guids \X ServerStates
    BY <1>26, <2>1, CallTypes DEF DefineSpectrum, TypeOK, remote
  <2>3. QED
    BY <1>26, <2>2 DEF TypeOK, DefineSpectrum, Catch, PcLabels, params, events, frame
<1>27. CASE GetMeasuredSpectrum
  <2>1. server \in Servers
    BY ServerTypes DEF TypeOK, Calls
  <2>2. server' \in Servers /\ notes' \subseteq Guids \X ServerStates
    BY <1>27, <2>1, CallTypes DEF GetMeasuredSpectrum, TypeOK, remote
  <2>3. spectrum' \in [exposures : Nat, cut : {0, 1}, data : {"counts", "zeros"}]
    BY <1>27 DEF GetMeasuredSpectrum, Fetched, TypeOK, Servers
  <2>4. QED
    BY <1>27, <2>2, <2>3, <1>0 DEF TypeOK, GetMeasuredSpectrum, Catch, PcLabels, params, events, session
<1>28. CASE FinishSpectrum
  <2>1. After(server, "FinishSpectrum") \in Servers
    BY ServerTypes DEF TypeOK, Calls
  <2>2. server' \in Servers /\ notes' \subseteq Guids \X ServerStates
    BY <1>28, <2>1, CallTypes DEF FinishSpectrum, TypeOK, remote
  <2>3. QED
    BY <1>28, <2>2 DEF TypeOK, FinishSpectrum, Catch, PcLabels, params, events, frame
<1>29. CASE CleanQuery
  <2>1. server \in Servers
    BY ServerTypes DEF TypeOK, Calls
  <2>2. server' \in Servers /\ notes' \subseteq Guids \X ServerStates
    BY <1>29, <2>1, CallTypes DEF CleanQuery, TypeOK, remote
  <2>3. QED
    BY <1>29, <2>2 DEF TypeOK, CleanQuery, Catch, PcLabels, params, events, frame, session
<1>30. CASE CleanSpectrum
  <2>1. After(server, "FinishSpectrum") \in Servers
    BY ServerTypes DEF TypeOK, Calls
  <2>2. server' \in Servers /\ notes' \subseteq Guids \X ServerStates
    BY <1>30, <2>1, CallTypes DEF CleanSpectrum, TypeOK, remote
  <2>3. QED
    BY <1>30, <2>2 DEF TypeOK, CleanSpectrum, Catch, PcLabels, params, events, frame
<1>31. CASE CleanMeasurement
  <2>1. After(server, "FinishMeasurement") \in Servers
    BY ServerTypes DEF TypeOK, Calls
  <2>2. server' \in Servers /\ notes' \subseteq Guids \X ServerStates
    BY <1>31, <2>1, CallTypes DEF CleanMeasurement, TypeOK, remote
  <2>3. QED
    BY <1>31, <2>2 DEF TypeOK, CleanMeasurement, Catch, PcLabels, params, events, frame, session
<1>32. CASE CancelAcquisition
  <2>1. After(server, "CancelAcquisition") \in Servers
    BY ServerTypes DEF TypeOK, Calls
  <2>2. server' \in Servers /\ notes' \subseteq Guids \X ServerStates
    BY <1>32, <2>1, CallTypes DEF CancelAcquisition, TypeOK, remote
  <2>3. QED
    BY <1>32, <2>2 DEF TypeOK, CancelAcquisition, Catch, PcLabels, params, events, local, frame, session
<1>33. CASE UnsubscribeState
  <2>1. /\ server' \in Servers
        /\ notes' \subseteq Guids \X ServerStates
        /\ callbacks' \subseteq Guids \union {NoGuid}
        /\ pc' \in PcLabels
        /\ status' \in {"success", "error"}
    BY <1>33, UnsubscribingTypes DEF UnsubscribeState, PcLabels
  <2>2. QED
    BY <1>33, <2>1 DEF TypeOK, UnsubscribeState, Forgotten, params, events, frame
<1>34. CASE UnsubscribeUpdate
  <2>1. /\ server' \in Servers
        /\ notes' \subseteq Guids \X ServerStates
        /\ callbacks' \subseteq Guids \union {NoGuid}
        /\ pc' \in PcLabels
        /\ status' \in {"success", "error"}
    BY <1>34, UnsubscribingTypes DEF UnsubscribeUpdate, PcLabels
  <2>2. QED
    BY <1>34, <2>1 DEF TypeOK, UnsubscribeUpdate, Forgotten, params, events, frame
<1>35. CASE CleanState
  <2>1. /\ server' \in Servers
        /\ notes' \subseteq Guids \X ServerStates
        /\ callbacks' \subseteq Guids \union {NoGuid}
        /\ pc' \in PcLabels
        /\ status' \in {"success", "error"}
    BY <1>35, UnsubscribingTypes DEF CleanState, PcLabels
  <2>2. QED
    BY <1>35, <2>1 DEF TypeOK, CleanState, Forgotten, params, events, frame
<1>36. CASE CleanUpdate
  <2>1. /\ server' \in Servers
        /\ notes' \subseteq Guids \X ServerStates
        /\ callbacks' \subseteq Guids \union {NoGuid}
        /\ pc' \in PcLabels
        /\ status' \in {"success", "error"}
    BY <1>36, UnsubscribingTypes DEF CleanUpdate, PcLabels
  <2>2. QED
    BY <1>36, <2>1 DEF TypeOK, CleanUpdate, Forgotten, params, events, frame
<1>37. CASE ServerCompletes
  <2>1. server' \in Servers /\ notes' \subseteq Guids \X ServerStates
    BY <1>37, ServerTypes, BecomesTypes DEF ServerCompletes, TypeOK
  <2>2. QED
    BY <1>37, <2>1 DEF TypeOK, ServerCompletes, driver, local, params, frame, session
<1>38. CASE ServerFails
  <2>1. server' \in Servers /\ notes' \subseteq Guids \X ServerStates
    BY <1>38, ServerTypes, BecomesTypes DEF ServerFails, TypeOK
  <2>2. QED
    BY <1>38, <2>1 DEF TypeOK, ServerFails, driver, local, params, frame, session
<1>39. CASE ServerRecovers
  <2>1. server' \in Servers /\ notes' \subseteq Guids \X ServerStates
    BY <1>39, ServerTypes, BecomesTypes DEF ServerRecovers, TypeOK
  <2>2. QED
    BY <1>39, <2>1 DEF TypeOK, ServerRecovers, driver, local, params, frame, session
<1>40. ASSUME NEW m \in notes, StateChanged(m) PROVE TypeOK'
  BY <1>40 DEF TypeOK, StateChanged, driver, local, params, frame, session
<1>41. CASE UNCHANGED vars
  BY <1>41 DEF TypeOK, vars, params, events, frame, session, remote
<1>42. QED
  BY <1>1, <1>2, <1>3, <1>4, <1>5, <1>6, <1>7, <1>8, <1>9, <1>10, <1>11,
     <1>12, <1>13, <1>14, <1>15, <1>16, <1>17, <1>18, <1>19, <1>20,
     <1>21, <1>22, <1>23, <1>24, <1>25, <1>26, <1>27, <1>28, <1>29,
     <1>30, <1>31, <1>32, <1>33, <1>34, <1>35, <1>36, <1>37, <1>38,
     <1>39, <1>40, <1>41
     DEF Next, Task, Operator, Server, Setup, Expose, Finish, Cleanup, Report

\* The driver starts well typed.
LEMMA TypeInit == Init => TypeOK
BY NumExposuresAssumption DEF Init, TypeOK, PcLabels, IdleServer, Servers, ServerStates

(* The driver's variables keep their types, whatever the operator, the     *)
(* network and the analyser do.                                            *)
THEOREM TypeCorrect == Spec => []TypeOK
BY TypeInit, TypeInduction, PTL DEF Spec

-----------------------------------------------------------------------------
(* Sleeping and waking, in every environment. *)

\* The inductive invariant behind the two theorems below.
AsleepInv == TypeOK /\ LockInv /\ SleepInv /\ DisconnectedInv

\* AsleepInv is inductive.
LEMMA AsleepInduction == AsleepInv /\ [Next]_vars => AsleepInv'
<1> SUFFICES ASSUME AsleepInv, [Next]_vars PROVE (LockInv /\ SleepInv /\ DisconnectedInv)'
  BY TypeInduction DEF AsleepInv
<1> USE DEF AsleepInv, TypeOK, LockInv, SleepInv, NoLostStart, DisconnectedInv
<1>1. CASE GoToSleep
  BY <1>1 DEF GoToSleep, params, events
<1>2. CASE NextFrame
  BY <1>2 DEF NextFrame, SnapshotParameters, params, events
<1>3. CASE WakeUp
  BY <1>3 DEF WakeUp, params, events
<1>4. CASE Begin
  BY <1>4 DEF Begin, SnapshotParameters, params, events
<1>5. CASE GetState
  BY <1>5 DEF GetState, Catch, params, events
<1>6. CASE DefineSpectrum
  BY <1>6 DEF DefineSpectrum, Catch, params, events
<1>7. CASE StartMeasurement
  BY <1>7 DEF StartMeasurement, Calling, Catch, params, events
<1>8. CASE SetupSpectrum
  BY <1>8 DEF SetupSpectrum, Calling, Catch, params, events
<1>9. CASE SubscribeState
  BY <1>9 DEF SubscribeState, Subscribing, Catch, params, events
<1>10. CASE RegisterState
  BY <1>10 DEF RegisterState, Registering, params, events
<1>11. CASE SubscribeUpdate
  BY <1>11 DEF SubscribeUpdate, Subscribing, Catch, params, events
<1>12. CASE RegisterUpdate
  BY <1>12 DEF RegisterUpdate, Registering, params, events
<1>13. CASE ClearSpectrum
  BY <1>13 DEF ClearSpectrum, CallingSpectrum, Calling, Catch, params,
       events
<1>14. CASE NextExposure
  BY <1>14 DEF NextExposure, params, events
<1>15. CASE AcquisitionAsync
  BY <1>15 DEF AcquisitionAsync, CallingSpectrum, Calling, Catch, params,
       events
<1>16. CASE WaitStop
  BY <1>16 DEF WaitStop, params, events
<1>17. CASE Count
  BY <1>17 DEF Count, params, events
<1>18. CASE GetMeasuredSpectrum
  BY <1>18 DEF GetMeasuredSpectrum, Catch, params, events
<1>19. CASE UnsubscribeState
  BY <1>19 DEF UnsubscribeState, Unsubscribing, params, events
<1>20. CASE UnsubscribeUpdate
  BY <1>20 DEF UnsubscribeUpdate, Unsubscribing, params, events
<1>21. CASE FinishSpectrum
  BY <1>21 DEF FinishSpectrum, Catch, params, events
<1>22. CASE FinishMeasurement
  BY <1>22 DEF FinishMeasurement, Calling, Catch, params, events
<1>23. CASE CleanState
  BY <1>23 DEF CleanState, Unsubscribing, params, events
<1>24. CASE CleanUpdate
  BY <1>24 DEF CleanUpdate, Unsubscribing, params, events
<1>25. CASE CleanQuery
  BY <1>25 DEF CleanQuery, params, events
<1>26. CASE CleanSpectrum
  BY <1>26 DEF CleanSpectrum, params, events
<1>27. CASE CleanMeasurement
  BY <1>27 DEF CleanMeasurement, params, events
<1>28. CASE ReportError
  BY <1>28 DEF ReportError, params, events
<1>29. CASE ReportAborted
  BY <1>29 DEF ReportAborted, params, events
<1>30. CASE ReportImage
  BY <1>30 DEF ReportImage, params, events
<1>31. CASE Published
  BY <1>31 DEF Published, params, events
<1>32. CASE EndFrame
  BY <1>32 DEF EndFrame, Finished, params, events
<1>33. CASE Start
  BY <1>33 DEF Start, local, params, events
<1>34. CASE Stop
  BY <1>34 DEF Stop, local, params, events
<1>35. CASE CancelAcquisition
  BY <1>35 DEF CancelAcquisition, local, params, events
<1>36. CASE WriteImageMode
  BY <1>36 DEF WriteImageMode, local, params, events
<1>37. CASE ServerCompletes
  BY <1>37 DEF ServerCompletes, driver, local, params, events
<1>38. CASE ServerFails
  BY <1>38 DEF ServerFails, driver, local, params, events
<1>39. CASE ServerRecovers
  BY <1>39 DEF ServerRecovers, driver, local, params, events
<1>40. ASSUME NEW m \in notes, StateChanged(m)
      PROVE  (LockInv /\ SleepInv /\ DisconnectedInv)'
  BY <1>40 DEF StateChanged, driver, local, params
<1>41. CASE UNCHANGED vars
  BY <1>41 DEF vars, params, events
<1>42. QED
  BY <1>1, <1>2, <1>3, <1>4, <1>5, <1>6, <1>7, <1>8, <1>9, <1>10, <1>11,
     <1>12, <1>13, <1>14, <1>15, <1>16, <1>17, <1>18, <1>19, <1>20,
     <1>21, <1>22, <1>23, <1>24, <1>25, <1>26, <1>27, <1>28, <1>29,
     <1>30, <1>31, <1>32, <1>33, <1>34, <1>35, <1>36, <1>37, <1>38,
     <1>39, <1>40, <1>41
     DEF Next, Task, Operator, Server, Setup, Expose, Finish, Cleanup, Report

\* The driver starts asleep, or about to test ADAcquire under the lock.
LEMMA AsleepInit == Init => AsleepInv
BY TypeInit DEF Init, AsleepInv, LockInv, SleepInv, NoLostStart, DisconnectedInv

\* The invariant of the lock and of the sleep holds throughout.
LEMMA AsleepInvariant == Spec => []AsleepInv
BY AsleepInit, AsleepInduction, PTL DEF Spec

(* No Start is lost: whatever the operator writes and whatever fails, the  *)
(* task never sleeps on an empty startEvent while ADAcquire is 1.          *)
THEOREM StartNeverLost == Spec => []NoLostStart
<1>1. AsleepInv => NoLostStart
  BY DEF AsleepInv, SleepInv
<1>2. QED
  BY <1>1, AsleepInvariant, PTL

(* Without a connection the task never leaves its sleep. *)
THEOREM NeverAwakeDisconnected == Spec => []DisconnectedSleeps
<1>1. AsleepInv => DisconnectedSleeps
  BY DEF AsleepInv, DisconnectedInv, DisconnectedSleeps
<1>2. QED
  BY <1>1, AsleepInvariant, PTL

-----------------------------------------------------------------------------
(* Until the server has lost its spectrum the id the task holds is of use. *)
HeldInv ==
    /\ pc \in {"DefineSpectrum", "StartMeasurement"} => server.state = "Active"
    /\ pc = "StartMeasurement" => server.spectrum = "defined"
    /\ spectrumId = "held" /\ server.state \in {"Measuring", "Acquiring"} =>
           server.spectrum = "defined"

\* What a call leaves of the state of the server, its spectrum and subscriptions.
LEMMA CallEffect ==
    \A s \in Servers, call \in Calls :
        LET after == After(s, call)
        IN  /\ call \notin {"StartMeasurement", "AcquisitionAsync", "CancelAcquisition",
                            "FinishMeasurement"}
                 => after.state = s.state
            /\ call = "StartMeasurement"  => after.state = "Measuring"
            /\ call = "AcquisitionAsync"  => after.state = "Acquiring"
            /\ call = "FinishMeasurement" => after.state = "Active"
            /\ call = "CancelAcquisition" =>
                 after.state = IF s.state = "Acquiring" THEN "Measuring" ELSE s.state
            /\ call \notin {"DefineSpectrum", "FinishSpectrum"} => after.spectrum = s.spectrum
            /\ call = "DefineSpectrum" => after.spectrum = "defined"
            /\ call = "FinishSpectrum" => after.spectrum = "none"
            /\ after.stateSubs = s.stateSubs /\ after.updateSubs = s.updateSubs
<1>1. ASSUME NEW s \in Servers
      PROVE  /\ DOMAIN s = {"state", "spectrum", "exposures", "cut", "stateSubs", "updateSubs"}
  BY DEF Servers
<1>2. QED
  BY <1>1 DEF After, Calls, Servers

\* Subscriptions concern neither.
LEMMA SubscriptionEffect ==
    \A s \in Servers : \A g :
        /\ Unsubscribed(s, g).state = s.state /\ Unsubscribed(s, g).spectrum = s.spectrum
        /\ \A call : /\ Subscribed(s, call, g).state = s.state
                     /\ Subscribed(s, call, g).spectrum = s.spectrum
BY DEF Unsubscribed, Subscribed, Servers

\* The id stays of use, also when the device fails and somebody resets the server.
LEMMA HeldInduction ==
    ASSUME "FinishSpectrum" \notin FaultyCalls
    PROVE  TypeOK /\ HeldInv /\ [Next]_vars => HeldInv'
<1> SUFFICES ASSUME TypeOK, HeldInv, [Next]_vars  PROVE HeldInv'
  OBVIOUS
<1>0. server \in Servers
  BY DEF TypeOK
<1>1. ASSUME UNCHANGED <<server, spectrumId>>,
             pc' = pc \/ pc' \notin {"DefineSpectrum", "StartMeasurement"}
      PROVE  HeldInv'
  BY <1>1 DEF HeldInv
<1>2. ASSUME UNCHANGED <<pc, spectrumId>>,
             server'.spectrum = server.spectrum,
             server'.state # server.state => server.state \in {"Measuring", "Acquiring"}
      PROVE  HeldInv'
  BY <1>2 DEF HeldInv
<1>3. CASE GoToSleep \/ NextFrame \/ WakeUp \/ Begin \/ RegisterState \/ RegisterUpdate
           \/ NextExposure \/ WaitStop \/ Count \/ Report \/ EndFrame
  BY <1>1, <1>3
     DEF GoToSleep, NextFrame, WakeUp, Begin, SnapshotParameters, RegisterState, RegisterUpdate,
         Registering, NextExposure, WaitStop, Count, Report, ReportError, ReportAborted, ReportImage,
         Published, EndFrame, session, remote
<1>4. CASE Start \/ Stop \/ WriteImageMode \/ (\E n \in notes : StateChanged(n)) \/ UNCHANGED vars
  BY <1>1, <1>4 DEF Start, Stop, WriteImageMode, StateChanged, driver, local, session, remote, vars
<1>5. CASE CancelAcquisition
  BY <1>0, <1>2, <1>5, CallEffect
     DEF CancelAcquisition, Succeeds, Throws, Reaches, Becomes, Calls, local, session, remote
<1>6. CASE ServerCompletes \/ ServerFails
  BY <1>0, <1>2, <1>6
     DEF ServerCompletes, ServerFails, Completed, Failed, Becomes, Servers, driver, local, session
<1>7. CASE ServerRecovers
  BY <1>0, <1>7
     DEF ServerRecovers, Recovered, Becomes, Servers, driver, local, session, HeldInv
<1>8. CASE GetState
  BY <1>0, <1>8 DEF GetState, Succeeds, Throws, Catch, Reaches, Becomes, session, remote, HeldInv
<1>9. CASE DefineSpectrum
  BY <1>0, <1>9, CallEffect
     DEF DefineSpectrum, Succeeds, Throws, Catch, Reaches, Becomes, Calls, remote, HeldInv
<1>10. CASE StartMeasurement
  BY <1>0, <1>10, CallEffect
     DEF StartMeasurement, Calling, Succeeds, Throws, Catch, Reaches, Becomes, Calls, session, remote,
         HeldInv
<1>11. CASE SetupSpectrum \/ ClearSpectrum \/ AcquisitionAsync \/ FinishMeasurement
  BY <1>0, <1>11, CallEffect
     DEF SetupSpectrum, ClearSpectrum, AcquisitionAsync, FinishMeasurement, CallingSpectrum, Accepts,
         Calling, Succeeds, Throws, Catch, Reaches, Becomes, Calls, session, remote, HeldInv
<1>12. CASE SubscribeState \/ SubscribeUpdate
  <2>1. PICK call \in Calls, next \in {"RegisterState", "RegisterUpdate"} : Subscribing(call, next)
    BY <1>12 DEF SubscribeState, SubscribeUpdate, Calls
  <2>2. UNCHANGED spectrumId /\ pc' \notin {"DefineSpectrum", "StartMeasurement"}
    BY <2>1 DEF Subscribing, Catch
  <2>3. server' = server \/ \E g : server' = Subscribed(server, call, g)
    BY <2>1 DEF Subscribing, Succeeds, Throws, Reaches, Becomes, remote
  <2>4. server'.state = server.state /\ server'.spectrum = server.spectrum
    BY <1>0, <2>3, SubscriptionEffect
  <2> QED
    BY <2>2, <2>4 DEF HeldInv
<1>13. CASE GetMeasuredSpectrum
  BY <1>0, <1>13
     DEF GetMeasuredSpectrum, Succeeds, Throws, Catch, Reaches, Becomes, session, remote, HeldInv
<1>14. CASE UnsubscribeState \/ UnsubscribeUpdate \/ CleanState \/ CleanUpdate
  BY <1>0, <1>14, SubscriptionEffect
     DEF UnsubscribeState, UnsubscribeUpdate, CleanState, CleanUpdate, Unsubscribing,
         Succeeds, Throws, Reaches, Becomes, remote, HeldInv
<1>15. CASE FinishSpectrum \/ CleanSpectrum
  BY <1>0, <1>15, CallEffect
     DEF FinishSpectrum, CleanSpectrum, Succeeds, Throws, Catch, Reaches, Becomes, Calls, remote,
         HeldInv
<1>16. CASE CleanQuery \/ CleanMeasurement
  BY <1>0, <1>16, CallEffect
     DEF CleanQuery, CleanMeasurement, Succeeds, Throws, Reaches, Becomes, Calls, session, remote,
         HeldInv
<1>17. QED
  BY <1>3, <1>4, <1>5, <1>6, <1>7, <1>8, <1>9, <1>10, <1>11, <1>12, <1>13, <1>14, <1>15, <1>16
     DEF Next, Task, Setup, Expose, Finish, Cleanup, Operator, Server

(* As long as no call of FinishSpectrum is lost, the next acquisition can  *)
(* clean up after any failure: the server knows the spectrum whose id is held.*)
THEOREM CleanupPossible ==
    ASSUME "FinishSpectrum" \notin FaultyCalls
    PROVE  Spec => []CleanupCanSucceed
<1>1. Init => HeldInv
  BY DEF Init, HeldInv
<1>2. TypeOK /\ HeldInv /\ [Next]_vars => HeldInv'
  BY HeldInduction
<1>3. HeldInv => CleanupCanSucceed
  BY DEF HeldInv, CleanupCanSucceed
<1>4. QED
  BY <1>1, <1>2, <1>3, TypeCorrect, PTL DEF Spec
-----------------------------------------------------------------------------
(* The path of a frame through the task, and its session with the server,  *)
(* in every environment.                                                   *)

SettingUp == {"GetState", "DefineSpectrum", "StartMeasurement", "SetupSpectrum",
              "SubscribeState", "RegisterState", "SubscribeUpdate",
              "RegisterUpdate", "ClearSpectrum"}
Exposing  == {"NextExposure", "AcquisitionAsync", "WaitStop", "Count"}
Finishing == {"GetMeasuredSpectrum", "UnsubscribeState", "UnsubscribeUpdate",
              "FinishSpectrum", "FinishMeasurement"}
Cleaning  == {"CleanState", "CleanUpdate", "CleanQuery", "CleanSpectrum",
              "CleanMeasurement"}
Handing   == {"Report", "Publish", "EndFrame"}

\* The frame was the last one of its acquisition, were it not for a Stop.
Over == Finished(1, imageMode, numImagesCounter)

\* The frame has an image, and another frame follows it.
Continues == status = "success" /\ acquire = 1 /\ ~Over

\* An exception leads to the cleanup, and only success to an image.
StatusInv ==
    /\ pc \in SettingUp \union Exposing \union Finishing => status = "success"
    /\ pc \in Cleaning => status = "error"
    /\ pc \in {"Publish", "EndFrame"} => status = "success" /\ acquire = 1
    /\ pc = "Top" /\ ADAcquire = 1 => status = "success"
    /\ pc \in Finishing \ {"GetMeasuredSpectrum"} /\ acquire = 1 => Over

\* A frame that exposes has a spectrum; one that ended its acquisition has none.
SpectrumInv ==
    /\ pc \in (SettingUp \ {"GetState", "DefineSpectrum", "ClearSpectrum"}) \union Exposing
              \union {"GetMeasuredSpectrum"} => spectrumId = "held"
    /\ pc = "FinishMeasurement" => spectrumId = "none"
    /\ pc = "Report" /\ status = "success" /\ ~Continues => spectrumId = "none"
    /\ pc \in Handing /\ Continues => spectrumId = "held"

Subscribes == guidState \in callbacks /\ guidState \in server.stateSubs

\* While there is a spectrum to expose the task listens to the state.
SubscribedInv ==
    /\ pc = "RegisterState" => reply \in server.stateSubs
    /\ pc \in {"SubscribeUpdate", "RegisterUpdate", "GetMeasuredSpectrum"} \union Exposing
           => Subscribes
    /\ pc = "ClearSpectrum" /\ spectrumId = "held" => Subscribes
    /\ pc \in Handing /\ Continues => Subscribes
    /\ pc = "Top" /\ ADAcquire = 1 /\ spectrumId = "held" => Subscribes

PathInv == StatusInv /\ SpectrumInv /\ SubscribedInv /\ WakeUpOwed

\* What leaves the task where it is, and its session, leaves the rest.
LEMMA PathAside ==
    ASSUME PathInv,
           UNCHANGED <<pc, status, acquire, imageMode, numImagesCounter, spectrumId,
                       guidState, callbacks, reply>>,
           pc = "Top" => UNCHANGED ADAcquire,
           server.stateSubs \subseteq server'.stateSubs,
           pc = "WaitStop" => WakeUpOwed'
    PROVE  PathInv'
<1>1. StatusInv' /\ SpectrumInv'
  BY DEF PathInv, StatusInv, SpectrumInv, Over, Continues, Finished
<1>2. SubscribedInv'
  BY DEF PathInv, SubscribedInv, Subscribes, Over, Continues, Finished
<1>3. WakeUpOwed'
  BY DEF WakeUpOwed
<1> QED
  BY <1>1, <1>2, <1>3 DEF PathInv

\* The end of an exposure is announced to the task that waits for it.
LEMMA EndAnnounced ==
    ASSUME PathInv, pc = "WaitStop", NEW after, Becomes(after),
           UNCHANGED <<pc, stopEvent, guidState, callbacks>>,
           server.stateSubs \subseteq after.stateSubs,
           after.state = server.state \/ Stopping(after.state)
    PROVE  WakeUpOwed'
<1>1. notes \subseteq notes' /\ server' = after
  BY DEF Becomes
<1>2. CASE stopEvent = "full" \/ \E n \in notes: n[1] \in callbacks /\ Stopping(n[2])
  BY <1>1, <1>2 DEF WakeUpOwed
<1>3. CASE server.state = "Acquiring" /\ guidState \in callbacks \intersect server.stateSubs
  <2>1. CASE after.state = server.state
    BY <1>1, <1>3, <2>1 DEF WakeUpOwed
  <2>2. CASE after.state # server.state
    <3>1. <<guidState, after.state>> \in notes'
      BY <1>3, <2>2 DEF Becomes, Announced, Listeners
    <3>2. \E n \in notes' : n[1] \in callbacks /\ Stopping(n[2])
      BY <1>3, <2>2, <3>1
    <3> QED
      BY <3>2 DEF WakeUpOwed, Stopping
  <2> QED
    BY <2>1, <2>2
<1> QED
  BY <1>2, <1>3 DEF PathInv, WakeUpOwed

LEMMA PathInduction == TypeOK /\ LockInv /\ PathInv /\ [Next]_vars => PathInv'
<1> SUFFICES ASSUME TypeOK, LockInv, PathInv, [Next]_vars  PROVE PathInv'
  OBVIOUS
<1>0. server \in Servers
  BY DEF TypeOK
<1> USE DEF SettingUp, Exposing, Finishing, Cleaning, Handing
<1>1. CASE Start \/ Stop \/ WriteImageMode \/ UNCHANGED vars
  <2>1. pc = "Top" => UNCHANGED ADAcquire
    BY <1>1 DEF LockInv, Start, Stop, WriteImageMode, vars, params
  <2>2. UNCHANGED <<local, stopEvent, remote>>
    BY <1>1 DEF Start, Stop, WriteImageMode, vars, events, local
  <2>3. WakeUpOwed'
    BY <2>2 DEF PathInv, WakeUpOwed, local, session, remote
  <2> QED
    BY <2>1, <2>2, <2>3, PathAside DEF local, frame, session, remote
<1>2. ASSUME NEW n \in notes, StateChanged(n)
      PROVE  PathInv'
  <2>1. UNCHANGED <<local, params, server>>
    BY <1>2 DEF StateChanged, driver
  <2>2. pc = "WaitStop" => WakeUpOwed'
    <3>1. CASE n[1] \in callbacks /\ Stopping(n[2])
      BY <1>2, <3>1 DEF StateChanged, WakeUpOwed
    <3>2. CASE ~(n[1] \in callbacks /\ Stopping(n[2]))
      BY <1>2, <2>1, <3>2 DEF StateChanged, PathInv, WakeUpOwed, local, session
    <3> QED
      BY <3>1, <3>2
  <2> QED
    BY <2>1, <2>2, PathAside DEF local, params, frame, session
<1>3. CASE CancelAcquisition
  <2>1. UNCHANGED <<local, params, events>>
    BY <1>3 DEF CancelAcquisition
  <2>2. CASE UNCHANGED remote
    BY <2>1, <2>2, PathAside DEF local, params, frame, session, remote, events, PathInv, WakeUpOwed
  <2>3. CASE Becomes(After(server, "CancelAcquisition"))
    <3> DEFINE after == After(server, "CancelAcquisition")
    <3>1. /\ after.stateSubs = server.stateSubs
          /\ after.state = server.state \/ after.state = "Measuring"
      BY <1>0, CallEffect DEF Calls
    <3>2. server' = after
      BY <2>3 DEF Becomes
    <3>3. pc = "WaitStop" => WakeUpOwed'
      BY <2>1, <2>3, <3>1, EndAnnounced DEF local, session, events, Stopping
    <3> QED
      BY <2>1, <3>1, <3>2, <3>3, PathAside DEF local, params, frame, session
  <2> QED
    BY <1>3, <2>2, <2>3 DEF CancelAcquisition, Succeeds, Throws, Reaches
<1>4. CASE Server
  <2>1. PICK after : /\ Becomes(after)
                     /\ \/ after \in {Completed(server), Failed(server)}
                        \/ after = Recovered(server) /\ server.state = "Error"
    <3>1. CASE ServerCompletes
      BY <3>1 DEF ServerCompletes
    <3>2. CASE ServerFails
      BY <3>2 DEF ServerFails
    <3>3. CASE ServerRecovers
      BY <3>3 DEF ServerRecovers
    <3> QED
      BY <1>4, <3>1, <3>2, <3>3 DEF Server
  <2>2. UNCHANGED <<local, params, stopEvent>>
    BY <1>4 DEF Server, ServerCompletes, ServerFails, ServerRecovers, driver
  <2>3. /\ after.stateSubs = server.stateSubs /\ server' = after
        /\ after.state \in {"Measuring", "Error"} \/ server.state = "Error"
    BY <1>0, <2>1 DEF Completed, Failed, Recovered, Servers, Becomes
  <2>4. pc = "WaitStop" => WakeUpOwed'
    <3>1. CASE after.state \in {"Measuring", "Error"}
      BY <2>1, <2>2, <2>3, <3>1, EndAnnounced DEF local, session, Stopping
    <3>2. CASE server.state = "Error"
      BY <2>1, <2>2, <3>2 DEF PathInv, WakeUpOwed, Becomes, local, session
    <3> QED
      BY <2>3, <3>1, <3>2
  <2> QED
    BY <2>2, <2>3, <2>4, PathAside DEF local, params, frame, session
<1>5. CASE GoToSleep \/ WakeUp \/ Begin
  BY <1>5 DEF GoToSleep, WakeUp, Begin, SnapshotParameters, PathInv, StatusInv, SpectrumInv,
              SubscribedInv, WakeUpOwed
<1>6. CASE NextFrame
  BY <1>6 DEF NextFrame, SnapshotParameters, PathInv, StatusInv, SpectrumInv,
              SubscribedInv, Subscribes, WakeUpOwed, session, remote
<1>7. CASE GetState \/ StartMeasurement \/ SetupSpectrum
  <2>1. /\ pc' \in {"DefineSpectrum", "SetupSpectrum", "SubscribeState"} /\ UNCHANGED status
        \/ Catch
    BY <1>7 DEF GetState, StartMeasurement, SetupSpectrum, Calling
  <2>2. pc \in {"StartMeasurement", "SetupSpectrum"} \/ pc' = "DefineSpectrum" \/ Catch
    BY <1>7 DEF GetState, StartMeasurement, SetupSpectrum
  <2>3. UNCHANGED spectrumId /\ pc \in SettingUp \ {"ClearSpectrum"}
    BY <1>7 DEF GetState, StartMeasurement, SetupSpectrum, Calling, session
  <2> QED
    BY <2>1, <2>2, <2>3 DEF Catch, PathInv, StatusInv, SpectrumInv, SubscribedInv, WakeUpOwed
<1>8. CASE DefineSpectrum
  BY <1>8 DEF DefineSpectrum, Catch, PathInv, StatusInv, SpectrumInv, SubscribedInv, WakeUpOwed
<1>9. CASE SubscribeState
  <2>1. \/ /\ pc' = "RegisterState" /\ UNCHANGED <<status, spectrumId>>
           /\ \E g \in FreshGuids : server' = Subscribed(server, "SubscribeToState", g) /\ reply' = g
        \/ Catch
    BY <1>9 DEF SubscribeState, Subscribing, Succeeds, Reaches, Becomes
  <2>2. pc' = "RegisterState" => reply' \in server'.stateSubs
    BY <1>0, <2>1 DEF Subscribed, Servers, Catch
  <2> QED
    BY <1>9, <2>1, <2>2 DEF SubscribeState, Catch, PathInv, StatusInv, SpectrumInv, SubscribedInv, WakeUpOwed
<1>10. CASE RegisterState
  BY <1>10 DEF RegisterState, Registering, remote, PathInv, StatusInv, SpectrumInv, SubscribedInv,
               Subscribes, WakeUpOwed
<1>11. CASE SubscribeUpdate
  <2>1. \/ /\ pc' = "RegisterUpdate" /\ UNCHANGED <<status, spectrumId, guidState, callbacks>>
           /\ \E g \in FreshGuids : server' = Subscribed(server, "SubscribeToObservable", g)
        \/ Catch
    BY <1>11 DEF SubscribeUpdate, Subscribing, Succeeds, Reaches, Becomes
  <2>2. pc' = "RegisterUpdate" => server'.stateSubs = server.stateSubs
    BY <1>0, <2>1 DEF Subscribed, Servers, Catch
  <2> QED
    BY <1>11, <2>1, <2>2 DEF SubscribeUpdate, Catch, PathInv, StatusInv, SpectrumInv, SubscribedInv,
                            Subscribes, WakeUpOwed
<1>12. CASE RegisterUpdate
  BY <1>12 DEF RegisterUpdate, Registering, remote, PathInv, StatusInv, SpectrumInv, SubscribedInv,
               Subscribes, WakeUpOwed
<1>13. CASE ClearSpectrum
  <2>1. \/ /\ pc' = "NextExposure" /\ UNCHANGED <<status, session>> /\ spectrumId = "held"
           /\ server' = After(server, "ClearSpectrum")
        \/ Catch
    BY <1>13 DEF ClearSpectrum, CallingSpectrum, Calling, Succeeds, Reaches, Becomes
  <2>2. pc' = "NextExposure" => server'.stateSubs = server.stateSubs
    BY <1>0, <2>1, CallEffect DEF Calls, Catch
  <2> QED
    BY <1>13, <2>1, <2>2 DEF ClearSpectrum, Catch, session, PathInv, StatusInv, SpectrumInv, SubscribedInv,
                            Subscribes, WakeUpOwed
<1>14. CASE NextExposure \/ WaitStop \/ Count
  BY <1>14 DEF NextExposure, WaitStop, Count, frame, session, remote, PathInv, StatusInv, SpectrumInv,
               SubscribedInv, Subscribes, WakeUpOwed
<1>15. CASE AcquisitionAsync
  <2>1. \/ /\ pc' = "WaitStop" /\ UNCHANGED <<status, session>>
           /\ server' = After(server, "AcquisitionAsync")
        \/ Catch
    BY <1>15 DEF AcquisitionAsync, CallingSpectrum, Calling, Succeeds, Reaches, Becomes
  <2>2. pc' = "WaitStop" => server'.stateSubs = server.stateSubs /\ server'.state = "Acquiring"
    BY <1>0, <2>1, CallEffect DEF Calls, Catch
  <2> QED
    BY <1>15, <2>1, <2>2 DEF AcquisitionAsync, Catch, session, PathInv, StatusInv, SpectrumInv, SubscribedInv,
                            Subscribes, WakeUpOwed
<1>16. CASE GetMeasuredSpectrum
  <2>1. \/ /\ pc' \in {"UnsubscribeState", "Report"} /\ UNCHANGED <<status, remote>>
           /\ pc' = "UnsubscribeState" <=> Finished(acquire, imageMode, numImagesCounter')
        \/ Catch
    BY <1>16 DEF GetMeasuredSpectrum, Succeeds, Reaches, Becomes, Announced, remote
  <2>2. UNCHANGED <<acquire, imageMode, session>> /\ acquire \in {0, 1}
    BY <1>16 DEF GetMeasuredSpectrum, TypeOK
  <2> QED
    BY <1>16, <2>1, <2>2 DEF GetMeasuredSpectrum, Catch, session, remote, PathInv, StatusInv, SpectrumInv,
               SubscribedInv, Subscribes, WakeUpOwed, Over, Continues, Finished
<1>17. CASE UnsubscribeState \/ UnsubscribeUpdate
  BY <1>17 DEF UnsubscribeState, UnsubscribeUpdate, Unsubscribing, frame, PathInv, StatusInv, SpectrumInv,
               SubscribedInv, WakeUpOwed, Over, Continues, Finished
<1>18. CASE FinishSpectrum
  BY <1>18 DEF FinishSpectrum, Catch, frame, PathInv, StatusInv, SpectrumInv,
               SubscribedInv, WakeUpOwed, Over, Continues, Finished
<1>19. CASE FinishMeasurement
  BY <1>19 DEF FinishMeasurement, Calling, Catch, frame, session, PathInv, StatusInv, SpectrumInv,
               SubscribedInv, WakeUpOwed, Over, Continues, Finished
<1>20. CASE Cleanup
  <2>1. pc \in Cleaning /\ pc' \in (Cleaning \ {"CleanState"}) \union {"Report"}
    BY <1>20 DEF Cleanup, CleanState, CleanUpdate, CleanQuery, CleanSpectrum, CleanMeasurement, Unsubscribing
  <2>2. status' = "error"
    BY <1>20 DEF Cleanup, CleanState, CleanUpdate, CleanQuery, CleanSpectrum, CleanMeasurement, Unsubscribing,
                 PathInv, StatusInv
  <2> QED
    BY <2>1, <2>2 DEF PathInv, StatusInv, SpectrumInv, SubscribedInv, WakeUpOwed, Continues
<1>21. CASE Report
  BY <1>21 DEF Report, ReportError, ReportAborted, ReportImage, Published, params, frame, session, remote, PathInv,
               StatusInv, SpectrumInv, SubscribedInv, Subscribes, WakeUpOwed, Over, Continues, Finished, TypeOK
<1>22. CASE EndFrame
  BY <1>22 DEF EndFrame, session, remote, PathInv,
               StatusInv, SpectrumInv, SubscribedInv, Subscribes, WakeUpOwed, Over, Continues, Finished, TypeOK
<1> QED
  BY <1>1, <1>2, <1>3, <1>4, <1>5, <1>6, <1>7, <1>8, <1>9, <1>10, <1>11, <1>12, <1>13, <1>14, <1>15,
     <1>16, <1>17, <1>18, <1>19, <1>20, <1>21, <1>22
     DEF Next, Task, Setup, Expose, Finish, Operator

\* The path and the session of a frame, in every environment.
LEMMA PathInvariant == Spec => []PathInv
<1>1. Init => PathInv
  BY DEF Init, PathInv, StatusInv, SpectrumInv, SubscribedInv, WakeUpOwed, SettingUp, Exposing,
         Finishing, Cleaning, Handing
<1>2. AsleepInv /\ PathInv /\ [Next]_vars => PathInv'
  BY PathInduction DEF AsleepInv
<1> QED
  BY <1>1, <1>2, AsleepInvariant, PTL DEF Spec

(* Whatever the operator does, whatever fails and however often a          *)
(* notification comes, the task that waits for the end of an exposure is   *)
(* owed its wake-up.                                                       *)
THEOREM WakeUpNeverLost == Spec => []WakeUpOwed
<1>1. PathInv => WakeUpOwed
  BY DEF PathInv
<1> QED
  BY <1>1, PathInvariant, PTL
=============================================================================
