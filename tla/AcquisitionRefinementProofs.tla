--------------------- MODULE AcquisitionRefinementProofs ---------------------
(***************************************************************************)
(* AcquisitionTask implements ImageAcquisition (its safety part) in a      *)
(* benign environment, whatever calls fail: theorems for every number of   *)
(* exposures and images, every mixture of image modes and every set of     *)
(* guids.                                                                  *)
(***************************************************************************)
EXTENDS AcquisitionRefinement, AcquisitionImageProofs

-----------------------------------------------------------------------------
(* What the refinement needs beyond IInv. *)

\* The server never accumulates more than the task asked for.
AskedInv ==
    /\ pc \in Exposing => server.exposures <= numExposuresCounter
    /\ pc = "AcquisitionAsync" => server.exposures < numExposuresCounter
    /\ pc = "WaitStop" /\ server.state = "Acquiring" =>
           server.exposures < numExposuresCounter

\* From the last exposure until it is published the image stays as it is.
WholeInv ==
    /\ pc = "Report" /\ status = "success" => server.state # "Acquiring"
    /\ pc \in Finishing \union {"Report"} /\ status = "success" /\ acquire = 1 =>
           server.exposures = NumExposures

\* The image is counted in the local variable first.
ImagesInv ==
    /\ pc \in SettingUp \union Exposing \union {"GetMeasuredSpectrum"} =>
           numImagesCounter = ADNumImagesCounter
    /\ pc \in (Finishing \ {"GetMeasuredSpectrum"}) \union {"Report"}
              /\ status = "success" /\ acquire = 1 =>
           numImagesCounter = Counted(ADNumImagesCounter)

RefInv == AskedInv /\ WholeInv /\ ImagesInv

(* RefInv is inductive, given IInv. *)
LEMMA RefInduction ==
    ASSUME Benign, IInv, IInv', RefInv, [Next]_vars
    PROVE  RefInv'
<1> USE NumExposuresAssumption, MaxImagesAssumption
    DEF Benign, IInv, AsleepInv, TypeOK, Servers, PathInv, StatusInv, FrameInv, ServerInv, ExposureInv, RefInv,
        AskedInv, WholeInv, ImagesInv, SettingUp, Exposing, Finishing, Handing, InFrame
<1>1. CASE GoToSleep
  BY <1>1 DEF GoToSleep
<1>2. CASE NextFrame
  BY <1>2 DEF NextFrame, SnapshotParameters
<1>3. CASE WakeUp
  BY <1>3 DEF WakeUp
<1>4. CASE Begin
  BY <1>4 DEF Begin, SnapshotParameters
<1>5. CASE GetState
  BY <1>5 DEF GetState, Catch, params, frame
<1>6. CASE DefineSpectrum
  BY <1>6 DEF DefineSpectrum, Catch, params, frame
<1>7. CASE StartMeasurement
  BY <1>7 DEF StartMeasurement, Calling, Catch, params, frame
<1>8. CASE SetupSpectrum
  BY <1>8 DEF SetupSpectrum, Calling, Catch, params, frame
<1>9. CASE SubscribeState
  BY <1>9 DEF SubscribeState, Subscribing, Catch, Subscribed, params, frame
<1>10. CASE RegisterState
  BY <1>10 DEF RegisterState, Registering, params, frame
<1>11. CASE SubscribeUpdate
  BY <1>11 DEF SubscribeUpdate, Subscribing, Catch, Subscribed, params, frame
<1>12. CASE RegisterUpdate
  BY <1>12 DEF RegisterUpdate, Registering, params, frame
<1>13. CASE ClearSpectrum
  <2>1. \/ pc' = "NextExposure" /\ server'.exposures = 0
        \/ pc' = "CleanState"
    BY <1>13, ClearStep DEF ClearSpectrum, CallingSpectrum, Calling, Catch
  <2>2. UNCHANGED <<params, frame>>
    BY <1>13 DEF ClearSpectrum, CallingSpectrum, Calling
  <2>3. QED
    BY <1>13, <2>1, <2>2 DEF ClearSpectrum, params, frame
<1>14. CASE NextExposure
  BY <1>14 DEF NextExposure, params, remote
<1>15. CASE AcquisitionAsync
  BY <1>15 DEF AcquisitionAsync, CallingSpectrum, Calling, Catch, Succeeds,
       Reaches, Becomes, After, params, frame
<1>16. CASE WaitStop
  BY <1>16 DEF WaitStop, params, frame, remote
<1>17. CASE Count
  BY <1>17 DEF Count
<1>18. CASE GetMeasuredSpectrum
  BY <1>18 DEF GetMeasuredSpectrum, Catch, Succeeds, Reaches, Becomes,
       Finished, Counted, params
<1>19. CASE UnsubscribeState
  BY <1>19 DEF UnsubscribeState, Unsubscribing, Succeeds, Reaches, Becomes,
       Unsubscribed, params, frame, remote
<1>20. CASE UnsubscribeUpdate
  BY <1>20 DEF UnsubscribeUpdate, Unsubscribing, Succeeds, Reaches, Becomes,
       Unsubscribed, params, frame, remote
<1>21. CASE FinishSpectrum
  BY <1>21 DEF FinishSpectrum, Catch, Succeeds, Reaches, Becomes, After,
       params, frame
<1>22. CASE FinishMeasurement
  BY <1>22 DEF FinishMeasurement, Calling, Catch, Succeeds, Reaches, Becomes,
       After, params, frame
<1>23. CASE CleanState
  BY <1>23 DEF CleanState, Unsubscribing, Unsubscribed
<1>24. CASE CleanUpdate
  BY <1>24 DEF CleanUpdate, Unsubscribing, Unsubscribed
<1>25. CASE CleanQuery
  BY <1>25 DEF CleanQuery, Cleaning
<1>26. CASE CleanSpectrum
  BY <1>26 DEF CleanSpectrum, Cleaning
<1>27. CASE CleanMeasurement
  BY <1>27 DEF CleanMeasurement, Cleaning
<1>28. CASE ReportError
  BY <1>28 DEF ReportError
<1>29. CASE ReportAborted
  BY <1>29 DEF ReportAborted
<1>30. CASE ReportImage
  BY <1>30 DEF ReportImage
<1>31. CASE Published
  BY <1>31 DEF Published
<1>32. CASE EndFrame
  BY <1>32 DEF EndFrame, Finished
<1>33. CASE Start
  BY <1>33 DEF Start
<1>34. CASE Stop
  BY <1>34 DEF Stop, local, frame, remote
<1>35. CASE CancelAcquisition
  <2>1. /\ server'.exposures = server.exposures
        /\ server'.state = "Acquiring" => server.state = "Acquiring"
    BY <1>35 DEF CancelAcquisition, Succeeds, Throws, Reaches, Becomes, After,
         remote
  <2>2. UNCHANGED <<params, local>>
    BY <1>35 DEF CancelAcquisition
  <2>3. QED
    BY <2>1, <2>2 DEF params, local, frame
<1>36. CASE WriteImageMode
  BY <1>36 DEF WriteImageMode, local, frame, remote
<1>37. CASE ServerCompletes
  BY <1>37 DEF ServerCompletes, driver, local, Becomes, Completed, params,
       frame
<1>38. CASE ServerFails
  BY <1>38 DEF ServerFails
<1>39. CASE ServerRecovers
  BY <1>39 DEF ServerRecovers, Recovered, SessionInv
<1>40. ASSUME NEW m \in notes, StateChanged(m)
      PROVE  RefInv'
  BY <1>40 DEF StateChanged, driver, local, params, frame
<1>41. CASE UNCHANGED vars
  BY <1>41 DEF vars, params, frame, remote
<1>42. QED
  BY <1>1, <1>2, <1>3, <1>4, <1>5, <1>6, <1>7, <1>8, <1>9, <1>10, <1>11,
       <1>12, <1>13, <1>14, <1>15, <1>16, <1>17, <1>18, <1>19, <1>20, <1>21,
       <1>22, <1>23, <1>24, <1>25, <1>26, <1>27, <1>28, <1>29, <1>30, <1>31,
       <1>32, <1>33, <1>34, <1>35, <1>36, <1>37, <1>38, <1>39, <1>40, <1>41
       DEF Next, Task, Operator, Server, Setup, Expose, Finish, Cleanup,
       Report

\* What leaves the task and the accumulated exposures alone is not seen.
LEMMA Unseen ==
    ASSUME UNCHANGED <<pc, status, spectrum, ADNumImagesCounter>>,
           server'.exposures = server.exposures,
           pc = "Top" => ADAcquire' = ADAcquire
    PROVE  UNCHANGED Images!vars
BY DEF Images!vars, Ended, phaseBar, takenBar, contentBar, Accumulating

\* Nor are the operator, an abort, a notification, or nothing at all.
LEMMA AsideUnseen ==
    ASSUME TypeOK, LockInv,
           \/ Start \/ Stop \/ WriteImageMode \/ CancelAcquisition
           \/ \E m \in notes : StateChanged(m)
           \/ UNCHANGED vars
    PROVE  UNCHANGED Images!vars
<1>1. UNCHANGED <<pc, status, spectrum, ADNumImagesCounter>>
  BY DEF Start, Stop, WriteImageMode, CancelAcquisition, StateChanged, vars, driver,
         local, params, frame
<1>2. server'.exposures = server.exposures
  <2>1. CASE CancelAcquisition
    <3>1. \/ server' = server
          \/ server' = [server EXCEPT !.state = "Measuring", !.cut = 1]
      BY <2>1, CancelStep DEF remote
    <3>2. QED
      BY <3>1 DEF TypeOK, Servers
  <2>2. CASE ~CancelAcquisition
    BY <2>2 DEF Start, Stop, WriteImageMode, StateChanged, vars, remote
  <2>3. QED
    BY <2>1, <2>2
<1>3. pc = "Top" => ADAcquire' = ADAcquire
  BY DEF LockInv, Start, Stop, WriteImageMode, CancelAcquisition, StateChanged, vars,
         driver, params
<1>4. QED
  BY <1>1, <1>2, <1>3, Unseen

\* The end of doCallbacksGenericPointer.
LEMMA PublishedUnseen ==
    ASSUME Published
    PROVE  UNCHANGED Images!vars
BY DEF Published, params, frame, Images!vars, Ended, phaseBar, takenBar, contentBar

\* A step of the task or of the server is a step of ImageAcquisition, or none.
LEMMA TaskRefines ==
    ASSUME Benign, IInv, IInv', RefInv, Task \/ Server
    PROVE  [Images!Next]_(Images!vars)
<1> USE NumExposuresAssumption, MaxImagesAssumption
    DEF Benign, IInv, AsleepInv, TypeOK, Servers, LockInv, PathInv, StatusInv, FrameInv, ServerInv,
        ExposureInv, RefInv, AskedInv, WholeInv, ImagesInv, SettingUp, Exposing, Finishing, Handing, InFrame,
        Images!Next, Images!Begin, Images!Expose, Images!Publish, Images!Continue,
        Images!End, Images!vars, Ended, phaseBar, takenBar, contentBar, Accumulating
<1>1. CASE GoToSleep
  BY <1>1 DEF GoToSleep, params
<1>2. CASE NextFrame
  BY <1>2 DEF NextFrame, SnapshotParameters
<1>3. CASE WakeUp
  BY <1>3 DEF WakeUp, params
<1>4. CASE Begin
  BY <1>4 DEF Begin, SnapshotParameters
<1>5. CASE GetState
  BY <1>5 DEF GetState, Catch, params
<1>6. CASE DefineSpectrum
  BY <1>6 DEF DefineSpectrum, Catch, params
<1>7. CASE StartMeasurement
  BY <1>7 DEF StartMeasurement, Calling, Catch, params
<1>8. CASE SetupSpectrum
  BY <1>8 DEF SetupSpectrum, Calling, Catch, params
<1>9. CASE SubscribeState
  BY <1>9 DEF SubscribeState, Subscribing, Catch, Subscribed, params
<1>10. CASE RegisterState
  BY <1>10 DEF RegisterState, Registering, params
<1>11. CASE SubscribeUpdate
  BY <1>11 DEF SubscribeUpdate, Subscribing, Catch, Subscribed, params
<1>12. CASE RegisterUpdate
  BY <1>12 DEF RegisterUpdate, Registering, params
<1>13. CASE ClearSpectrum
  BY <1>13, ClearStep DEF ClearSpectrum, CallingSpectrum, Calling, Catch, params
<1>14. CASE NextExposure
  BY <1>14 DEF NextExposure, params, remote
<1>15. CASE AcquisitionAsync
  BY <1>15 DEF AcquisitionAsync, CallingSpectrum, Calling, Catch, Succeeds,
       Reaches, Becomes, After, params
<1>16. CASE WaitStop
  BY <1>16 DEF WaitStop, params, remote
<1>17. CASE Count
  BY <1>17 DEF Count, remote
<1>18. CASE GetMeasuredSpectrum
  BY <1>18 DEF GetMeasuredSpectrum, Catch, Succeeds, Reaches, Becomes,
       Finished, Counted, params
<1>19. CASE UnsubscribeState
  BY <1>19 DEF UnsubscribeState, Unsubscribing, Succeeds, Reaches, Becomes,
       Unsubscribed, params, remote
<1>20. CASE UnsubscribeUpdate
  BY <1>20 DEF UnsubscribeUpdate, Unsubscribing, Succeeds, Reaches, Becomes,
       Unsubscribed, params, remote
<1>21. CASE FinishSpectrum
  BY <1>21 DEF FinishSpectrum, Catch, Succeeds, Reaches, Becomes, After,
       params
<1>22. CASE FinishMeasurement
  BY <1>22 DEF FinishMeasurement, Calling, Catch, Succeeds, Reaches, Becomes,
       After, params
<1>23. CASE CleanState
  BY <1>23 DEF CleanState, Unsubscribing, Unsubscribed, params
<1>24. CASE CleanUpdate
  BY <1>24 DEF CleanUpdate, Unsubscribing, Unsubscribed, params
<1>25. CASE CleanQuery
  BY <1>25 DEF CleanQuery, params, Cleaning
<1>26. CASE CleanSpectrum
  BY <1>26 DEF CleanSpectrum, params, Cleaning
<1>27. CASE CleanMeasurement
  BY <1>27 DEF CleanMeasurement, params, Cleaning
<1>28. CASE ReportError
  BY <1>28 DEF ReportError
<1>29. CASE ReportAborted
  BY <1>29 DEF ReportAborted
<1>30. CASE ReportImage
  BY <1>30 DEF ReportImage, Counted
<1>31. CASE Published
  BY <1>31, PublishedUnseen
<1>32. CASE EndFrame
  BY <1>32 DEF EndFrame, Finished
<1>33. CASE ServerCompletes
  <2>1. UNCHANGED <<pc, status, acquire, spectrum, ADAcquire, ADStatus, ADNumImagesCounter>>
    BY <1>33 DEF ServerCompletes, driver, local, params, frame
  <2>2. server.state = "Acquiring" /\ server'.exposures = server.exposures + 1
    BY <1>33 DEF ServerCompletes, Becomes, Completed
  <2>3. QED
    BY <2>1, <2>2
<1>34. CASE ServerFails
  BY <1>34 DEF ServerFails
<1>35. CASE ServerRecovers
  BY <1>35 DEF ServerRecovers, Recovered, SessionInv
<1>36. QED
  BY <1>1, <1>2, <1>3, <1>4, <1>5, <1>6, <1>7, <1>8, <1>9, <1>10, <1>11,
       <1>12, <1>13, <1>14, <1>15, <1>16, <1>17, <1>18, <1>19, <1>20, <1>21,
       <1>22, <1>23, <1>24, <1>25, <1>26, <1>27, <1>28, <1>29, <1>30, <1>31,
       <1>32, <1>33, <1>34, <1>35
       DEF Task, Server, Setup, Expose, Finish, Cleanup, Report

(* Every step is a step of ImageAcquisition, or none. *)
LEMMA StepRefines ==
    ASSUME Benign, IInv, IInv', RefInv, [Next]_vars
    PROVE  [Images!Next]_(Images!vars)
<1>1. CASE Task \/ Server
  BY <1>1, TaskRefines
<1>2. CASE ~(Task \/ Server)
  <2>1. TypeOK /\ LockInv
    BY DEF IInv, AsleepInv
  <2>2. UNCHANGED Images!vars
    BY <1>2, <2>1, AsideUnseen DEF Next, Operator
  <2>3. QED
    BY <2>2
<1>3. QED
  BY <1>1, <1>2

(* The acquisition implements ImageAcquisition: seen at ADNumImagesCounter, *)
(* the published images and the exposures of the server, an image is       *)
(* published after exactly NumExposures exposures, and counted once.  Its  *)
(* data are the counts, unless the GET of the data may fail: then it may   *)
(* be blank, and is counted all the same.                                  *)
THEOREM AcquisitionImplementsImages ==
    ASSUME Benign
    PROVE  Spec => ImplementsImages
<1>1. Init => RefInv
  BY DEF Init, RefInv, AskedInv, WholeInv, ImagesInv, SettingUp, Exposing,
       Finishing
<1>2. Init => Images!Init
  BY DEF Init, Images!Init, Ended, phaseBar, takenBar, contentBar
<1>3. IInv /\ IInv' /\ RefInv /\ [Next]_vars => RefInv'
  BY RefInduction
<1>4. IInv /\ IInv' /\ RefInv /\ [Next]_vars => [Images!Next]_(Images!vars)
  BY StepRefines
<1>5. Spec => []IInv
  BY ImageInvariant
<1>6. QED
  BY <1>1, <1>2, <1>3, <1>4, <1>5, PTL DEF Spec, ImplementsImages,
       Images!SafeSpec
=============================================================================
