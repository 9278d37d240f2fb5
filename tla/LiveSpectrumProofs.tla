------------------------- MODULE LiveSpectrumProofs -------------------------
(***************************************************************************)
(* Theorems about the live spectrum, for any number of images, exposures   *)
(* and steps, and any estimate of the steps.                               *)
(***************************************************************************)
EXTENDS LiveSpectrum, TLAPS

-----------------------------------------------------------------------------
(* The inductive invariant.  The notifier works through one exposure at a      *)
(* time: what the task waits for is the last of its notifications, so that     *)
(* all before it have been counted when the task goes on.                      *)

\* Where the task is in a frame.
FrameInv ==
    /\ pc # "Top" \/ ADAcquire = 1 => ADStatus = "Acquire" /\ ADNumImagesCounter < NumImages
    /\ pc = "NextExposure" => numExposuresCounter <= NumExposures
    /\ pc \in {"Start", "WaitStop", "Count"} => numExposuresCounter \in 1 .. NumExposures
    /\ pc = "Start" => numStepsCounter = 0

\* The steps counted, with the one that is going to be.
Base == IF nPc = "count" THEN numStepsCounter + 1 ELSE numStepsCounter

\* The updates among the first k notifications: one at most is none.
NumUpdates(s, k) == IF \E j \in 1 .. k : s[j] = Null THEN k - 1 ELSE k

Resting == inbox = <<>> /\ nPc = "idle" /\ acquired = -1

Running ==
    /\ acquired >= 0 /\ stopEvent = "empty"
    /\ \A i \in 1 .. Len(inbox) : inbox[i] # Measuring
    /\ acquired = Base + NumUpdates(inbox, Len(inbox))

Ended ==
    /\ acquired = -1 /\ stopEvent = "empty"
    /\ Len(inbox) > 0
    /\ \A i \in 1 .. Len(inbox) : inbox[i] = Measuring <=> i = Len(inbox)
    /\ ADAcquire = 1 => ActualSteps = Base + NumUpdates(inbox, Len(inbox) - 1)

Signalled ==
    /\ Resting /\ stopEvent = "full"
    /\ ADAcquire = 1 => numStepsCounter = ActualSteps

PhaseInv ==
    /\ pc # "WaitStop" => Resting /\ stopEvent = "empty"
    /\ pc = "WaitStop" => Running \/ Ended \/ Signalled

PointOf(n) == [image |-> ADNumImagesCounter, exposure |-> numExposuresCounter, step |-> n]

\* The updates under way continue the count.
OrderInv ==
    /\ \A i, j \in 1 .. Len(inbox) : inbox[i] = Null /\ inbox[j] = Null => i = j
    /\ \A i \in 1 .. Len(inbox) :
          inbox[i].type = "update" => inbox[i].point = PointOf(Base + NumUpdates(inbox, i))

\* The update is the one last counted.
CountInv ==
    /\ nPc # "idle" => update = PointOf(Base)
    /\ pc = "WaitStop" /\ Base > 0 => update = PointOf(Base)
    /\ pc = "Count" /\ ADAcquire = 1 => numStepsCounter = ActualSteps /\ update = PointOf(ActualSteps)
    /\ pc = "NextExposure" /\ numExposuresCounter > 0 => update = PointOf(ActualSteps)
    /\ pc = "Publish" =>
         update = [image |-> ADNumImagesCounter, exposure |-> NumExposures, step |-> ActualSteps]
    /\ ADStatus = "Idle" /\ ADNumImagesCounter = NumImages => pc = "Top" /\ update = LastPoint

LiveInv == FrameInv /\ PhaseInv /\ OrderInv /\ CountInv

\* The last point of the acquisition has come, and numSteps was right.
LastCame ==
    /\ numSteps = ActualSteps /\ update = LastPoint
    /\ \/ pc = "WaitStop" /\ Base > 0
       \/ pc = "Count" /\ ADAcquire = 1
       \/ pc = "NextExposure" /\ numExposuresCounter > 0
       \/ pc = "Publish"
       \/ pc = "Top" /\ ADStatus = "Idle" /\ ADNumImagesCounter = NumImages

\* It has reached the operator, or was read and its data were lost.
Presented == LastPoint \in {shown, lost}

\* It is on its way to the operator.
ViewInv ==
    LastCame =>
        /\ nPc = "flag" => m_SpectrumLive.point = LastPoint
        /\ nPc \in {"trigger", "idle"} =>
             m_SpectrumLive = [point |-> LastPoint, IsLast |-> "true"]
        /\ nPc = "idle" =>
             \/ spectrumEvent = "full"
             \/ sPc \in {"test", "read", "dead"}
             \/ sPc = "show" /\ read = LastPoint
             \/ sPc = "wait" /\ Presented

\* What is shown of the progress is that of the last step counted.
ProgressInv ==
    pc = "WaitStop" /\ numStepsCounter > 0 => AcqProgress = Progress(numStepsCounter)

-----------------------------------------------------------------------------
(* Notifications.                                                              *)
Messages == {Null, Measuring} \union {Update(p) : p \in Points}

LEMMA MessageTypes ==
    /\ \A m \in Messages : m = Null <=> m.type = "null"
    /\ \A m \in Messages : m = Measuring <=> m.type = "Measuring"
    /\ \A m \in Messages : m.type = "update" => m.point \in Points
    /\ \A m \in Messages : m.type \in {"null", "Measuring", "update"}
    /\ \A p \in Points : /\ Update(p) \in Messages
                         /\ Update(p).type = "update" /\ Update(p).point = p
    /\ Null \in Messages /\ Null.type = "null"
    /\ Measuring \in Messages /\ Measuring.type = "Measuring"
  <1>1. Null.type = "null" /\ Measuring.type = "Measuring"
    BY DEF Null, Measuring
  <1>2. \A p : Update(p).type = "update" /\ Update(p).point = p
    BY DEF Update
  <1>3. \A m \in Messages : m = Null \/ m = Measuring \/ \E p \in Points : m = Update(p)
    BY DEF Messages
  <1>4. Null \in Messages /\ Measuring \in Messages /\ \A p \in Points : Update(p) \in Messages
    BY DEF Messages
  <1>5. ASSUME NEW m \in Messages
        PROVE  /\ m = Null <=> m.type = "null"
               /\ m = Measuring <=> m.type = "Measuring"
               /\ m.type = "update" => m.point \in Points
               /\ m.type \in {"null", "Measuring", "update"}
    BY <1>1, <1>2, <1>3
  <1> QED  BY <1>1, <1>2, <1>4, <1>5

LEMMA Appended ==
    ASSUME NEW s \in Seq(Messages), NEW m \in Messages
    PROVE  /\ Append(s, m) \in Seq(Messages) /\ Len(Append(s, m)) = Len(s) + 1
           /\ Len(s) \in Nat
           /\ \A i \in 1 .. Len(s) : Append(s, m)[i] = s[i]
           /\ Append(s, m)[Len(s) + 1] = m
           /\ \A i \in 1 .. Len(s) + 1 : i \in 1 .. Len(s) \/ i = Len(s) + 1
           /\ \A k \in 0 .. Len(s) : NumUpdates(Append(s, m), k) = NumUpdates(s, k)
  <1>1. /\ Append(s, m) \in Seq(Messages) /\ Len(Append(s, m)) = Len(s) + 1
        /\ Len(s) \in Nat
        /\ \A i \in 1 .. Len(s) : Append(s, m)[i] = s[i]
        /\ Append(s, m)[Len(s) + 1] = m
    OBVIOUS
  <1>2. \A i \in 1 .. Len(s) + 1 : i \in 1 .. Len(s) \/ i = Len(s) + 1
    BY <1>1
  <1>3. ASSUME NEW k \in 0 .. Len(s)
        PROVE  NumUpdates(Append(s, m), k) = NumUpdates(s, k)
    <2>1. \A j \in 1 .. k : Append(s, m)[j] = s[j]
      BY <1>1
    <2> QED  BY <2>1 DEF NumUpdates
  <1> QED  BY <1>1, <1>2, <1>3

LEMMA Taken ==
    ASSUME NEW s \in Seq(Messages), s # <<>>,
           \A i, j \in 1 .. Len(s) : s[i] = Null /\ s[j] = Null => i = j
    PROVE  /\ Head(s) = s[1] /\ Head(s) \in Messages /\ Len(s) \in Nat /\ Len(s) > 0
           /\ Tail(s) \in Seq(Messages) /\ Len(Tail(s)) = Len(s) - 1
           /\ \A i \in 1 .. Len(s) - 1 : Tail(s)[i] = s[i + 1] /\ i + 1 \in 1 .. Len(s)
           /\ \A k \in 0 .. Len(s) - 1 :
                 NumUpdates(Tail(s), k) = IF Head(s) = Null THEN NumUpdates(s, k + 1)
                                          ELSE NumUpdates(s, k + 1) - 1
  <1>1. /\ Head(s) = s[1] /\ Head(s) \in Messages /\ Len(s) \in Nat /\ Len(s) > 0
        /\ Tail(s) \in Seq(Messages) /\ Len(Tail(s)) = Len(s) - 1
        /\ \A i \in 1 .. Len(s) - 1 : Tail(s)[i] = s[i + 1] /\ i + 1 \in 1 .. Len(s)
    OBVIOUS
  <1>2. ASSUME NEW k \in 0 .. Len(s) - 1
        PROVE  NumUpdates(Tail(s), k) = IF Head(s) = Null THEN NumUpdates(s, k + 1)
                                        ELSE NumUpdates(s, k + 1) - 1
    <2>0. 1 \in 1 .. k + 1 /\ 1 \in 1 .. Len(s) /\ k \in Nat /\ k + 1 <= Len(s)
      BY <1>1
    <2>1. CASE s[1] = Null
      <3>1. \A j \in 1 .. k : Tail(s)[j] # Null
        BY <1>1, <2>0, <2>1
      <3>2. NumUpdates(Tail(s), k) = k
        BY <3>1 DEF NumUpdates
      <3>3. NumUpdates(s, k + 1) = k + 1 - 1
        BY <2>0, <2>1 DEF NumUpdates
      <3> QED  BY <1>1, <2>0, <2>1, <3>2, <3>3
    <2>2. CASE s[1] # Null
      <3>1. (\E j \in 1 .. k : Tail(s)[j] = Null) <=> (\E j \in 1 .. k + 1 : s[j] = Null)
        <4>1. ASSUME NEW j \in 1 .. k, Tail(s)[j] = Null
              PROVE  \E i \in 1 .. k + 1 : s[i] = Null
          <5>1. j + 1 \in 1 .. k + 1 /\ s[j + 1] = Null
            BY <1>1, <2>0, <4>1
          <5> QED  BY <5>1
        <4>2. ASSUME NEW j \in 1 .. k + 1, s[j] = Null
              PROVE  \E i \in 1 .. k : Tail(s)[i] = Null
          <5>1. j - 1 \in 1 .. k /\ Tail(s)[j - 1] = s[j]
            BY <1>1, <2>0, <2>2, <4>2
          <5> QED  BY <4>2, <5>1
        <4> QED  BY <4>1, <4>2
      <3>2. CASE \E j \in 1 .. k : Tail(s)[j] = Null
        <4>1. NumUpdates(Tail(s), k) = k - 1 /\ NumUpdates(s, k + 1) = k + 1 - 1
          BY <3>1, <3>2 DEF NumUpdates
        <4> QED  BY <1>1, <2>0, <2>2, <4>1
      <3>3. CASE ~\E j \in 1 .. k : Tail(s)[j] = Null
        <4>1. NumUpdates(Tail(s), k) = k /\ NumUpdates(s, k + 1) = k + 1
          BY <3>1, <3>3 DEF NumUpdates
        <4> QED  BY <1>1, <2>0, <2>2, <4>1
      <3> QED  BY <3>2, <3>3
    <2> QED  BY <2>1, <2>2
  <1> QED  BY <1>1, <1>2

-----------------------------------------------------------------------------
(* Types.                                                                      *)

\* The progress is a number: a division by what is above zero.
LEMMA ProgressType ==
    ASSUME TypeOK, NEW n \in Nat
    PROVE  Progress(n) \in Nat
  <1>1. /\ numSteps \in Nat \ {0} /\ NumExposures \in Nat \ {0} /\ numExposuresCounter \in Nat
    BY CountsAssumption DEF TypeOK
  <1>2. numSteps * NumExposures \in Nat \ {0} /\ 100 * n * numExposuresCounter \in Nat
    BY <1>1
  <1>3. \A x \in Nat, y \in Nat \ {0} : x \div y \in Nat
    OBVIOUS
  <1> QED  BY <1>2, <1>3 DEF Progress

LEMMA CountTypes ==
    ASSUME TypeOK, LiveInv, CountStep
    PROVE  TypeOK'
  <1>1. numStepsCounter + 1 \in 0 .. ActualSteps
    <2>1. update = PointOf(numStepsCounter + 1)
      BY DEF LiveInv, CountInv, CountStep, Base
    <2>2. update.step \in 0 .. ActualSteps
      <3>1. update \in Points \union {NoPoint} /\ ActualSteps \in Nat
        BY CountsAssumption DEF TypeOK
      <3> QED  BY <3>1 DEF Points, NoPoint
    <2> QED  BY <2>1, <2>2 DEF PointOf
  <1>2. AcqProgress' \in Nat
    BY <1>1, ProgressType DEF CountStep
  <1> QED
    BY <1>1, <1>2 DEF TypeOK, CountStep, remote, live, viewer

LEMMA TypesStep ==
    ASSUME TypeOK, LiveInv, [Next]_vars
    PROVE  TypeOK'
  <1>0. {NumExposures, NumImages, ActualSteps, EstimatedSteps, MaxInbox} \subseteq Nat \ {0}
    BY CountsAssumption
  <1>1. CASE UNCHANGED vars
    BY <1>1 DEF TypeOK, vars, params, locals, remote, notifier, live, viewer
  <1>2. CASE Task
    <2>1. CASE Begin
      BY <1>0, <2>1 DEF Begin, Snapshot, TypeOK, remote, notifier, live, viewer
    <2>7. CASE NextFrame
      BY <1>0, <2>7 DEF NextFrame, Snapshot, TypeOK, params, remote, notifier, live, viewer
    <2>2. CASE NextExposure
      BY <1>0, <2>2 DEF NextExposure, TypeOK, LiveInv, FrameInv, params, remote, notifier, live, viewer
    <2>3. CASE Start
      BY <1>0, <2>3 DEF Start, TypeOK, params, locals, notifier, live, viewer
    <2>5. CASE WaitStop
      BY <2>5 DEF WaitStop, TypeOK, params, locals, remote, notifier, live, viewer
    <2>6. CASE Count
      BY <2>6 DEF Count, TypeOK, locals, remote, notifier, live, viewer
    <2>4. CASE Publish
      BY <1>0, <2>4 DEF Publish, TypeOK, LiveInv, FrameInv, locals, remote, notifier, live, viewer
    <2> QED  BY <1>2, <2>1, <2>2, <2>3, <2>4, <2>5, <2>6, <2>7 DEF Task
  <1>3. CASE Operator
    <2>1. inbox' \in Seq(Messages)
      <3>1. inbox \in Seq(Messages)
        BY DEF TypeOK, Messages
      <3>2. inbox' = inbox \/ inbox' = Append(inbox, Measuring)
        BY <1>3 DEF Operator, Stop, Estimate, remote
      <3> QED  BY <3>1, <3>2, MessageTypes, Appended
    <2>2. CASE Stop
      <3>1. UNCHANGED <<ADStatus, ADNumImagesCounter, AcqNumSteps, AcqNumStepsCounter, AcqProgress,
                        pc, locals, stopEvent, notifier, live, viewer>>
            /\ ADAcquire' = 0 /\ acquired' \in {acquired, -1}
        BY <2>2 DEF Stop, remote
      <3> QED
        BY <1>0, <2>1, <3>1 DEF TypeOK, locals, notifier, live, viewer, Messages
    <2>3. CASE Estimate
      BY <1>0, <2>3 DEF Estimate, TypeOK, locals, remote, notifier, live, viewer
    <2> QED  BY <1>3, <2>2, <2>3 DEF Operator
  <1>4. CASE Server
    <2>1. ServerStep => Here \in Points
      BY <1>0 DEF ServerStep, Here, Points, TypeOK, LiveInv, FrameInv, PhaseInv, Resting
    <2>2. inbox' \in Seq(Messages)
      <3>1. \E m \in Messages : inbox' = Append(inbox, m)
        BY <1>4, <2>1, MessageTypes DEF Server, ServerStep, ServerNull, ServerCompletes
      <3>2. inbox \in Seq(Messages)
        BY DEF TypeOK, Messages
      <3> QED  BY <3>1, <3>2, Appended
    <2>3. acquired' \in -1 .. ActualSteps
      <3>1. acquired \in -1 .. ActualSteps /\ ActualSteps \in Nat
        BY <1>0 DEF TypeOK
      <3>2. \/ acquired \in 0 .. ActualSteps - 1 /\ acquired' = acquired + 1
            \/ acquired' \in {acquired, -1}
        BY <1>4 DEF Server, ServerStep, ServerNull, ServerCompletes
      <3> QED  BY <3>1, <3>2
    <2>4. UNCHANGED <<params, pc, locals, stopEvent, notifier, live, viewer>>
      BY <1>4 DEF Server, ServerStep, ServerNull, ServerCompletes
    <2> QED
      BY <2>2, <2>3, <2>4 DEF TypeOK, params, locals, notifier, live, viewer, Messages
  <1>5. CASE Notified
    <2>1. Head(inbox) \in Messages /\ Tail(inbox) \in Seq(Messages)
      BY <1>5, Taken DEF Notified, TypeOK, Messages, LiveInv, OrderInv
    <2>2. update' \in Points \union {NoPoint}
      BY <1>5, <2>1, MessageTypes DEF Notified, TypeOK, notifier
    <2> QED
      BY <1>5, <2>1, <2>2
         DEF Notified, TypeOK, params, locals, notifier, live, viewer, Messages
  <1>6. CASE StoreSpectrum \/ FlagLast \/ Trigger
    BY <1>6 DEF StoreSpectrum, FlagLast, Trigger, TypeOK, params, locals, remote, viewer
  <1>7. CASE Viewer
    <2>1. /\ UNCHANGED <<params, pc, locals, stopEvent, remote, notifier, m_SpectrumLive>>
          /\ spectrumEvent' \in {spectrumEvent, "empty"}
      BY <1>7 DEF Viewer, WaitUpdate, Throttle, ReadSpectrum, ShowSpectrum, LoseSpectrum, live
    <2>2. /\ sPc' \in {"wait", "test", "read", "show", "dead"}
          /\ read' \in Points \union {NoPoint}
          /\ lost' \in Points \union {NoPoint}
          /\ shown' \in Points \union {NoPoint, Torn, Blank}
      <3>1. /\ sPc \in {"wait", "test", "read", "show", "dead"}
            /\ {read, lost, m_SpectrumLive.point} \subseteq Points \union {NoPoint}
            /\ shown \in Points \union {NoPoint, Torn, Blank}
            /\ m_SpectrumLive.IsLast \in {"missing", "false", "true"}
        BY DEF TypeOK
      <3>2. CASE WaitUpdate
        BY <3>1, <3>2 DEF WaitUpdate
      <3>3. CASE Throttle
        BY <3>1, <3>3 DEF Throttle
      <3>4. CASE ReadSpectrum
        BY <3>1, <3>4 DEF ReadSpectrum
      <3>5. CASE ShowSpectrum
        BY <3>1, <3>5 DEF ShowSpectrum
      <3>6. CASE LoseSpectrum
        BY <3>1, <3>6 DEF LoseSpectrum
      <3> QED  BY <1>7, <3>2, <3>3, <3>4, <3>5, <3>6 DEF Viewer
    <2> QED  BY <2>1, <2>2 DEF TypeOK, params, locals, remote, notifier
  <1> QED  BY <1>1, <1>2, <1>3, <1>4, <1>5, <1>6, <1>7, CountTypes DEF Next, Notifier

-----------------------------------------------------------------------------
(* The invariant, action by action.                                            *)

\* Steps of the operator's screen and writes to settings leave it as it is.
LEMMA AsideStep ==
    ASSUME LiveInv, UNCHANGED <<ADAcquire, ADStatus, ADNumImagesCounter, pc, numStepsCounter,
                                numExposuresCounter, stopEvent, remote, notifier>>
    PROVE  LiveInv'
  <1>1. (Base' = Base) /\ (\A n : PointOf(n)' = PointOf(n)) /\ UNCHANGED <<acquired, inbox, nPc, update>>
    BY DEF Base, PointOf, remote, notifier
  <1>2. FrameInv'
    BY DEF LiveInv, FrameInv
  <1>3. PhaseInv'
    BY <1>1 DEF LiveInv, PhaseInv, Resting, Running, Ended, Signalled
  <1>4. OrderInv' /\ CountInv'
    BY <1>1 DEF LiveInv, OrderInv, CountInv
  <1> QED  BY <1>2, <1>3, <1>4 DEF LiveInv

\* Outside the wait nothing is under way.
LEMMA TaskStep ==
    ASSUME TypeOK, LiveInv, Task
    PROVE  LiveInv'
  <1>0. /\ {NumExposures, NumImages, ActualSteps} \subseteq Nat \ {0}
        /\ {ADNumImagesCounter, numExposuresCounter, numStepsCounter} \subseteq Nat
    BY CountsAssumption DEF TypeOK
  <1>1. FrameInv'
    <2>1. CASE Begin \/ NextFrame
      BY <1>0, <2>1 DEF LiveInv, FrameInv, Begin, NextFrame, Snapshot, params
    <2>2. CASE NextExposure
      BY <1>0, <2>2 DEF LiveInv, FrameInv, NextExposure, params
    <2>3. CASE Start \/ WaitStop
      BY <2>3 DEF LiveInv, FrameInv, Start, WaitStop, params, locals
    <2>4. CASE Count
      BY <2>4 DEF TypeOK, LiveInv, FrameInv, Count, locals
    <2>5. CASE Publish
      BY <1>0, <2>5 DEF TypeOK, LiveInv, FrameInv, Publish, locals
    <2> QED  BY <2>1, <2>2, <2>3, <2>4, <2>5 DEF Task
  <1>2. Resting
    BY DEF TypeOK, LiveInv, PhaseInv, Task, Begin, NextFrame, NextExposure, Start, WaitStop, Count,
           Publish, Running, Ended, Signalled
  <1>3. UNCHANGED <<inbox, notifier>>
    BY DEF Task, Begin, NextFrame, NextExposure, Start, WaitStop, Count, Publish, remote
  <1>4. OrderInv'
    BY <1>2, <1>3 DEF OrderInv, Resting
  <1>5. PhaseInv'
    <2>1. CASE Start
      <3>1. inbox' = <<>> /\ nPc' = "idle" /\ numStepsCounter' = 0 /\ acquired' = 0 /\ stopEvent' = "empty"
        BY <1>2, <1>3, <2>1 DEF LiveInv, FrameInv, PhaseInv, Start, Resting, locals, notifier
      <3>2. Base' + NumUpdates(inbox', Len(inbox')) = 0
        BY <3>1 DEF Base, NumUpdates
      <3>3. Running'
        BY <3>1, <3>2 DEF Running
      <3> QED  BY <2>1, <3>3 DEF PhaseInv, Start
    <2>2. CASE ~Start
      <3>1. pc' # "WaitStop" /\ stopEvent' = "empty" /\ acquired' = acquired
        BY <2>2 DEF LiveInv, PhaseInv, Task, Begin, NextFrame, Snapshot, NextExposure, WaitStop, Count,
                    Publish, remote
      <3> QED  BY <1>2, <1>3, <3>1 DEF PhaseInv, Resting, notifier
    <2> QED  BY <2>1, <2>2
  <1>6. CountInv'
    <2>1. nPc' = "idle" /\ update' = update /\ Base' = numStepsCounter'
      BY <1>2, <1>3 DEF Resting, notifier, Base
    <2>2. CASE Begin \/ NextFrame
      BY <1>0, <2>1, <2>2 DEF CountInv, Begin, NextFrame, Snapshot, LiveInv, FrameInv, params
    <2>3. CASE NextExposure
      <3>1. UNCHANGED <<ADNumImagesCounter, ADStatus>> /\ ADStatus = "Acquire"
        BY <2>3 DEF NextExposure, LiveInv, FrameInv, params
      <3>2. CASE numExposuresCounter < NumExposures
        BY <1>0, <2>1, <2>3, <3>1, <3>2 DEF CountInv, NextExposure
      <3>3. CASE ~(numExposuresCounter < NumExposures)
        <4>1. numExposuresCounter = NumExposures /\ numExposuresCounter > 0 /\ pc' = "Publish"
          BY <1>0, <2>3, <3>3 DEF NextExposure, LiveInv, FrameInv
        <4> QED  BY <2>1, <2>3, <3>1, <4>1 DEF CountInv, NextExposure, LiveInv, PointOf
      <3> QED  BY <3>2, <3>3
    <2>4. CASE Start
      <3>1. numStepsCounter' = 0 /\ ADStatus' = "Acquire" /\ pc' = "WaitStop"
        BY <2>4 DEF Start, LiveInv, FrameInv, params, locals
      <3> QED  BY <2>1, <3>1 DEF CountInv
    <2>5. CASE WaitStop
      <3>1. /\ pc = "WaitStop" /\ pc' = "Count" /\ ADStatus' = "Acquire" /\ Signalled
            /\ UNCHANGED <<ADAcquire, ADNumImagesCounter, locals>> /\ Base = numStepsCounter
        BY <1>2, <2>5 DEF WaitStop, LiveInv, FrameInv, PhaseInv, Running, Ended, params, Resting, Base
      <3>2. ADAcquire = 1 => numStepsCounter = ActualSteps /\ Base > 0
        BY <1>0, <3>1 DEF Signalled
      <3>3. ADAcquire = 1 => update = PointOf(ActualSteps)
        BY <3>1, <3>2 DEF LiveInv, CountInv
      <3> QED  BY <2>1, <3>1, <3>2, <3>3 DEF CountInv, PointOf, locals
    <2>6. CASE Count
      BY <2>1, <2>6 DEF CountInv, Count, LiveInv, FrameInv, PointOf, locals
    <2>7. CASE Publish
      <3>1. /\ pc' = "Top" /\ ADNumImagesCounter' = ADNumImagesCounter + 1
            /\ update = [image |-> ADNumImagesCounter, exposure |-> NumExposures, step |-> ActualSteps]
        BY <2>7 DEF Publish, LiveInv, CountInv
      <3>2. ADNumImagesCounter' = NumImages => update = LastPoint
        BY <1>0, <3>1 DEF LastPoint
      <3> QED  BY <2>1, <3>1, <3>2 DEF CountInv
    <2> QED  BY <2>2, <2>3, <2>4, <2>5, <2>6, <2>7 DEF Task
  <1> QED  BY <1>1, <1>4, <1>5, <1>6 DEF LiveInv

\* The end of an exposure is announced, by a Stop or because it is complete.
LEMMA EndStep ==
    ASSUME TypeOK, LiveInv, pc = "WaitStop", acquired >= 0, acquired' = -1,
           inbox' = Append(inbox, Measuring),
           ADAcquire' = 1 => acquired = ActualSteps, ADAcquire' \in {0, ADAcquire},
           UNCHANGED <<ADStatus, ADNumImagesCounter, pc, locals, stopEvent, notifier>>
    PROVE  LiveInv'
  <1>0. inbox \in Seq(Messages) /\ ADAcquire' \in {0, 1} /\ Len(inbox) \in Nat
    BY DEF TypeOK, Messages
  <1>1. Running
    BY DEF LiveInv, PhaseInv, Ended, Signalled, Resting
  <1>2. (Base' = Base) /\ (\A n : PointOf(n)' = PointOf(n)) /\ UNCHANGED <<nPc, update, numStepsCounter>>
    BY DEF Base, PointOf, notifier, locals
  <1>3. FrameInv' /\ CountInv'
    BY <1>2 DEF LiveInv, FrameInv, CountInv, locals
  <1>4. Measuring \in Messages /\ Measuring.type # "update" /\ Measuring # Null
    BY MessageTypes
  <1>5. OrderInv'
    BY <1>0, <1>2, <1>4, Appended DEF LiveInv, OrderInv
  <1>6. Ended'
    <2>1. /\ Len(inbox') = Len(inbox) + 1
          /\ \A i \in 1 .. Len(inbox') : inbox'[i] = Measuring <=> i = Len(inbox')
      BY <1>0, <1>1, <1>4, Appended DEF Running
    <2>2. ADAcquire' = 1 => ActualSteps = Base' + NumUpdates(inbox', Len(inbox') - 1)
      <3>1. Len(inbox') - 1 = Len(inbox) /\ Len(inbox) \in 0 .. Len(inbox)
        BY <1>0, <2>1
      <3>2. NumUpdates(inbox', Len(inbox)) = NumUpdates(inbox, Len(inbox))
        BY <1>0, <1>4, <3>1, Appended
      <3> QED  BY <1>1, <1>2, <3>1, <3>2 DEF Running
    <2> QED  BY <1>0, <1>1, <2>1, <2>2 DEF Ended, Running
  <1>7. PhaseInv'
    BY <1>6 DEF PhaseInv
  <1> QED  BY <1>3, <1>5, <1>7 DEF LiveInv

LEMMA ServerStepKeeps ==
    ASSUME TypeOK, LiveInv, Server
    PROVE  LiveInv'
  <1>0. inbox \in Seq(Messages) /\ Len(inbox) \in Nat /\ acquired \in Int /\ numStepsCounter \in Nat
    BY DEF TypeOK, Messages
  <1>1. /\ pc = "WaitStop" /\ acquired >= 0
        /\ UNCHANGED <<params, pc, locals, stopEvent, notifier>>
    BY CountsAssumption
       DEF Server, ServerStep, ServerNull, ServerCompletes, TypeOK, LiveInv, PhaseInv, Resting
  <1>2. Running
    BY <1>1 DEF LiveInv, PhaseInv, Ended, Signalled, Resting
  <1>3. /\ (Base' = Base) /\ (\A n : PointOf(n)' = PointOf(n))
        /\ UNCHANGED <<nPc, update, numStepsCounter, ADNumImagesCounter, ADAcquire, ADStatus>>
    BY <1>1 DEF Base, PointOf, notifier, locals, params
  <1>4. FrameInv' /\ CountInv'
    BY <1>1, <1>3 DEF LiveInv, FrameInv, CountInv, locals
  <1>5. CASE ServerStep
    <2> DEFINE m == Update(Here)
    <2>1. acquired' = acquired + 1 /\ inbox' = Append(inbox, m)
      BY <1>5 DEF ServerStep
    <2>2. Here \in Points /\ Here = PointOf(acquired + 1)
      BY <1>1, <1>5, CountsAssumption
         DEF ServerStep, Here, Points, PointOf, TypeOK, LiveInv, FrameInv
    <2>3. m \in Messages /\ m # Null /\ m # Measuring /\ m.type = "update" /\ m.point = Here
      BY <2>2, MessageTypes
    <2>4. NumUpdates(inbox', Len(inbox) + 1) = NumUpdates(inbox, Len(inbox)) + 1
      <3>1. (\E j \in 1 .. Len(inbox) + 1 : inbox'[j] = Null) <=> (\E j \in 1 .. Len(inbox) : inbox[j] = Null)
        <4>1. ASSUME NEW j \in 1 .. Len(inbox) + 1, inbox'[j] = Null
              PROVE  \E i \in 1 .. Len(inbox) : inbox[i] = Null
          BY <1>0, <2>1, <2>3, <4>1, Appended
        <4>2. ASSUME NEW j \in 1 .. Len(inbox), inbox[j] = Null
              PROVE  \E i \in 1 .. Len(inbox) + 1 : inbox'[i] = Null
          <5>1. j \in 1 .. Len(inbox) + 1 /\ inbox'[j] = Null
            BY <1>0, <2>1, <2>3, <4>2, Appended
          <5> QED  BY <5>1
        <4> QED  BY <4>1, <4>2
      <3>2. CASE \E j \in 1 .. Len(inbox) : inbox[j] = Null
        <4>1. /\ NumUpdates(inbox', Len(inbox) + 1) = Len(inbox) + 1 - 1
              /\ NumUpdates(inbox, Len(inbox)) = Len(inbox) - 1
          BY <3>1, <3>2 DEF NumUpdates
        <4> QED  BY <1>0, <4>1
      <3>3. CASE ~\E j \in 1 .. Len(inbox) : inbox[j] = Null
        <4>1. /\ NumUpdates(inbox', Len(inbox) + 1) = Len(inbox) + 1
              /\ NumUpdates(inbox, Len(inbox)) = Len(inbox)
          BY <3>1, <3>3 DEF NumUpdates
        <4> QED  BY <4>1
      <3> QED  BY <3>2, <3>3
    <2>5. NumUpdates(inbox, Len(inbox)) \in Int /\ Base \in Nat
      BY <1>0 DEF NumUpdates, Base
    <2>6. acquired + 1 = Base' + NumUpdates(inbox', Len(inbox) + 1)
      BY <1>0, <1>2, <1>3, <2>4, <2>5 DEF Running
    <2>7. Running'
      <3>1. Len(inbox') = Len(inbox) + 1 /\ \A i \in 1 .. Len(inbox') : inbox'[i] # Measuring
        BY <1>0, <1>2, <2>1, <2>3, Appended DEF Running
      <3> QED  BY <1>0, <1>1, <1>2, <2>1, <2>6, <3>1 DEF Running
    <2>8. OrderInv'
      <3>1. \A i, j \in 1 .. Len(inbox') : inbox'[i] = Null /\ inbox'[j] = Null => i = j
        BY <1>0, <2>1, <2>3, Appended DEF LiveInv, OrderInv
      <3>2. ASSUME NEW i \in 1 .. Len(inbox'), inbox'[i].type = "update"
            PROVE  inbox'[i].point = PointOf(Base' + NumUpdates(inbox', i))
        <4>1. CASE i = Len(inbox) + 1
          BY <1>0, <2>1, <2>2, <2>3, <2>6, <4>1, Appended
        <4>2. CASE i \in 1 .. Len(inbox)
          <5>1. inbox'[i] = inbox[i] /\ NumUpdates(inbox', i) = NumUpdates(inbox, i)
            BY <1>0, <2>1, <2>3, <4>2, Appended
          <5> QED  BY <1>3, <3>2, <4>2, <5>1 DEF LiveInv, OrderInv
        <4> QED  BY <1>0, <2>1, <2>3, <4>1, <4>2, Appended
      <3> QED  BY <1>3, <3>1, <3>2 DEF OrderInv
    <2> QED  BY <1>1, <1>4, <2>7, <2>8 DEF LiveInv, PhaseInv
  <1>6. CASE ServerNull
    <2>1. acquired' = acquired /\ inbox' = Append(inbox, Null)
          /\ \A i \in 1 .. Len(inbox) : inbox[i] # Null
      BY <1>6 DEF ServerNull
    <2>2. Null \in Messages /\ Null # Measuring /\ Null.type # "update"
      BY MessageTypes
    <2>3. Len(inbox') = Len(inbox) + 1 /\ inbox'[Len(inbox) + 1] = Null
      BY <1>0, <2>1, <2>2, Appended
    <2>4. NumUpdates(inbox', Len(inbox')) = NumUpdates(inbox, Len(inbox))
      <3>1. NumUpdates(inbox, Len(inbox)) = Len(inbox)
        BY <2>1 DEF NumUpdates
      <3>2. NumUpdates(inbox', Len(inbox) + 1) = Len(inbox) + 1 - 1
        BY <1>0, <2>3 DEF NumUpdates
      <3> QED  BY <1>0, <2>3, <3>1, <3>2
    <2>5. Running'
      <3>1. \A i \in 1 .. Len(inbox') : inbox'[i] # Measuring
        BY <1>0, <1>2, <2>1, <2>2, <2>3, Appended DEF Running
      <3> QED  BY <1>1, <1>2, <1>3, <2>1, <2>4, <3>1 DEF Running
    <2>6. OrderInv'
      BY <1>0, <1>3, <2>1, <2>2, <2>3, Appended DEF LiveInv, OrderInv
    <2> QED  BY <1>1, <1>4, <2>5, <2>6 DEF LiveInv, PhaseInv
  <1>7. CASE ServerCompletes
    BY <1>1, <1>7, EndStep DEF ServerCompletes, params, TypeOK
  <1> QED  BY <1>5, <1>6, <1>7 DEF Server

LEMMA OperatorStep ==
    ASSUME TypeOK, LiveInv, Operator
    PROVE  LiveInv'
  <1>1. CASE Estimate
    BY <1>1, AsideStep DEF Estimate, locals
  <1>2. CASE Stop /\ acquired >= 0
    <2>1. pc = "WaitStop" /\ acquired' = -1 /\ inbox' = Append(inbox, Measuring)
      BY <1>2 DEF Stop, LiveInv, PhaseInv, Resting
    <2> QED  BY <1>2, <2>1, EndStep DEF Stop
  <1>3. CASE Stop /\ ~(acquired >= 0)
    <2>1. /\ ADAcquire' = 0 /\ pc # "Top"
          /\ UNCHANGED <<ADStatus, ADNumImagesCounter, pc, locals, stopEvent, acquired, inbox, notifier>>
      BY <1>3 DEF Stop, remote
    <2>2. (Base' = Base) /\ (\A n : PointOf(n)' = PointOf(n)) /\ UNCHANGED <<nPc, update, numStepsCounter>>
      BY <2>1 DEF Base, PointOf, notifier, locals
    <2>3. FrameInv' /\ CountInv'
      BY <2>1, <2>2 DEF LiveInv, FrameInv, CountInv, locals
    <2>4. PhaseInv'
      BY <2>1, <2>2 DEF LiveInv, PhaseInv, Resting, Running, Ended, Signalled
    <2>5. OrderInv'
      BY <2>1, <2>2 DEF LiveInv, OrderInv
    <2> QED  BY <2>3, <2>4, <2>5 DEF LiveInv
  <1> QED  BY <1>1, <1>2, <1>3 DEF Operator

\* The notification taken is the next update, one without a value, or the end.
LEMMA NotifiedStep ==
    ASSUME TypeOK, LiveInv, Notified
    PROVE  LiveInv'
  <1>0. /\ inbox \in Seq(Messages) /\ inbox # <<>> /\ numStepsCounter \in Nat
        /\ \A i, j \in 1 .. Len(inbox) : inbox[i] = Null /\ inbox[j] = Null => i = j
    BY DEF TypeOK, Messages, Notified, LiveInv, OrderInv
  <1>1. /\ Head(inbox) = inbox[1] /\ Head(inbox) \in Messages /\ Len(inbox) \in Nat /\ Len(inbox) > 0
        /\ Len(Tail(inbox)) = Len(inbox) - 1
        /\ \A i \in 1 .. Len(inbox) - 1 : Tail(inbox)[i] = inbox[i + 1] /\ i + 1 \in 1 .. Len(inbox)
        /\ \A k \in 0 .. Len(inbox) - 1 :
             NumUpdates(Tail(inbox), k) = IF Head(inbox) = Null THEN NumUpdates(inbox, k + 1)
                                          ELSE NumUpdates(inbox, k + 1) - 1
    BY <1>0, Taken
  <1>2. /\ inbox' = Tail(inbox) /\ nPc = "idle"
        /\ UNCHANGED <<params, pc, locals, acquired>>
        /\ stopEvent' = IF Head(inbox) = Measuring THEN "full" ELSE stopEvent
        /\ IF Head(inbox).type = "update" THEN nPc' = "count" /\ update' = Head(inbox).point
           ELSE UNCHANGED <<nPc, update>>
    BY DEF Notified, notifier
  <1>3. pc = "WaitStop" /\ (Running \/ Ended)
    BY <1>0 DEF LiveInv, PhaseInv, Resting, Signalled
  <1>4. UNCHANGED <<numStepsCounter, ADNumImagesCounter, numExposuresCounter, ADAcquire, ADStatus>>
        /\ Base = numStepsCounter /\ \A n : PointOf(n)' = PointOf(n)
    BY <1>2 DEF params, locals, PointOf, Base
  <1>5. FrameInv'
    BY <1>2 DEF LiveInv, FrameInv, params, locals
  <1>6. CASE Head(inbox) = Measuring
    <2>1. Ended /\ Len(inbox) = 1
      <3>1. 1 \in 1 .. Len(inbox) /\ inbox[1] = Measuring
        BY <1>1, <1>6
      <3>2. ~Running
        BY <3>1 DEF Running
      <3>3. Ended
        BY <1>3, <3>2
      <3>4. \A i \in 1 .. Len(inbox) : inbox[i] = Measuring <=> i = Len(inbox)
        BY <3>3 DEF Ended
      <3> QED  BY <3>1, <3>3, <3>4
    <2>2. inbox' = <<>>
      BY <1>0, <1>2, <2>1
    <2>3. Head(inbox).type # "update"
      BY <1>6, MessageTypes
    <2>4. ADAcquire = 1 => ActualSteps = numStepsCounter
      <3>1. NumUpdates(inbox, 0) = 0
        BY DEF NumUpdates
      <3> QED  BY <1>0, <1>4, <2>1, <3>1 DEF Ended
    <2>5. Signalled'
      BY <1>2, <1>4, <1>6, <2>1, <2>2, <2>3, <2>4 DEF Signalled, Resting, Ended
    <2>6. OrderInv'
      BY <2>2 DEF OrderInv
    <2>7. CountInv'
      BY <1>2, <1>3, <1>4, <2>3 DEF LiveInv, CountInv, Base, LiveInv, FrameInv
    <2>8. PhaseInv'
      BY <1>2, <1>3, <2>5 DEF PhaseInv, locals, params
    <2> QED  BY <1>5, <2>6, <2>7, <2>8 DEF LiveInv
  <1>7. CASE Head(inbox) # Measuring
    <2>1. Head(inbox) = Null <=> Head(inbox).type # "update"
      BY <1>1, <1>7, MessageTypes
    <2>2. Base' = IF Head(inbox) = Null THEN Base ELSE Base + 1
      BY <1>2, <1>4, <2>1 DEF Base
    <2>3. \A k \in 0 .. Len(inbox) - 1 : NumUpdates(inbox, k + 1) \in Int
      BY <1>1 DEF NumUpdates
    <2>4. \A k \in 0 .. Len(inbox') :
             Base' + NumUpdates(inbox', k) = Base + NumUpdates(inbox, k + 1)
      BY <1>0, <1>1, <1>2, <1>4, <2>2, <2>3
    <2>5. Head(inbox) # Null => Head(inbox).point = PointOf(Base + 1)
      <3>1. ASSUME Head(inbox) # Null  PROVE NumUpdates(inbox, 1) = 1
        BY <1>1, <3>1 DEF NumUpdates
      <3> QED  BY <1>1, <2>1, <3>1 DEF LiveInv, OrderInv
    <2>6. CountInv'
      <3>1. nPc' # "idle" \/ (pc = "WaitStop" /\ Base' > 0) => update' = PointOf(Base')
        <4>1. CASE Head(inbox) = Null
          BY <1>2, <1>3, <2>1, <2>2, <4>1 DEF LiveInv, CountInv
        <4>2. CASE Head(inbox) # Null
          BY <1>2, <2>1, <2>2, <2>5, <4>2
        <4> QED  BY <4>1, <4>2
      <3>2. pc' = "WaitStop" /\ ADStatus' = "Acquire"
        BY <1>2, <1>3, <1>4 DEF LiveInv, FrameInv
      <3> QED  BY <1>3, <1>4, <3>1, <3>2 DEF CountInv
    <2>7. OrderInv'
      <3>1. \A i, j \in 1 .. Len(inbox') : inbox'[i] = Null /\ inbox'[j] = Null => i = j
        <4>1. ASSUME NEW i \in 1 .. Len(inbox'), NEW j \in 1 .. Len(inbox'),
                     inbox'[i] = Null, inbox'[j] = Null
              PROVE  i = j
          <5>1. i + 1 = j + 1
            BY <1>0, <1>1, <1>2, <4>1
          <5> QED  BY <1>1, <1>2, <5>1
        <4> QED  BY <4>1
      <3>2. ASSUME NEW i \in 1 .. Len(inbox'), inbox'[i].type = "update"
            PROVE  inbox'[i].point = PointOf(Base' + NumUpdates(inbox', i))
        <4>1. i + 1 \in 1 .. Len(inbox) /\ inbox'[i] = inbox[i + 1] /\ i \in 0 .. Len(inbox')
          BY <1>1, <1>2
        <4>2. inbox[i + 1].point = PointOf(Base + NumUpdates(inbox, i + 1))
          BY <3>2, <4>1 DEF LiveInv, OrderInv
        <4> QED  BY <2>4, <4>1, <4>2
      <3> QED  BY <1>4, <3>1, <3>2 DEF OrderInv
    <2>8. CASE Running
      <3>1. \A i \in 1 .. Len(inbox') : inbox'[i] # Measuring
        BY <1>1, <1>2, <2>8 DEF Running
      <3>2. acquired = Base' + NumUpdates(inbox', Len(inbox'))
        BY <1>1, <1>2, <2>4, <2>8 DEF Running
      <3>3. Running'
        BY <1>2, <1>7, <2>8, <3>1, <3>2 DEF Running
      <3> QED  BY <1>2, <1>3, <1>5, <2>6, <2>7, <3>3 DEF LiveInv, PhaseInv
    <2>9. CASE Ended
      <3>1. Len(inbox) > 1
        BY <1>1, <1>7, <2>9 DEF Ended
      <3>2. \A i \in 1 .. Len(inbox') : inbox'[i] = Measuring <=> i = Len(inbox')
        BY <1>1, <1>2, <2>9 DEF Ended
      <3>3. ADAcquire = 1 => ActualSteps = Base' + NumUpdates(inbox', Len(inbox') - 1)
        <4>1. Len(inbox') - 1 \in 0 .. Len(inbox') /\ Len(inbox') - 1 + 1 = Len(inbox) - 1
          BY <1>1, <1>2, <3>1
        <4> QED  BY <2>4, <2>9, <4>1 DEF Ended
      <3>4. Ended'
        BY <1>1, <1>2, <1>4, <1>7, <2>9, <3>1, <3>2, <3>3 DEF Ended
      <3> QED  BY <1>2, <1>3, <1>5, <2>6, <2>7, <3>4 DEF LiveInv, PhaseInv
    <2> QED  BY <1>3, <2>8, <2>9
  <1> QED  BY <1>6, <1>7

\* The rest of a callback: what it is called with is counted, then stored.
LEMMA CallbackStep ==
    ASSUME TypeOK, LiveInv, CountStep \/ StoreSpectrum \/ FlagLast \/ Trigger
    PROVE  LiveInv'
  <1>1. /\ UNCHANGED <<ADAcquire, ADStatus, ADNumImagesCounter, pc, numExposuresCounter, stopEvent,
                       acquired, inbox, update>>
        /\ nPc # "idle" /\ (Base' = Base) /\ (\A n : PointOf(n)' = PointOf(n))
    BY DEF CountStep, StoreSpectrum, FlagLast, Trigger, params, locals, remote, Base, PointOf
  <1>2. pc = "WaitStop" /\ (Running \/ Ended)
    BY <1>1 DEF LiveInv, PhaseInv, Resting, Signalled
  <1>3. FrameInv'
    BY <1>1, <1>2 DEF LiveInv, FrameInv
  <1>4. PhaseInv'
    BY <1>1, <1>2 DEF PhaseInv, Running, Ended
  <1>5. OrderInv'
    BY <1>1 DEF LiveInv, OrderInv
  <1>6. CountInv'
    BY <1>1, <1>2 DEF LiveInv, CountInv, FrameInv
  <1> QED  BY <1>3, <1>4, <1>5, <1>6 DEF LiveInv

LEMMA LiveStep ==
    ASSUME TypeOK, LiveInv, [Next]_vars
    PROVE  LiveInv'
  <1>1. CASE UNCHANGED vars
    BY <1>1, AsideStep DEF vars, params, locals
  <1>2. CASE Viewer
    BY <1>2, AsideStep
       DEF Viewer, WaitUpdate, Throttle, ReadSpectrum, ShowSpectrum, LoseSpectrum, params, locals
  <1> QED
    BY <1>1, <1>2, TaskStep, OperatorStep, ServerStepKeeps, NotifiedStep, CallbackStep
       DEF Next, Notifier

LEMMA LiveInit == Init => TypeOK /\ LiveInv
  <1> SUFFICES ASSUME Init  PROVE TypeOK /\ LiveInv
    OBVIOUS
  <1>1. TypeOK
    BY CountsAssumption DEF Init, TypeOK
  <1>2. LiveInv
    BY CountsAssumption DEF Init, LiveInv, FrameInv, PhaseInv, Resting, OrderInv, CountInv
  <1> QED  BY <1>1, <1>2

\* Points, counters and notifications keep their types, whatever is estimated.
THEOREM LiveTypes == Spec => []TypeOK
  <1>1. TypeOK /\ LiveInv /\ [Next]_vars => (TypeOK /\ LiveInv)'
    BY TypesStep, LiveStep
  <1> QED  BY <1>1, LiveInit, PTL DEF Spec

\* When an exposure has run to its end, all its steps have been counted before the
\* task goes on.
THEOREM StepsAllCounted == Spec => []AllStepsCounted
  <1>1. TypeOK /\ LiveInv /\ [Next]_vars => (TypeOK /\ LiveInv)'
    BY TypesStep, LiveStep
  <1>2. LiveInv => AllStepsCounted
    BY DEF LiveInv, CountInv, AllStepsCounted
  <1> QED  BY <1>1, <1>2, LiveInit, PTL DEF Spec

\* The counter is never reset under a callback: it is that of the point.
THEOREM CounterIsOfPoint == Spec => []CounterMatchesPoint
  <1>1. TypeOK /\ LiveInv /\ [Next]_vars => (TypeOK /\ LiveInv)'
    BY TypesStep, LiveStep
  <1>2. LiveInv => CounterMatchesPoint
    BY DEF LiveInv, CountInv, CounterMatchesPoint, Base, PointOf
  <1> QED  BY <1>1, <1>2, LiveInit, PTL DEF Spec
-----------------------------------------------------------------------------
(* From the last point to the operator. *)

\* What does not concern the notifier and the viewer brings no last point.
LEMMA LastCameBefore ==
    ASSUME TypeOK, LiveInv, Task \/ Operator \/ Server, LastCame'
    PROVE  LastCame
  <1>1. UNCHANGED <<nPc, update>> /\ LastPoint' = LastPoint
    BY DEF Task, Begin, NextFrame, NextExposure, Start, WaitStop, Count, Publish, Operator, Stop,
           Estimate, Server, ServerStep, ServerNull, ServerCompletes, notifier, LastPoint
  <1>2. CASE Begin \/ NextFrame
    BY <1>2 DEF Begin, NextFrame, Snapshot, LastCame
  <1>3. CASE NextExposure
    BY <1>1, <1>3, CountsAssumption DEF NextExposure, LastCame, LiveInv, FrameInv, params, TypeOK
  <1>4. CASE Start
    <2>1. Base' = 0
      BY <1>1, <1>4 DEF Start, Base, LiveInv, FrameInv, PhaseInv, Resting, locals
    <2> QED  BY <1>4, <2>1 DEF Start, LastCame
  <1>5. CASE WaitStop
    <2>1. Signalled
      BY <1>5 DEF WaitStop, LiveInv, PhaseInv, Running, Ended
    <2>2. ADAcquire = 1 => Base > 0
      BY <2>1, CountsAssumption DEF Signalled, Resting, Base
    <2> QED  BY <1>1, <1>5, <2>2 DEF WaitStop, LastCame, params, locals
  <1>6. CASE Count
    BY <1>1, <1>6 DEF Count, LastCame, LiveInv, FrameInv, locals
  <1>7. CASE Publish
    BY <1>1, <1>7 DEF Publish, LastCame, locals
  <1>8. CASE Stop
    BY <1>1, <1>8 DEF Stop, LastCame, Base, locals
  <1>9. CASE Estimate \/ Server
    <2>1. UNCHANGED <<ADAcquire, ADStatus, ADNumImagesCounter, pc, locals>>
      BY <1>9 DEF Estimate, Server, ServerStep, ServerNull, ServerCompletes, params
    <2> QED  BY <1>1, <2>1 DEF LastCame, Base, locals
  <1> QED
    BY <1>2, <1>3, <1>4, <1>5, <1>6, <1>7, <1>8, <1>9 DEF Task, Operator

\* The viewer leaves the notifier's point alone, and the notifier the viewer.
LEMMA ViewStep ==
    ASSUME TypeOK, LiveInv, ViewInv, [Next]_vars
    PROVE  ViewInv'
  <1> SUFFICES ASSUME LastCame'
               PROVE  /\ nPc' = "flag" => m_SpectrumLive'.point = LastPoint
                      /\ nPc' \in {"trigger", "idle"} =>
                           m_SpectrumLive' = [point |-> LastPoint, IsLast |-> "true"]
                      /\ nPc' = "idle" =>
                           \/ spectrumEvent' = "full"
                           \/ sPc' \in {"test", "read", "dead"}
                           \/ sPc' = "show" /\ read' = LastPoint
                           \/ sPc' = "wait" /\ Presented'
    BY DEF ViewInv, Presented, LastPoint
  <1>1. CASE UNCHANGED vars
    BY <1>1 DEF ViewInv, Presented, LastCame, LastPoint, Base,
                vars, params, locals, notifier, live, viewer
  <1>2. CASE Task \/ Operator \/ Server
    <2>1. LastCame
      BY <1>2, LastCameBefore
    <2>2. UNCHANGED <<notifier, live, viewer>>
      BY <1>2 DEF Task, Begin, NextFrame, NextExposure, Start, WaitStop, Count, Publish, Operator,
                  Stop, Estimate, Server, ServerStep, ServerNull, ServerCompletes
    <2> QED  BY <2>1, <2>2 DEF ViewInv, Presented, LastPoint, notifier, live, viewer
  <1>3. CASE Notified
    <2>1. UNCHANGED <<live, viewer, params, pc, locals>>
      BY <1>3 DEF Notified
    <2>2. CASE Head(inbox).type = "update"
      BY <1>3, <2>2 DEF Notified
    <2>3. CASE Head(inbox).type # "update"
      <3>1. UNCHANGED notifier
        BY <1>3, <2>3 DEF Notified
      <3>2. LastCame
        BY <2>1, <3>1 DEF LastCame, Base, LastPoint, params, locals, notifier
      <3> QED  BY <2>1, <3>1, <3>2 DEF ViewInv, Presented, LastPoint, live, viewer, notifier
    <2> QED  BY <2>2, <2>3
  <1>4. CASE CountStep
    BY <1>4 DEF CountStep
  <1>5. CASE StoreSpectrum
    BY <1>5 DEF StoreSpectrum, LastCame, LastPoint
  <1>6. CASE FlagLast \/ Trigger
    <2>1. /\ UNCHANGED <<params, pc, locals, update, viewer>>
          /\ (nPc = "flag" /\ nPc' = "trigger") \/ (nPc = "trigger" /\ nPc' = "idle")
      BY <1>6 DEF FlagLast, Trigger
    <2>2. LastCame
      BY <2>1 DEF LastCame, Base, LastPoint, params, locals
    <2>3. CASE FlagLast
      <3>1. numSteps = numStepsCounter
        BY <2>1, <2>2, <2>3 DEF FlagLast, LastCame, LastPoint, LiveInv, CountInv, PointOf, Base
      <3>2. m_SpectrumLive.point = LastPoint
        BY <2>2, <2>3 DEF ViewInv, FlagLast
      <3>3. m_SpectrumLive' = [point |-> LastPoint, IsLast |-> "true"]
        BY <2>3, <3>1, <3>2 DEF FlagLast, TypeOK
      <3> QED  BY <2>3, <3>3 DEF FlagLast
    <2>4. CASE Trigger
      BY <2>2, <2>4 DEF ViewInv, Trigger
    <2> QED  BY <1>6, <2>3, <2>4
  <1>7. CASE Viewer
    <2>1. UNCHANGED <<params, pc, locals, notifier, m_SpectrumLive>>
      BY <1>7 DEF Viewer, WaitUpdate, Throttle, ReadSpectrum, ShowSpectrum, LoseSpectrum, live
    <2>2. LastCame
      BY <2>1 DEF LastCame, Base, LastPoint, params, locals, notifier
    <2>3. CASE nPc # "idle"
      BY <2>1, <2>2, <2>3 DEF ViewInv, notifier
    <2>4. CASE nPc = "idle"
      <3>1. m_SpectrumLive = [point |-> LastPoint, IsLast |-> "true"]
        BY <2>2, <2>4 DEF ViewInv
      <3>2. CASE WaitUpdate
        BY <2>1, <3>1, <3>2 DEF WaitUpdate, notifier
      <3>3. CASE Throttle
        BY <2>1, <3>1, <3>3 DEF Throttle, notifier
      <3>4. CASE ReadSpectrum
        BY <2>1, <3>1, <3>4 DEF ReadSpectrum, notifier
      <3>5. CASE ShowSpectrum \/ LoseSpectrum
        <4>1. spectrumEvent = "full" \/ read = LastPoint
          BY <2>2, <2>4, <3>5 DEF ViewInv, ShowSpectrum, LoseSpectrum
        <4>2. read = LastPoint => Presented'
          BY <3>1, <3>5 DEF ShowSpectrum, LoseSpectrum, Presented, LastPoint
        <4> QED
          BY <2>1, <2>4, <3>1, <3>5, <4>1, <4>2 DEF ShowSpectrum, LoseSpectrum, live, notifier
      <3> QED  BY <1>7, <3>2, <3>3, <3>4, <3>5 DEF Viewer
    <2> QED  BY <2>3, <2>4
  <1> QED  BY <1>1, <1>2, <1>3, <1>4, <1>5, <1>6, <1>7 DEF Next, Notifier

\* The last point of a complete acquisition is the one shown in the end, however the
\* notifier and spectrumTask have interleaved and whatever readings before it failed, or
\* it was read last and its own data were lost, if the number of steps was right.
THEOREM LastPointIsShown == Spec => []LastPointShown
  <1>1. Init => ViewInv
    BY CountsAssumption DEF Init, ViewInv, LastCame, LastPoint, NoPoint
  <1>2. TypeOK /\ LiveInv /\ ViewInv /\ [Next]_vars => (TypeOK /\ LiveInv /\ ViewInv)'
    BY TypesStep, LiveStep, ViewStep
  <1>3. LiveInv /\ ViewInv => LastPointShown
    BY DEF LiveInv, CountInv, ViewInv, Presented, LastCame, LastPointShown, Quiet
  <1> QED  BY <1>1, <1>2, <1>3, LiveInit, PTL DEF Spec
-----------------------------------------------------------------------------
(* Progress. *)

\* Whole percentages grow with what they are of, although they are rounded down.
LEMMA Quotient ==
    ASSUME NEW x \in Nat, NEW y \in Nat \ {0}
    PROVE  x \div y \in Nat /\ y * (x \div y) <= x /\ x < y * (x \div y) + y
  OBVIOUS

LEMMA QuotientBelow ==
    ASSUME NEW p \in Nat, NEW q \in Nat, NEW y \in Nat \ {0}, NEW z \in Nat,
           y * p <= z, z < y * q + y
    PROVE  p <= q
  <1>1. y * p < y * (q + 1)
    OBVIOUS
  <1>2. ASSUME p >= q + 1  PROVE FALSE
    <2>1. PICK d \in Nat : p = q + 1 + d
      <3>1. p - (q + 1) \in Nat
        BY <1>2
      <3> QED  BY <3>1
    <2>2. y * p = y * (q + 1) + y * d
      BY <2>1
    <2>3. y * d >= 0
      OBVIOUS
    <2>4. y * p \in Int /\ y * (q + 1) \in Int /\ y * d \in Int
      OBVIOUS
    <2> QED  BY <1>1, <2>2, <2>3, <2>4
  <1> QED  BY <1>2

LEMMA LargerProduct ==
    ASSUME NEW a \in Nat, NEW b \in Nat, NEW c \in Nat, NEW d \in Nat, a <= b, c <= d
    PROVE  a * c <= b * d
  <1>1. a * c <= b * c
    OBVIOUS
  <1>2. b * c <= b * d
    OBVIOUS
  <1> QED  BY <1>1, <1>2

LEMMA QuotientOrder ==
    ASSUME NEW w \in Nat, NEW x \in Nat, NEW y \in Nat \ {0}, w <= x
    PROVE  w \div y <= x \div y
  <1> DEFINE p == w \div y
             q == x \div y
  <1>1. p \in Nat /\ q \in Nat /\ y * p <= w /\ x < y * q + y
    BY Quotient
  <1>2. y * p <= x /\ y * p \in Nat
    BY <1>1
  <1> HIDE DEF p, q
  <1>3. p <= q
    BY <1>1, <1>2, QuotientBelow
  <1> QED  BY <1>3 DEF p, q

\* The task and the callback take progress only upwards, in an exposure.
LEMMA ProgressStep ==
    ASSUME TypeOK, LiveInv, ProgressInv, [Next]_vars
    PROVE  ProgressInv'
  <1>1. CASE pc # "WaitStop" \/ UNCHANGED vars
    BY <1>1 DEF ProgressInv, Progress, LiveInv, FrameInv, vars, params, locals, Next,
                Task, Begin, NextFrame, Snapshot, NextExposure, Start, WaitStop, Count, Publish,
                Operator, Stop, Estimate, Server, ServerStep, ServerNull, ServerCompletes,
                Notifier, Notified, CountStep, StoreSpectrum, FlagLast, Trigger,
                Viewer, WaitUpdate, Throttle, ReadSpectrum, ShowSpectrum, LoseSpectrum
  <1>2. CASE CountStep
    BY <1>2 DEF CountStep, ProgressInv, Progress
  <1>3. ASSUME pc = "WaitStop", Next, ~CountStep
        PROVE  UNCHANGED <<AcqProgress, locals>>
    BY <1>3 DEF params, locals, Next,
                Task, Begin, NextFrame, NextExposure, Start, WaitStop, Count, Publish,
                Operator, Stop, Estimate, Server, ServerStep, ServerNull, ServerCompletes,
                Notifier, Notified, StoreSpectrum, FlagLast, Trigger,
                Viewer, WaitUpdate, Throttle, ReadSpectrum, ShowSpectrum, LoseSpectrum
  <1> QED  BY <1>1, <1>2, <1>3 DEF ProgressInv, Progress, locals

\* A step counted is one of those of its exposure.
LEMMA ProgressBound ==
    ASSUME TypeOK, LiveInv, ProgressInv, [Next]_vars,
           pc = "WaitStop", AcqProgress' # AcqProgress, numSteps = ActualSteps
    PROVE  /\ AcqProgress' <= 100
           /\ numStepsCounter > 0 => AcqProgress' >= AcqProgress
  <1> DEFINE n == numStepsCounter
             e == numExposuresCounter
             y == ActualSteps * NumExposures
  <1>1. CountStep
    BY DEF vars, params, Next,
           Task, Begin, NextFrame, NextExposure, Start, WaitStop, Count, Publish,
           Operator, Stop, Estimate, Server, ServerStep, ServerNull, ServerCompletes,
           Notifier, Notified, StoreSpectrum, FlagLast, Trigger,
           Viewer, WaitUpdate, Throttle, ReadSpectrum, ShowSpectrum, LoseSpectrum
  <1>2. TypeOK'
    BY TypesStep
  <1>3. n + 1 \in 1 .. ActualSteps /\ n \in Nat /\ e \in 1 .. NumExposures /\ y \in Nat \ {0}
    <2>1. n' = n + 1 /\ n \in Nat /\ n' \in 0 .. ActualSteps /\ e \in 1 .. NumExposures
      BY <1>1, <1>2 DEF CountStep, TypeOK, LiveInv, FrameInv
    <2>2. ActualSteps \in Nat \ {0} /\ NumExposures \in Nat \ {0}
      BY CountsAssumption
    <2>3. y \in Nat \ {0}
      BY <2>2
    <2> QED  BY <2>1, <2>3
  <1>4. AcqProgress' = (100 * (n + 1) * e) \div y
    BY <1>1 DEF CountStep, Progress
  <1>5. n > 0 => AcqProgress = (100 * n * e) \div y
    BY DEF ProgressInv, Progress
  <1>6. /\ 100 * n * e \in Nat /\ 100 * (n + 1) * e \in Nat
        /\ 100 * n * e <= 100 * (n + 1) * e
        /\ 100 * (n + 1) * e <= 100 * y
    <2>1. (n + 1) * e <= ActualSteps * NumExposures
      BY <1>3, CountsAssumption, LargerProduct
    <2> QED  BY <1>3, <2>1
  <1> HIDE DEF n, e, y
  <1>7. (100 * n * e) \div y <= (100 * (n + 1) * e) \div y
    BY <1>3, <1>6, QuotientOrder
  <1>8. (100 * (n + 1) * e) \div y <= 100
    BY <1>3, <1>6, Quotient, QuotientBelow
  <1> QED  BY <1>4, <1>5, <1>7, <1>8 DEF n

\* Progress stays within 100 percent and does not fall within an exposure, whatever the
\* numbers of steps and exposures, when numSteps is right.
THEOREM ProgressStaysInBounds == Spec => ProgressInBounds
  <1>1. Init => ProgressInv
    BY DEF Init, ProgressInv
  <1>2. TypeOK /\ LiveInv /\ ProgressInv /\ [Next]_vars => (TypeOK /\ LiveInv /\ ProgressInv)'
    BY TypesStep, LiveStep, ProgressStep
  <1>3. TypeOK /\ LiveInv /\ ProgressInv /\ [Next]_vars
        => [pc = "WaitStop" /\ AcqProgress' # AcqProgress /\ numSteps = ActualSteps =>
              /\ AcqProgress' <= 100
              /\ numStepsCounter > 0 => AcqProgress' >= AcqProgress]_vars
    BY ProgressBound
  <1> QED  BY <1>1, <1>2, <1>3, LiveInit, PTL DEF Spec, ProgressInBounds
=============================================================================
