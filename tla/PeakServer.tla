----------------------------- MODULE PeakServer -----------------------------
(***************************************************************************)
(* The PEAK analyser server, as far as the driver depends on it.  It is    *)
(* not part of this repository: it is modelled from the calls the driver   *)
(* makes and the replies and notifications it relies on (peakApi.cpp,      *)
(* acquisitionTask in peakAnalyser.cpp).                                   *)
(*                                                                         *)
(* The module is a library of pure operators.  A server is a record:       *)
(*   state      the measurement state, as GetState reports it;             *)
(*   spectrum   whether a spectrum is defined (defineSpectrum ... finish); *)
(*   exposures  exposures accumulated completely since ClearSpectrum;      *)
(*   cut        1 when an aborted or failed exposure was accumulated too;  *)
(*   stateSubs  the subscriptions to the state, by guid;                   *)
(*   updateSubs the subscriptions to SpectrumUpdate, by guid.              *)
(***************************************************************************)
EXTENDS Integers

CONSTANTS
    Guids,      \* the guids a subscription can be given
    NoGuid      \* the empty string the driver uses for "not subscribed"

ASSUME GuidsAssumption == NoGuid \notin Guids

ServerStates == {"Active", "Measuring", "Acquiring", "Error"}

Servers == [state : ServerStates, spectrum : {"none", "defined"},
            exposures : Nat, cut : {0, 1},
            stateSubs : SUBSET Guids, updateSubs : SUBSET Guids]

\* A configured analyser at rest.  Subscriptions an earlier IOC left behind
\* were removed by UnsubscribeAllForObserver when the driver connected.
IdleServer == [state |-> "Active", spectrum |-> "none", exposures |-> 0,
               cut |-> 0, stateSubs |-> {}, updateSubs |-> {}]

-----------------------------------------------------------------------------
(* The calls the acquisition task makes.  The ones that only read the      *)
(* server (GetState, GetMeasuredSpectrum) have no effect.                  *)

Calls == {"GetState", "DefineSpectrum", "StartMeasurement", "SetupSpectrum",
          "SubscribeToState", "SubscribeToObservable", "ClearSpectrum",
          "AcquisitionAsync", "CancelAcquisition", "GetMeasuredSpectrum",
          "Unsubscribe", "FinishSpectrum", "FinishMeasurement"}

\* The server answers a call with a result, or else with an error reply.
Accepts(s, call) ==
    CASE call = "StartMeasurement"  -> s.state = "Active"
      [] call = "AcquisitionAsync"  -> /\ s.state = "Measuring"
                                       /\ s.spectrum = "defined"
      [] call = "SetupSpectrum"     -> /\ s.state = "Measuring"
                                       /\ s.spectrum = "defined"
      [] call \in {"ClearSpectrum", "GetMeasuredSpectrum", "FinishSpectrum"}
                                    -> s.spectrum = "defined"
      [] call = "FinishMeasurement" -> s.state = "Measuring"
      [] OTHER                      -> TRUE

\* What an accepted call leaves, for the calls that take no guid.
After(s, call) ==
    CASE call = "DefineSpectrum"    -> [s EXCEPT !.spectrum = "defined",
                                                 !.exposures = 0, !.cut = 0]
      [] call = "StartMeasurement"  -> [s EXCEPT !.state = "Measuring"]
      [] call = "ClearSpectrum"     -> [s EXCEPT !.exposures = 0, !.cut = 0]
      [] call = "AcquisitionAsync"  -> [s EXCEPT !.state = "Acquiring"]
      [] call = "FinishSpectrum"    -> [s EXCEPT !.spectrum = "none"]
      [] call = "FinishMeasurement" -> [s EXCEPT !.state = "Active"]
      [] call = "CancelAcquisition" -> IF s.state = "Acquiring"
                                       THEN [s EXCEPT !.state = "Measuring", !.cut = 1]
                                       ELSE s
      [] OTHER                      -> s

Subscribed(s, call, guid) ==
    IF call = "SubscribeToState"
    THEN [s EXCEPT !.stateSubs = @ \union {guid}]
    ELSE [s EXCEPT !.updateSubs = @ \union {guid}]

Unsubscribed(s, guid) ==
    [s EXCEPT !.stateSubs = @ \ {guid}, !.updateSubs = @ \ {guid}]

(* What the server does of itself. *)
Completed(s) == [s EXCEPT !.state = "Measuring", !.exposures = @ + 1]
Failed(s)    == [s EXCEPT !.state = "Error", !.cut = 1]
Recovered(s) == [s EXCEPT !.state = "Active", !.spectrum = "none"]

-----------------------------------------------------------------------------
(* A change of state is announced once to every subscriber of the state.   *)
(* Notifications that nobody will listen to any more are left out.         *)
Announced(before, after, listeners) ==
    IF after.state = before.state THEN {}
    ELSE (before.stateSubs \intersect listeners) \X {after.state}
=============================================================================
