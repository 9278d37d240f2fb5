---------------------------- MODULE MCAcquisition ----------------------------
(* Model checking AcquisitionTask on small instances. *)
EXTENDS AcquisitionRefinement, TLC

CONSTANTS g1, g2, g3

TwoGuids   == {g1, g2}
ThreeGuids == {g1, g2, g3}

NoCalls  == {}
AllCalls == Calls \union {"Attachment"}
\* A lost reply to FinishSpectrum leaves a spectrum id the server forgot.
AllCallsButFinish == AllCalls \ {"FinishSpectrum"}

SomeCalls == {"AcquisitionAsync"}

AllModes   == {"Single", "Multiple", "Continuous"}
MultipleMode == {"Multiple"}
SingleMode == {"Single"}

SameGuids == Permutations(Guids)
=============================================================================
