------------------------ MODULE AcquisitionRefinement ------------------------
(***************************************************************************)
(* AcquisitionTask implements ImageAcquisition, for an operator who is     *)
(* Patient.  The exposures are those the server completed, not those the   *)
(* driver counted.                                                         *)
(***************************************************************************)
EXTENDS AcquisitionTask

\* The part of a frame in which the server accumulates for this image.
Accumulating ==
    {"NextExposure", "AcquisitionAsync", "WaitStop", "Count",
     "GetMeasuredSpectrum", "UnsubscribeState", "UnsubscribeUpdate",
     "FinishSpectrum", "FinishMeasurement", "Report"}

\* No acquisition, or one that is over although the task has not said so.
Ended == pc \in {"Wait", "Begin"} \/ (pc = "Top" /\ ADAcquire = 0) \/ status = "error"

phaseBar == IF Ended THEN "idle"
            ELSE IF pc \in {"Publish", "EndFrame"} THEN "published" ELSE "exposing"

takenBar ==
    CASE phaseBar = "published"                         -> spectrum.exposures
      [] phaseBar = "exposing" /\ pc \in Accumulating   -> server.exposures
      [] OTHER                                          -> 0

contentBar == IF phaseBar = "published" THEN spectrum.data ELSE "none"

Images == INSTANCE ImageAcquisition
              WITH phase <- phaseBar, taken <- takenBar,
                   images <- ADNumImagesCounter, content <- contentBar,
                   Contents <- Fetched

(* The acquisition as seen at ADNumImagesCounter, the published images and *)
(* the server's exposures behaves as ImageAcquisition says: the safety     *)
(* part holds whatever calls fail, with blank images where the GET of      *)
(* their data is one of those that may.                                    *)
ImplementsImages == Images!SafeSpec

(* The same with its fairness: every frame ends in an image or in an end.  *)
ImplementsImagesFairly == Images!Spec
=============================================================================
