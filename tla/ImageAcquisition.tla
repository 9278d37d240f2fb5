-------------------------- MODULE ImageAcquisition --------------------------
(***************************************************************************)
(* What an acquisition promises to the users of the driver: an image is    *)
(* made of exactly NumExposures completed exposures, images are counted    *)
(* from one as they are published, an acquisition may end at any time, and *)
(* no image is waited for in vain.  It does not promise that the data of   *)
(* an image arrive: where Contents has "zeros" an image may be blank.      *)
(***************************************************************************)
EXTENDS Integers

CONSTANTS
    NumExposures,   \* exposures accumulated into an image
    MaxImages,      \* bound: images are not counted further
    Contents        \* what a published image may hold: "counts", "zeros"

VARIABLES
    phase,  \* "idle", "exposing" an image or just "published" it
    taken,  \* exposures the analyser completed for this image
    images, \* images published in this acquisition
    content \* what the image just published holds, or "none"

vars == <<phase, taken, images, content>>

Init ==
    /\ phase = "idle"
    /\ taken = 0
    /\ images = 0
    /\ content = "none"

Begin ==
    /\ phase = "idle"
    /\ phase' = "exposing"
    /\ images' = 0
    /\ UNCHANGED <<taken, content>>

Expose ==
    /\ phase = "exposing"
    /\ taken < NumExposures
    /\ taken' = taken + 1
    /\ UNCHANGED <<phase, images, content>>

Publish ==
    /\ phase = "exposing"
    /\ taken = NumExposures
    /\ phase' = "published"
    /\ content' \in Contents
    /\ images' = IF images < MaxImages THEN images + 1 ELSE images
    /\ UNCHANGED taken

Continue ==
    /\ phase = "published"
    /\ phase' = "exposing"
    /\ taken' = 0
    /\ content' = "none"
    /\ UNCHANGED images

\* Completed, aborted or failed.
End ==
    /\ phase # "idle"
    /\ phase' = "idle"
    /\ taken' = 0
    /\ content' = "none"
    /\ UNCHANGED images

Next == Begin \/ Expose \/ Publish \/ Continue \/ End

SafeSpec == Init /\ [][Next]_vars

Spec == SafeSpec /\ WF_vars(Publish \/ Continue \/ End)
=============================================================================
