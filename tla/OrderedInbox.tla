---------------------------- MODULE OrderedInbox ----------------------------
(***************************************************************************)
(* What the acquisition takes for granted of the notifications: while it   *)
(* listens none is lost, and they are handled in the order they were sent, *)
(* each once and one at a time.  LiveSpectrum and AcquisitionTask are      *)
(* written on it.                                                          *)
(***************************************************************************)
EXTENDS Integers

VARIABLES
    last,       \* the number of the notification sent last
    pending,    \* notifications that have not been handled
    handling,   \* the notifications whose callbacks run
    listening   \* the acquisition waits for notifications

vars == <<last, pending, handling, listening>>

Init ==
    /\ last = 0
    /\ pending = {}
    /\ handling = {}
    /\ listening = FALSE

\* What is sent may be what the acquisition gives up on.
Send ==
    /\ last' > last
    /\ pending' = pending \union {last'}
    /\ listening' \in {listening, FALSE}
    /\ UNCHANGED handling

Handle ==
    /\ handling = {}
    /\ \E n \in pending :
        /\ \A m \in pending : n <= m
        /\ handling' = {n}
        /\ pending' = pending \ {n}
    /\ UNCHANGED <<last, listening>>

Done ==
    /\ handling # {}
    /\ handling' = {}
    /\ UNCHANGED <<last, pending, listening>>

\* What is not listened to may have no callback.
Drop ==
    /\ ~listening
    /\ pending' \subseteq pending
    /\ UNCHANGED <<last, handling, listening>>

Listen ==
    /\ listening' = ~listening
    /\ UNCHANGED <<last, pending, handling>>

Next == Send \/ Handle \/ Done \/ Drop \/ Listen

Spec == Init /\ [][Next]_vars
=============================================================================
