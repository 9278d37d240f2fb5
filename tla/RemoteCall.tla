----------------------------- MODULE RemoteCall -----------------------------
(***************************************************************************)
(* What a call over HTTP promises to the one thread that makes it, and     *)
(* what it does not: a call that succeeds has been executed by the server, *)
(* no call is executed more often than it may be sent, but one that is     *)
(* given up, and a repeated one that succeeded, may be executed at any     *)
(* later time.                                                             *)
(***************************************************************************)
EXTENDS Integers

CONSTANTS Ids, NoId, MaxRetries

VARIABLES
    call,       \* the call in progress
    result,     \* and how it ended
    known,      \* calls the server may still execute, and the one in progress
    executions  \* of each call since it was made

vars == <<call, result, known, executions>>

Init ==
    /\ call = NoId
    /\ result = "none"
    /\ known = {}
    /\ executions = [i \in Ids |-> 0]

\* The server comes to know that it will not get some calls any more.
Forgets == known' \subseteq known /\ (call' # NoId => call' \in known')

Begin ==
    /\ call = NoId
    /\ \E i \in Ids \ known :
        /\ call' = i
        /\ known' = known \union {i}
        /\ executions' = [executions EXCEPT ![i] = 0]
    /\ UNCHANGED result

Execute ==
    /\ \E i \in known :
        /\ executions[i] <= MaxRetries
        /\ executions' = [executions EXCEPT ![i] = @ + 1]
    /\ Forgets
    /\ UNCHANGED <<call, result>>

Succeed ==
    /\ call # NoId
    /\ result = "none"
    /\ executions[call] >= 1
    /\ result' = "success"
    /\ Forgets
    /\ UNCHANGED <<call, executions>>

Fail ==
    /\ call # NoId
    /\ result = "none"
    /\ result' = "failure"
    /\ Forgets
    /\ UNCHANGED <<call, executions>>

Return ==
    /\ result # "none"
    /\ call' = NoId
    /\ result' = "none"
    /\ Forgets
    /\ UNCHANGED executions

Forget ==
    /\ Forgets
    /\ UNCHANGED <<call, result, executions>>

Next == Begin \/ Execute \/ Succeed \/ Fail \/ Return \/ Forget

Spec == Init /\ [][Next]_vars
=============================================================================
