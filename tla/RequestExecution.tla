-------------------------- MODULE RequestExecution --------------------------
(***************************************************************************)
(* HttpClient, seen by the server that executes its requests.  What is     *)
(* under way on a connection that ends, or that doRequest closes, is not   *)
(* undone by that: the server may have it and execute it later, also when  *)
(* doRequest has sent it again or has returned.  The two variables follow  *)
(* the steps of the client and hinder none of them, except that an id is   *)
(* not used again while the server may still execute a request with it.    *)
(***************************************************************************)
EXTENDS HttpClient

VARIABLES
    executions,     \* history: how often the server has executed a request
    late            \* copies of a request given up, that it may still execute

execVars == <<vars, executions, late>>

ExecTypeOK ==
    /\ executions \in [Ids -> Nat]
    /\ late \in [Ids -> Nat]

ExecInit ==
    /\ Init
    /\ executions = [i \in Ids |-> 0]
    /\ late = [i \in Ids |-> 0]

-----------------------------------------------------------------------------
\* A step ends a connection on which i is under way.
GivenUp(i) ==
    \E f \in Fds: i \in ToSet(stream[f].requests) /\ stream'[f].requests = <<>>

Follow ==
    /\ late' = [i \in Ids |-> IF GivenUp(i) THEN late[i] + 1 ELSE late[i]]
    /\ UNCHANGED executions

Make(c) ==
    /\ Request(c)
    /\ late[id'[c]] = 0
    /\ executions' = [executions EXCEPT ![id'[c]] = 0]
    /\ UNCHANGED late

Execute(f) ==
    /\ Begins(f)
    /\ executions' = [executions EXCEPT ![Head(stream[f].requests)] = @ + 1]
    /\ UNCHANGED late

ExecuteLate(i) ==
    /\ late[i] > 0
    /\ late' = [late EXCEPT ![i] = @ - 1]
    /\ \/ executions' = [executions EXCEPT ![i] = @ + 1]
       \/ UNCHANGED executions
    /\ UNCHANGED vars

ExecNext ==
    \/ \E c \in Callers: Make(c) \/ (Calling(c) /\ Follow)
    \/ \E f \in Fds: Execute(f) \/ (Completes(f) /\ Follow) \/ (Ends(f) /\ Follow)
    \/ \E i \in Ids: ExecuteLate(i)

ExecSpec == ExecInit /\ [][ExecNext]_execVars

\* The server need not execute anything that was given up, nor begin a reply.
FairExecSpec == ExecSpec /\ Fairness

-----------------------------------------------------------------------------
(* Properties. *)

(* However a request is lost, timed out or sent again (HTTPClient.cpp:200, *)
(* 236), the server executes it at most once for each time it may be sent, *)
(* now or after doRequest has returned.                                    *)
ExecutedAtMost == \A i \in Ids: executions[i] <= MaxRetries + 1

(* A request that got its reply on the first connection it was sent on     *)
(* has been executed exactly once, and will not be executed again.  One    *)
(* that was sent again may have been executed more than once, but at least *)
(* once, also when its reply is an error.                                  *)
AnsweredOnce ==
    \A c \in Callers: pc[c] = "return" /\ reply[c] = id[c] =>
        /\ executions[id[c]] >= 1
        /\ executions[id[c]] + late[id[c]] <= retries[c] + 1

-----------------------------------------------------------------------------
\* The one caller, as RemoteCall sees it.
TheCaller == CHOOSE c \in Callers: TRUE

resultBar == IF pc[TheCaller] # "return" THEN "none"
             ELSE IF ok[TheCaller] THEN "success" ELSE "failure"

knownBar == {i \in Ids: \/ i = id[TheCaller]
                        \/ late[i] > 0
                        \/ \E f \in Fds: i \in ToSet(stream[f].requests)}

Remote == INSTANCE RemoteCall
              WITH call <- id[TheCaller], result <- resultBar, known <- knownBar

(* A call that succeeds was executed, and however often it is sent and     *)
(* whenever it arrives it is not executed more often than RemoteCall says. *)
ImplementsRemoteCall == Remote!Spec
=============================================================================
