---------------------------- MODULE WebSocketRpc ----------------------------
(***************************************************************************)
(* JsonRPCClientWS: JSON-RPC calls over one WebSocket connection.          *)
(*                                                                         *)
(*   the callers      threads that make calls.  They share m_response and  *)
(*                    one binary semaphore, m_callbackEventId; an id goes  *)
(*                    out with every request but is not compared.  Some of *)
(*                    them hold the driver lock across a call (writeInt32  *)
(*                    and the other write methods do, the task does not);  *)
(*   the event loop   one thread runs every handler: of the connection, of *)
(*                    replies, and the callbacks of notifications, of      *)
(*                    which SpectrumUpdate takes the driver lock.          *)
(*                                                                         *)
(* get_connection fails only for a malformed URI, which is left out.       *)
(* Accesses to m_response, to m_connected and to the event are atomic      *)
(* here.  A definition marked "Variant" is a plausible mistake in the      *)
(* definition that follows it; no specification uses it.                   *)
(***************************************************************************)
EXTENDS Integers, Sequences, FiniteSets

CONSTANTS
    Callers,        \* threads that make calls
    LockHolders,    \* callers that hold the driver lock across a call
    Ids,            \* ids of requests
    NoId,
    Connections,    \* connections, one is used again when it is closed
    NoConnection,
    MaxInbox,       \* bound: a notification or the end of a connection comes
                    \* while fewer handlers than this wait to be run
    Updates         \* TRUE: the server sends SpectrumUpdate

ASSUME LockHoldersAssumption == LockHolders \subseteq Callers
ASSUME NoIdAssumption        == NoId \notin Ids /\ NoConnection \notin Connections
ASSUME MaxInboxAssumption    == MaxInbox \in Nat \ {0}
ASSUME ThreadsAssumption     == Callers \intersect {"free", "loop"} = {}

VARIABLES
    lock,           \* who holds the driver lock
    m_connected,
    m_hdl,          \* the connection made last
    m_response,     \* id of the reply stored last, or NoId
    event,          \* m_callbackEventId
    pc,             \* of each caller
    id,             \* of the request of each caller
    result,         \* id of the reply it returned with, NoId for an exception
    loop,           \* what the event loop is doing
    connections,    \* state of each connection
    requests,       \* requests the server has not answered
    inbox,          \* handlers to be run, in order
    dropped         \* history: the server has closed a connection

client == <<m_connected, m_hdl, m_response, event>>
caller == <<pc, id, result>>
remote == <<connections, requests, inbox, dropped>>

vars == <<lock, client, caller, loop, remote>>

-----------------------------------------------------------------------------
Handlers ==
    [type : {"open", "fail", "close", "state", "update"}]
    \union [type : {"reply"}, id : Ids]

Handler(t) == [type |-> t]
Reply(i)   == [type |-> "reply", id |-> i]

TypeOK ==
    /\ lock \in LockHolders \union {"free", "loop"}
    /\ m_connected \in BOOLEAN
    /\ m_hdl \in Connections \union {NoConnection}
    /\ m_response \in Ids \union {NoId}
    /\ event \in {"empty", "full"}
    /\ pc \in [Callers -> {"idle", "call", "connect", "connecting", "prepare", "send",
                           "wait", "read", "return"}]
    /\ id \in [Callers -> Ids \union {NoId}]
    /\ result \in [Callers -> Ids \union {NoId}]
    /\ loop \in {"idle", "callback", "locked"}
    /\ connections \in [Connections -> {"none", "opening", "open", "closed"}]
    /\ requests \subseteq Ids
    /\ inbox \in Seq(Handlers)
    /\ dropped \in BOOLEAN

Init ==
    /\ lock = "free"
    /\ m_connected = FALSE
    /\ m_hdl = NoConnection
    /\ m_response = NoId
    /\ event = "empty"
    /\ pc = [c \in Callers |-> "idle"]
    /\ id = [c \in Callers |-> NoId]
    /\ result = [c \in Callers |-> NoId]
    /\ loop = "idle"
    /\ connections = [n \in Connections |-> "none"]
    /\ requests = {}
    /\ inbox = <<>>
    /\ dropped = FALSE

-----------------------------------------------------------------------------
(* JsonRPCClientWS::call, by caller c. *)

Goes(c, next) == pc' = [pc EXCEPT ![c] = next]

\* A write method is entered with the driver lock taken.  Bound: a call
\* begins while there is a connection left for it to make.
Enter(c) ==
    /\ pc[c] = "idle"
    /\ \E n \in Connections: connections[n] \in {"none", "closed"}
    /\ IF c \in LockHolders THEN lock = "free" /\ lock' = c ELSE UNCHANGED lock
    /\ Goes(c, "call")
    /\ UNCHANGED <<client, id, result, loop, remote>>

Call(c) ==
    /\ pc[c] = "call"
    /\ Goes(c, IF m_connected THEN "prepare" ELSE "connect")
    /\ UNCHANGED <<lock, client, id, result, loop, remote>>

Connect(c) ==
    /\ pc[c] = "connect"
    /\ \E n \in Connections:
          /\ connections[n] \in {"none", "closed"}
          /\ m_hdl' = n
          /\ connections' = [connections EXCEPT ![n] = "opening"]
    /\ Goes(c, "connecting")
    /\ UNCHANGED <<lock, m_connected, m_response, event, id, result, loop, requests, inbox, dropped>>

\* Variant: connect only starts the connection.
ConnectedAtOnce(c) ==
    /\ pc[c] = "connecting"
    /\ Goes(c, "prepare")
    /\ UNCHANGED <<lock, client, id, result, loop, remote>>

\* Any signal ends the wait for the connection.
Connected(c) ==
    /\ pc[c] = "connecting"
    /\ event = "full"
    /\ event' = "empty"
    /\ Goes(c, "prepare")
    /\ UNCHANGED <<lock, m_connected, m_hdl, m_response, id, result, loop, remote>>

\* Ids are never used again: this one is new to everybody.
InUse == requests \union {id[c] : c \in Callers} \union {result[c] : c \in Callers}
         \union {m_response}
         \union {inbox[i].id : i \in {j \in DOMAIN inbox : inbox[j].type = "reply"}}

Prepare(c) ==
    /\ pc[c] = "prepare"
    /\ \E i \in Ids \ InUse: id' = [id EXCEPT ![c] = i]
    /\ m_response' = NoId
    /\ Goes(c, "send")
    /\ UNCHANGED <<lock, m_connected, m_hdl, event, result, loop, remote>>

\* Without an open connection send fails, and the call throws.
Send(c) ==
    /\ pc[c] = "send"
    /\ IF m_hdl # NoConnection /\ connections[m_hdl] = "open"
       THEN /\ requests' = requests \union {id[c]}
            /\ Goes(c, "wait")
            /\ UNCHANGED result
       ELSE /\ result' = [result EXCEPT ![c] = NoId]
            /\ Goes(c, "return")
            /\ UNCHANGED requests
    /\ UNCHANGED <<lock, client, id, loop, connections, inbox, dropped>>

\* Variant: the caller gives up waiting.
WaitGivesUp(c) ==
    /\ pc[c] = "wait"
    /\ IF event = "full"
       THEN event' = "empty" /\ Goes(c, "read")
       ELSE UNCHANGED event /\ Goes(c, "return")
    /\ UNCHANGED <<lock, m_connected, m_hdl, m_response, id, result, loop, remote>>

\* Variant: the response is cleared after the wait, not before the request.
WaitThenClear(c) ==
    /\ pc[c] = "wait"
    /\ event = "full"
    /\ event' = "empty"
    /\ m_response' = NoId
    /\ Goes(c, "read")
    /\ UNCHANGED <<lock, m_connected, m_hdl, id, result, loop, remote>>

Wait(c) ==
    /\ pc[c] = "wait"
    /\ event = "full"
    /\ event' = "empty"
    /\ Goes(c, "read")
    /\ UNCHANGED <<lock, m_connected, m_hdl, m_response, id, result, loop, remote>>

\* Whatever m_response holds is taken for the reply; without a reply in it
\* the response is invalid and the call throws.
Read(c) ==
    /\ pc[c] = "read"
    /\ result' = [result EXCEPT ![c] = m_response]
    /\ Goes(c, "return")
    /\ UNCHANGED <<lock, client, id, loop, remote>>

Return(c) ==
    /\ pc[c] = "return"
    /\ lock' = IF lock = c THEN "free" ELSE lock
    /\ id' = [id EXCEPT ![c] = NoId]
    /\ result' = [result EXCEPT ![c] = NoId]
    /\ Goes(c, "idle")
    /\ UNCHANGED <<client, loop, remote>>

-----------------------------------------------------------------------------
(* The event loop.  It runs one handler at a time, to its end. *)

\* Variant: on_fail does not signal.
SignallingSuccess == {"open", "close", "reply"}

\* The handlers that signal m_callbackEventId.
Signalling == {"open", "fail", "close", "reply"}

Handle ==
    /\ loop = "idle"
    /\ inbox # <<>>
    /\ inbox' = Tail(inbox)
    /\ LET h == Head(inbox)
       IN /\ m_connected' = IF h.type \in {"open", "fail", "close"} THEN h.type = "open"
                            ELSE m_connected
          /\ m_response' = IF h.type = "reply" THEN h.id ELSE m_response
          /\ event' = IF h.type \in Signalling THEN "full" ELSE event
          /\ loop' = IF h.type = "update" THEN "callback" ELSE "idle"
    /\ UNCHANGED <<lock, m_hdl, caller, connections, requests, dropped>>

\* The SpectrumUpdate callback waits for the driver lock.
TakeLock ==
    /\ loop = "callback"
    /\ lock = "free"
    /\ lock' = "loop"
    /\ loop' = "locked"
    /\ UNCHANGED <<client, caller, remote>>

ReleaseLock ==
    /\ loop = "locked"
    /\ lock' = "free"
    /\ loop' = "idle"
    /\ UNCHANGED <<client, caller, remote>>

-----------------------------------------------------------------------------
(* The server and the network. *)

local == <<lock, client, caller, loop>>

Opens(n) ==
    /\ connections[n] = "opening"
    /\ \/ /\ connections' = [connections EXCEPT ![n] = "open"]
          /\ inbox' = Append(inbox, Handler("open"))
       \/ /\ connections' = [connections EXCEPT ![n] = "closed"]
          /\ inbox' = Append(inbox, Handler("fail"))
    /\ UNCHANGED <<local, requests, dropped>>

\* The requests that were not answered are lost.
Closes(n) ==
    /\ connections[n] = "open"
    /\ Len(inbox) < MaxInbox
    /\ connections' = [connections EXCEPT ![n] = "closed"]
    /\ requests' = {}
    /\ inbox' = Append(inbox, Handler("close"))
    /\ dropped' = TRUE
    /\ UNCHANGED local

Answers(i) ==
    /\ i \in requests
    /\ requests' = requests \ {i}
    /\ inbox' = Append(inbox, Reply(i))
    /\ UNCHANGED <<local, connections, dropped>>

Notifies ==
    /\ Len(inbox) < MaxInbox
    /\ \E n \in Connections: connections[n] = "open"
    /\ inbox' = Append(inbox, Handler(IF Updates THEN "update" ELSE "state"))
    /\ UNCHANGED <<local, connections, requests, dropped>>

-----------------------------------------------------------------------------
Calling(c) ==
    \/ Call(c) \/ Connect(c) \/ Connected(c) \/ Prepare(c) \/ Send(c)
    \/ Wait(c) \/ Read(c) \/ Return(c)

Loop == Handle \/ TakeLock \/ ReleaseLock

Next ==
    \/ \E c \in Callers: Enter(c) \/ Calling(c)
    \/ Loop
    \/ \E n \in Connections: Opens(n) \/ Closes(n)
    \/ \E i \in Ids: Answers(i)
    \/ Notifies

Spec == Init /\ [][Next]_vars

(* The threads run, and the server answers what it received. *)
Fairness ==
    /\ \A c \in Callers: WF_vars(Calling(c))
    /\ WF_vars(Loop)
    /\ \A n \in Connections: WF_vars(Opens(n))
    /\ \A i \in Ids: WF_vars(Answers(i))

FairSpec == Spec /\ Fairness

-----------------------------------------------------------------------------
(* Properties. *)

(* As long as the server keeps its connections, a call returns the reply   *)
(* to its own request, or throws.                                          *)
OwnReply ==
    \A c \in Callers:
        pc[c] = "return" /\ ~dropped => result[c] \in {id[c], NoId}

(* As long as the server keeps its connections, a call that is sent gets   *)
(* its reply, a result or an error of the server; only one that found no   *)
(* connection throws without.                                              *)
AnsweredWhenConnected ==
    \A c \in Callers:
        pc[c] = "return" /\ result[c] = NoId /\ ~dropped =>
            m_hdl = NoConnection \/ connections[m_hdl] # "open"

(* "Wait the connection" (line 124): connect returns when the connection   *)
(* is open or has failed, not before.                                      *)
ConnectWaits ==
    \A c \in Callers:
        pc[c] \in {"prepare", "send"} =>
            m_hdl = NoConnection \/ connections[m_hdl] # "opening"

(* That much is true until the server closes a connection. *)
FirstConnectWaits == dropped \/ ConnectWaits

(* Nobody waits for a signal that nobody will give: whatever has been lost *)
(* or closed, the signal is there, on its way to a handler that gives it,  *)
(* or owed by a connection that opens or a request that is to be answered. *)
SignalOwed ==
    \A c \in Callers:
        pc[c] \in {"connecting", "wait"} =>
            \/ event = "full"
            \/ \E k \in DOMAIN inbox: inbox[k].type \in Signalling
            \/ pc[c] = "connecting" /\ m_hdl # NoConnection /\ connections[m_hdl] = "opening"
            \/ pc[c] = "wait" /\ id[c] \in requests

(* Every call returns, whenever the server closes a connection: the wait   *)
(* for the reply has no timeout, so that it takes a signal for every       *)
(* request, every failed connection and every one that is lost.            *)
CallReturns ==
    \A c \in Callers: pc[c] = "call" ~> pc[c] = "return"

(* A thread that waits for a reply does not keep the event loop, which has *)
(* to deliver it, waiting for the driver lock.                             *)
NoDeadlock ==
    ~ /\ loop = "callback"
      /\ \E c \in LockHolders: lock = c /\ pc[c] \in {"connecting", "wait"}
         /\ event = "empty"
=============================================================================
