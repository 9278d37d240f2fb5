----------------------------- MODULE HttpClient -----------------------------
(***************************************************************************)
(* HTTPClient::doRequest over its pool of keep-alive connections, and the  *)
(* retries, timeouts and closed connections it has to cope with.           *)
(*                                                                         *)
(* A reply arrives in two parts: its status line, and its headers and      *)
(* content.  A server executes the requests of a connection in order, and  *)
(* may close a connection at any time.  The calls on a descriptor          *)
(* (select, send, recv) are atomic; a partial send, the encodings of the   *)
(* content and malformed headers are left out, as is the notification      *)
(* server that connectionCallback creates.  A definition marked "Variant"  *)
(* is a plausible mistake in the definition that follows it; no            *)
(* specification uses it.                                                  *)
(***************************************************************************)
EXTENDS Integers, Sequences, SequencesExt

CONSTANTS
    Callers,        \* threads that make requests
    NumSockets,     \* MAX_SOCKETS
    MaxRetries,     \* MAX_HTTP_RETRIES
    Ids,            \* requests
    NoId,
    Fds,            \* descriptors, one is used again when it is closed
    INVALID_SOCKET

ASSUME NumSocketsAssumption == NumSockets \in Nat \ {0}
ASSUME MaxRetriesAssumption == MaxRetries \in Nat
ASSUME NoIdAssumption       == NoId \notin Ids /\ INVALID_SOCKET \notin Fds

VARIABLES
    mSockets,       \* socket_t: its descriptor, mutex and whether it is closed
    pc, id,         \* of each caller, and its request
    s,              \* the socket it uses
    retries,
    ok,             \* what doRequest and the test of the code return
    reply,          \* the request that the content read is the reply to
    disturbed,      \* history: the network or the server failed during the call
    stream          \* of each descriptor: state, requests, the one that is being
                    \* served, replies to be read

callers == <<pc, id, s, retries, ok, reply, disturbed>>
vars    == <<mSockets, callers, stream>>

-----------------------------------------------------------------------------
Sockets == 1 .. NumSockets

Status(i, good) == [part |-> "status", id |-> i, good |-> good]
Rest(i, close)  == [part |-> "rest", id |-> i, close |-> close]
Parts == {Status(i, b) : i \in Ids, b \in BOOLEAN} \union {Rest(i, b) : i \in Ids, b \in BOOLEAN}

Unused == [state |-> "unused", requests |-> <<>>, serving |-> NoId, replies |-> <<>>]

TypeOK ==
    /\ mSockets \in [Sockets -> [fd : Fds \union {INVALID_SOCKET}, locked : BOOLEAN,
                                 closed : BOOLEAN]]
    /\ pc \in [Callers -> {"idle", "pick", "unlock", "connect", "connecting", "write",
                           "select", "status", "rest", "return"}]
    /\ id \in [Callers -> Ids \union {NoId}]
    /\ s \in [Callers -> Sockets]
    /\ retries \in [Callers -> 0 .. MaxRetries]
    /\ ok \in [Callers -> BOOLEAN]
    /\ reply \in [Callers -> Ids \union {NoId}]
    /\ disturbed \in [Callers -> BOOLEAN]
    /\ stream \in [Fds -> [state : {"unused", "open", "ended"}, requests : Seq(Ids),
                           serving : Ids \union {NoId}, replies : Seq(Parts)]]

Init ==
    /\ mSockets = [k \in Sockets |-> [fd |-> INVALID_SOCKET, locked |-> FALSE, closed |-> TRUE]]
    /\ pc = [c \in Callers |-> "idle"]
    /\ id = [c \in Callers |-> NoId]
    /\ s = [c \in Callers |-> 1]
    /\ retries = [c \in Callers |-> 0]
    /\ ok = [c \in Callers |-> FALSE]
    /\ reply = [c \in Callers |-> NoId]
    /\ disturbed = [c \in Callers |-> FALSE]
    /\ stream = [f \in Fds |-> Unused]

-----------------------------------------------------------------------------
(* Helpers of caller c. *)

Goes(c, next) == pc' = [pc EXCEPT ![c] = next]
Fd(c)         == mSockets[s[c]].fd
Uses(c, f)    == f \in Fds /\ Fd(c) = f

\* What c finds on its descriptor: recv and send fail on one that is closed.
StateOf(c)   == IF Fd(c) \in Fds THEN stream[Fd(c)].state ELSE "unused"
Replies(c)   == IF Fd(c) \in Fds THEN stream[Fd(c)].replies ELSE <<>>

Destroyed(c) == [f \in Fds |-> IF Uses(c, f) THEN Unused ELSE stream[f]]

\* Variant: the descriptor is not closed.
CloseForgetsDescriptor(c) ==
    /\ mSockets' = [mSockets EXCEPT ![s[c]].closed = TRUE]
    /\ UNCHANGED stream

\* close: the socket keeps the number of the descriptor.
Close(c) ==
    /\ mSockets' = [mSockets EXCEPT ![s[c]].closed = TRUE]
    /\ stream' = Destroyed(c)

Returns(c, value) ==
    /\ Goes(c, "return")
    /\ ok' = [ok EXCEPT ![c] = value]

\* Variant: a retry is not counted.
CloseAndRetryUncounted(c) ==
    /\ Close(c)
    /\ Goes(c, "connect")
    /\ UNCHANGED <<retries, ok>>

\* The connection is closed; the first time, a new one is tried.
CloseAndRetry(c) ==
    /\ Close(c)
    /\ IF retries[c] < MaxRetries
       THEN Goes(c, "connect") /\ retries' = [retries EXCEPT ![c] = @ + 1] /\ UNCHANGED ok
       ELSE Returns(c, FALSE) /\ UNCHANGED retries

Disturb(c) == disturbed' = [disturbed EXCEPT ![c] = TRUE]

-----------------------------------------------------------------------------
(* doRequest. *)

\* Ids are never used again: this one is new to everybody.
Carried(f) == ToSet(stream[f].requests) \union {stream[f].serving}
              \union {stream[f].replies[k].id : k \in DOMAIN stream[f].replies}
InUse == {id[c] : c \in Callers} \union {reply[c] : c \in Callers}
         \union UNION {Carried(f) : f \in Fds}

Request(c) ==
    /\ pc[c] = "idle"
    /\ \E i \in Ids \ InUse: id' = [id EXCEPT ![c] = i]
    /\ s' = [s EXCEPT ![c] = 1]
    /\ retries' = [retries EXCEPT ![c] = 0]
    /\ reply' = [reply EXCEPT ![c] = NoId]
    /\ disturbed' = [disturbed EXCEPT ![c] = FALSE]
    /\ Goes(c, "pick")
    /\ UNCHANGED <<mSockets, ok, stream>>

\* Takes the first socket whose mutex is free.
Pick(c) ==
    /\ pc[c] = "pick"
    /\ \/ /\ ~mSockets[s[c]].locked
          /\ mSockets' = [mSockets EXCEPT ![s[c]].locked = TRUE]
          /\ Goes(c, "unlock")
          /\ UNCHANGED <<s, ok, disturbed>>
       \/ /\ mSockets[s[c]].locked /\ s[c] < NumSockets
          /\ s' = [s EXCEPT ![c] = @ + 1]
          /\ UNCHANGED <<mSockets, pc, ok, disturbed>>
       \/ /\ mSockets[s[c]].locked /\ s[c] = NumSockets
          /\ Returns(c, FALSE)
          /\ Disturb(c)
          /\ UNCHANGED <<mSockets, s>>
    /\ UNCHANGED <<id, retries, reply, stream>>

\* The guard has no name: it is destroyed, and the mutex unlocked, at the
\* end of the statement that makes it.
Unlock(c) ==
    /\ pc[c] = "unlock"
    /\ mSockets' = [mSockets EXCEPT ![s[c]].locked = FALSE]
    /\ Goes(c, "connect")
    /\ UNCHANGED <<id, s, retries, ok, reply, disturbed, stream>>

Connect(c) ==
    /\ pc[c] = "connect"
    /\ IF mSockets[s[c]].closed
       THEN /\ \E f \in Fds:
                  /\ stream[f].state = "unused"
                  /\ mSockets' = [mSockets EXCEPT ![s[c]].fd = f]
                  /\ stream' = [stream EXCEPT ![f].state = "open"]
            /\ Goes(c, "connecting")
       ELSE /\ Goes(c, "write")
            /\ UNCHANGED <<mSockets, stream>>
    /\ UNCHANGED <<id, s, retries, ok, reply, disturbed>>

\* A connection that the server refused looks like one it has closed: the
\* wait ends, and nothing asks for its error.
Connected(c) ==
    /\ pc[c] = "connecting"
    /\ \/ /\ mSockets' = [mSockets EXCEPT ![s[c]].closed = FALSE]
          /\ Goes(c, "write")
          /\ UNCHANGED <<ok, disturbed, stream>>
       \/ /\ mSockets' = [mSockets EXCEPT ![s[c]].fd = INVALID_SOCKET]
          /\ stream' = Destroyed(c)
          /\ Returns(c, FALSE)
          /\ Disturb(c)
    /\ UNCHANGED <<id, s, retries, reply>>

\* What is sent on a connection the server has closed may be lost silently.
Write(c) ==
    /\ pc[c] = "write"
    /\ \/ /\ StateOf(c) = "open"
          /\ stream' = [stream EXCEPT ![Fd(c)].requests = Append(@, id[c])]
          /\ Goes(c, "select")
          /\ UNCHANGED <<mSockets, retries, ok>>
       \/ /\ StateOf(c) = "ended"
          /\ Goes(c, "select")
          /\ UNCHANGED <<mSockets, retries, ok, stream>>
       \/ /\ StateOf(c) # "open"
          /\ CloseAndRetry(c)
    /\ UNCHANGED <<id, s, reply, disturbed>>

Readable(c) == Replies(c) # <<>> \/ StateOf(c) = "ended"

\* Variant: after a timeout the connection is kept.
SelectKeepsConnection(c) ==
    /\ pc[c] = "select"
    /\ IF Readable(c)
       THEN Goes(c, "status") /\ UNCHANGED <<mSockets, ok, disturbed, stream>>
       ELSE Returns(c, FALSE) /\ Disturb(c) /\ UNCHANGED <<mSockets, stream>>
    /\ UNCHANGED <<id, s, retries, reply>>

\* Variant: the timeout is taken for something to read.
SelectTakesTimeout(c) ==
    /\ pc[c] = "select"
    /\ Goes(c, "status")
    /\ UNCHANGED <<mSockets, id, s, retries, ok, reply, disturbed, stream>>

\* Variant: there is no timeout.
SelectWaits(c) ==
    /\ pc[c] = "select"
    /\ Readable(c)
    /\ Goes(c, "status")
    /\ UNCHANGED <<mSockets, id, s, retries, ok, reply, disturbed, stream>>

\* Variant: after a timeout the request is sent again.
SelectSendsAgain(c) ==
    /\ pc[c] = "select"
    /\ IF Readable(c)
       THEN Goes(c, "status") /\ UNCHANGED <<mSockets, ok, disturbed, stream>>
       ELSE Close(c) /\ Goes(c, "connect") /\ UNCHANGED <<ok, disturbed>>
    /\ UNCHANGED <<id, s, retries, reply>>

\* The wait ends with something to read, an error, or the timeout.
Select(c) ==
    /\ pc[c] = "select"
    /\ IF Readable(c)
       THEN Goes(c, "status") /\ UNCHANGED <<mSockets, ok, disturbed, stream>>
       ELSE Close(c) /\ Returns(c, FALSE) /\ Disturb(c)
    /\ UNCHANGED <<id, s, retries, reply>>

\* readLine and the functions that read the content: the next part.
Received(c) == stream' = [stream EXCEPT ![Fd(c)].replies = Tail(@)]

\* Variant: a request is sent again only when it could not be written.
StatusNoRetry(c) ==
    /\ pc[c] = "status"
    /\ \/ /\ Replies(c) # <<>>
          /\ Received(c)
          /\ LET p == Head(Replies(c))
             IN ok' = [ok EXCEPT ![c] = p.part = "status" /\ p.good]
          /\ Goes(c, "rest")
          /\ UNCHANGED mSockets
       \/ /\ Replies(c) = <<>> /\ StateOf(c) # "open"
          /\ Close(c)
          /\ Returns(c, FALSE)
    /\ UNCHANGED <<id, s, retries, reply, disturbed>>

\* Variant: of a reply with an error code only the status line is read.
StatusReturnsError(c) ==
    /\ pc[c] = "status"
    /\ \/ /\ Replies(c) # <<>>
          /\ Received(c)
          /\ LET p == Head(Replies(c))
             IN /\ ok' = [ok EXCEPT ![c] = p.part = "status" /\ p.good]
                /\ Goes(c, IF p.part = "status" /\ p.good THEN "rest" ELSE "return")
          /\ UNCHANGED <<mSockets, retries>>
       \/ /\ Replies(c) = <<>> /\ StateOf(c) # "open"
          /\ CloseAndRetry(c)
    /\ UNCHANGED <<id, s, reply, disturbed>>

\* The status line; anything else has no code.  The code is tested when the
\* whole reply has been read.
ReadStatus(c) ==
    /\ pc[c] = "status"
    /\ \/ /\ Replies(c) # <<>>
          /\ Received(c)
          /\ LET p == Head(Replies(c))
             IN ok' = [ok EXCEPT ![c] = p.part = "status" /\ p.good]
          /\ Goes(c, "rest")
          /\ UNCHANGED <<mSockets, retries>>
       \/ /\ Replies(c) = <<>> /\ StateOf(c) # "open"
          /\ CloseAndRetry(c)
    /\ UNCHANGED <<id, s, reply, disturbed>>

\* Headers and content; a status line among them is skipped.
ReadRest(c) ==
    /\ pc[c] = "rest"
    /\ \/ /\ Replies(c) # <<>>
          /\ LET p == Head(Replies(c))
             IN IF p.part = "rest"
                THEN /\ reply' = [reply EXCEPT ![c] = p.id]
                     /\ IF p.close THEN Close(c) ELSE Received(c) /\ UNCHANGED mSockets
                     /\ Goes(c, "return")
                ELSE Received(c) /\ UNCHANGED <<reply, mSockets, pc>>
          /\ UNCHANGED ok
       \/ /\ Replies(c) = <<>> /\ StateOf(c) # "open"
          /\ Close(c)
          /\ Returns(c, FALSE)
          /\ UNCHANGED reply
    /\ UNCHANGED <<id, s, retries, disturbed>>

Return(c) ==
    /\ pc[c] = "return"
    /\ Goes(c, "idle")
    /\ id' = [id EXCEPT ![c] = NoId]
    /\ reply' = [reply EXCEPT ![c] = NoId]
    /\ ok' = [ok EXCEPT ![c] = FALSE]
    /\ UNCHANGED <<mSockets, s, retries, disturbed, stream>>

-----------------------------------------------------------------------------
(* The server, on the connection of descriptor f. *)

Begins(f) ==
    /\ stream[f].requests # <<>>
    /\ stream[f].serving = NoId
    /\ \E good \in BOOLEAN:
          LET i == Head(stream[f].requests)
          IN stream' = [stream EXCEPT ![f].requests = Tail(@),
                                      ![f].serving = i,
                                      ![f].replies = Append(@, Status(i, good))]
    /\ UNCHANGED <<mSockets, callers>>

Completes(f) ==
    /\ stream[f].serving # NoId
    /\ \E close \in BOOLEAN:
          stream' = [stream EXCEPT ![f].serving = NoId,
                                   ![f].replies = Append(@, Rest(stream[f].serving, close))]
    /\ UNCHANGED <<mSockets, callers>>

\* What was sent may be lost with the connection.  It disturbs the call
\* that uses it when its reply has begun, or when no retry is left.
Ends(f) ==
    /\ stream[f].state = "open"
    /\ \E kept \in {<<>>, stream[f].replies}:
          stream' = [stream EXCEPT ![f] = [state |-> "ended", requests |-> <<>>,
                                           serving |-> NoId, replies |-> kept]]
    /\ disturbed' = [c \in Callers |->
                       \/ disturbed[c]
                       \/ /\ Uses(c, f)
                          /\ \/ retries[c] = MaxRetries
                             \/ stream[f].replies # <<>>
                             \/ pc[c] \in {"status", "rest"}]
    /\ UNCHANGED <<mSockets, pc, id, s, retries, ok, reply>>

-----------------------------------------------------------------------------
Calling(c) ==
    \/ Pick(c) \/ Unlock(c) \/ Connect(c) \/ Connected(c) \/ Write(c)
    \/ Select(c) \/ ReadStatus(c) \/ ReadRest(c) \/ Return(c)

Next ==
    \/ \E c \in Callers: Request(c) \/ Calling(c)
    \/ \E f \in Fds: Begins(f) \/ Completes(f) \/ Ends(f)

Spec == Init /\ [][Next]_vars

(* The threads run, and the server completes a reply that it has begun.    *)
(* It need not begin one: the wait for the first byte has a timeout.       *)
Fairness ==
    /\ \A c \in Callers: WF_vars(Calling(c))
    /\ \A f \in Fds: WF_vars(Completes(f))

FairSpec == Spec /\ Fairness

-----------------------------------------------------------------------------
(* Properties. *)

(* "issue an HTTP request and get server's response": a request that       *)
(* succeeds got the reply to itself, never one that was left on the        *)
(* connection by an earlier request or is meant for another thread.        *)
OwnReply ==
    \A c \in Callers: pc[c] = "return" /\ ok[c] => reply[c] = id[c]

(* A connection kept for the next request has nothing under way, however   *)
(* the requests before it ended.                                           *)
KeptConnectionsQuiet ==
    (\A c \in Callers: pc[c] = "idle") =>
        \A f \in Fds: /\ stream[f].requests = <<>> /\ stream[f].replies = <<>>
                      /\ stream[f].serving = NoId

(* No descriptor leaks, and no socket uses a descriptor that was closed    *)
(* and may by now be another connection's.                                 *)
DescriptorsOwned ==
    /\ \A f \in Fds: stream[f].state # "unused" =>
          \E k \in Sockets:
              /\ mSockets[k].fd = f
              /\ mSockets[k].closed => \E c \in Callers: s[c] = k /\ pc[c] = "connecting"
    /\ \A k \in Sockets: ~mSockets[k].closed =>
          mSockets[k].fd \in Fds /\ stream[mSockets[k].fd].state # "unused"

(* A connection that the server closes between two requests, or before it  *)
(* begins to reply, does not fail the request: the retry makes it good.    *)
ClosedConnectionRetried ==
    \A c \in Callers: pc[c] = "return" /\ ~disturbed[c] => reply[c] = id[c]

(* Of a reply only the first byte is awaited with a timeout.  After it     *)
(* nobody reads what nobody will send: something has come, the connection  *)
(* has ended, or the server is in the middle of a reply.                   *)
ReplyOwed ==
    \A c \in Callers:
        /\ pc[c] = "status" => Readable(c)
        /\ pc[c] = "rest" =>
              Readable(c) \/ \E f \in Fds: Uses(c, f) /\ stream[f].serving # NoId

(* Every request returns, also when the server never replies. *)
RequestReturns ==
    \A c \in Callers: pc[c] = "pick" ~> pc[c] = "return"
=============================================================================
