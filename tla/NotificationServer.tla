------------------------- MODULE NotificationServer -------------------------
(***************************************************************************)
(* NotificationServer: the notifications of a PEAK server over HTTP.       *)
(*                                                                         *)
(*   the server     sends each notification as a POST request, on a        *)
(*                  connection that is idle or a new one, and awaits the   *)
(*                  answer to at most Window of them at a time;            *)
(*   the handlers   connectionListener starts a thread for each            *)
(*                  connection.  It runs clientHandler: waits for a        *)
(*                  request, finds the callback of its topic in            *)
(*                  _subscribers, runs it, and answers;                    *)
(*   the task       acquisitionTask, reduced to its subscriptions and its  *)
(*                  exposures: it puts callbacks into _subscribers and     *)
(*                  takes them out, without a lock;                        *)
(*   the port       a write method, that holds the driver lock the         *)
(*                  SpectrumUpdate callback needs.                         *)
(*                                                                         *)
(* start() may throw, and the analyser acquire all the same: the task then *)
(* takes its callbacks out although they may be running.  Calls that throw *)
(* when nothing is acquired lead there too; an Unsubscribe that throws is  *)
(* AcquisitionTask's.  Requests are well formed, and a connection is not   *)
(* lost once its request has been read.  The device does not fail at rest: *)
(* a state that ends an exposure is sent only for an exposure.  A change   *)
(* of _subscribers takes two steps; what is looked up between them may or  *)
(* may not be found.  The end of the IOC is not modelled.  A definition    *)
(* marked "Variant" is a plausible mistake in the definition that follows  *)
(* it; no specification uses it.                                           *)
(***************************************************************************)
EXTENDS Integers, Sequences, FiniteSets

CONSTANTS
    Connections,
    NumExposures,
    Updates,            \* steps the server acquires in an exposure
    Window,             \* requests the server sends before it has an answer
    Resends,            \* TRUE: the server sends a request again whose
                        \* connection was closed before it was read
    MaxAcquisitions,    \* bound: acquisitions
    MaxBreaks           \* bound: selects that fail

ASSUME ConnectionsAssumption ==
    IsFiniteSet(Connections) /\ {"free", "port"} \intersect Connections = {}
ASSUME BoundsAssumption ==
    /\ {NumExposures, Updates, Window} \subseteq Nat \ {0}
    /\ {MaxAcquisitions, MaxBreaks} \subseteq Nat
ASSUME ResendsAssumption == Resends \in BOOLEAN

VARIABLES
    \* the task
    pc, acquisition, exposure, stopEvent,
    stray,          \* history: a start() threw and the analyser acquired, and
                    \* what came of it was still under way at the next Acquire
    lock,           \* who holds the driver lock
    subscribers,    \* topics in _subscribers
    writing,        \* _subscribers is being changed
    \* the server: topics it has subscriptions for, steps acquired or -1,
    \* notifications numbered so far, notifications to be sent
    topics, acquired, sent, outbox,
    \* connections: what clientHandler is doing, the request not yet answered
    handler, request,
    breaks

task   == <<pc, acquisition, exposure, stray>>
map    == <<subscribers, writing>>
server == <<topics, acquired, sent, outbox>>
links  == <<handler, request, breaks>>

vars == <<task, stopEvent, lock, map, server, links>>

-----------------------------------------------------------------------------
\* The topics of an acquisition are its own.
Topic(kind) == [kind |-> kind, id |-> acquisition]

Topics == [kind : {"State", "Update"}, id : 0 .. MaxAcquisitions]

\* Notifications: an update; one without a value, which has no number; a state
\* that is none to wait for, or one that ends an exposure.
Notifications ==
    [topic : Topics, type : {"update", "null", "state", "end"}, n : Nat]

None == [type |-> "none"]

Waiting(c) == handler[c] = "select" /\ request[c] # None

\* The callback of the request is being run.
Calling(c) == handler[c] \in {"callback", "locked", "store"}

\* The callback of the request on c has not come to its end.
Active(c) == request[c] # None /\ handler[c] # "respond"

\* Nothing is acquired and no notification is under way.
Quiet == acquired = -1 /\ outbox = <<>> /\ \A c \in Connections : ~Active(c)

TypeOK ==
    /\ pc \in {"SubscribeState", "InsertState", "SubscribeUpdate", "InsertUpdate", "Start",
               "WaitStop", "UnsubscribeState", "EraseState", "UnsubscribeUpdate", "EraseUpdate"}
    /\ acquisition \in 0 .. MaxAcquisitions
    /\ exposure \in 0 .. NumExposures
    /\ stopEvent \in {"empty", "full"}
    /\ stray \in BOOLEAN
    /\ lock \in Connections \union {"free", "port"}
    /\ subscribers \subseteq Topics
    /\ writing \in BOOLEAN
    /\ topics \subseteq Topics
    /\ acquired \in -1 .. Updates
    /\ sent \in Nat
    /\ outbox \in Seq(Notifications)
    /\ handler \in [Connections -> {"closed", "select", "lookup", "callback", "locked",
                                    "store", "respond"}]
    /\ request \in [Connections -> Notifications \union {None}]
    /\ breaks \in 0 .. MaxBreaks
    /\ \A c \in Connections : handler[c] \notin {"closed", "select"} => request[c] # None

Init ==
    /\ pc = "SubscribeState"
    /\ acquisition = 0
    /\ exposure = 0
    /\ stopEvent = "empty"
    /\ stray = FALSE
    /\ lock = "free"
    /\ subscribers = {}
    /\ writing = FALSE
    /\ topics = {}
    /\ acquired = -1
    /\ sent = 0
    /\ outbox = <<>>
    /\ handler = [c \in Connections |-> "closed"]
    /\ request = [c \in Connections |-> None]
    /\ breaks = 0

-----------------------------------------------------------------------------
(* The server. *)

\* A notification of the kind and type, if somebody subscribes to it.
Post(kind, type) ==
    IF Topic(kind) \notin topics THEN UNCHANGED <<sent, outbox>>
    ELSE /\ sent' = sent + 1
         /\ outbox' = Append(outbox, [topic |-> Topic(kind), type |-> type, n |-> sent + 1])

ServerUpdate ==
    /\ acquired \in 0 .. Updates - 1
    /\ acquired' = acquired + 1
    /\ Post("Update", "update")
    /\ UNCHANGED <<task, stopEvent, lock, map, topics, links>>

\* Complete, or aborted.
ServerEnds ==
    /\ acquired >= 0
    /\ acquired' = -1
    /\ Post("State", "end")
    /\ UNCHANGED <<task, stopEvent, lock, map, topics, links>>

\* Variant: a request is answered when it has been read, before its callback.
UnansweredUntilRead(c) == Waiting(c)

\* The server has no answer to the request on connection c.
Unanswered(c) == request[c] # None

\* The next notification goes out on a connection that is idle, or a new one.
Deliver(c) ==
    /\ outbox # <<>>
    /\ handler[c] \in {"closed", "select"}
    /\ request[c] = None
    /\ Cardinality({k \in Connections : Unanswered(k)}) < Window
    /\ handler' = [handler EXCEPT ![c] = "select"]
    /\ request' = [request EXCEPT ![c] = Head(outbox)]
    /\ outbox' = Tail(outbox)
    /\ UNCHANGED <<task, stopEvent, lock, map, topics, acquired, sent, breaks>>

-----------------------------------------------------------------------------
(* clientHandler, on connection c. *)

Goes(c, next) == handler' = [handler EXCEPT ![c] = next]

\* The set of exceptions select is given was never initialised: it may name
\* descriptors that are not open, select fails, and the connection is closed
\* with the request unread: it is lost, unless the server sends it again.
SelectFails(c) ==
    /\ handler[c] = "select"
    /\ breaks < MaxBreaks
    /\ breaks' = breaks + 1
    /\ Goes(c, "closed")
    /\ request' = [request EXCEPT ![c] = None]
    /\ outbox' = IF Resends /\ request[c] # None THEN <<request[c]>> \o outbox ELSE outbox
    /\ UNCHANGED <<task, stopEvent, lock, map, topics, acquired, sent>>

Receive(c) ==
    /\ Waiting(c)
    /\ Goes(c, "lookup")
    /\ UNCHANGED <<task, stopEvent, lock, map, server, request, breaks>>

\* Variant: the exception of an unknown topic ends the thread.
NotFoundCloses == "closed"

\* at throws; that is caught, and the request is answered.
NotFound == "respond"

\* A callback that is called without a value returns at once.
Found(c) == IF request[c].type = "null" THEN "respond" ELSE "callback"

Lookup(c) ==
    /\ handler[c] = "lookup"
    /\ \/ (writing \/ request[c].topic \in subscribers) /\ Goes(c, Found(c))
       \/ (writing \/ request[c].topic \notin subscribers) /\ Goes(c, NotFound)
    /\ UNCHANGED <<task, stopEvent, lock, map, server, request, breaks>>

\* Variant: every change of state is taken for an end.
EndingAny == {"state", "end"}

\* The states, Measuring and Error, that the callback gives stopEvent for.
Ending == {"end"}

StateChanged(c) ==
    /\ handler[c] = "callback"
    /\ request[c].topic.kind = "State"
    /\ stopEvent' = IF request[c].type \in Ending THEN "full" ELSE stopEvent
    /\ Goes(c, "respond")
    /\ UNCHANGED <<task, lock, map, server, request, breaks>>

\* SpectrumUpdate counts a step under the driver lock, then stores the point.
TakeLock(c) ==
    /\ handler[c] = "callback"
    /\ request[c].topic.kind = "Update"
    /\ lock = "free"
    /\ lock' = c
    /\ Goes(c, "locked")
    /\ UNCHANGED <<task, stopEvent, map, server, request, breaks>>

ReleaseLock(c) ==
    /\ handler[c] = "locked"
    /\ lock' = "free"
    /\ Goes(c, "store")
    /\ UNCHANGED <<task, stopEvent, map, server, request, breaks>>

Store(c) ==
    /\ handler[c] = "store"
    /\ Goes(c, "respond")
    /\ UNCHANGED <<task, stopEvent, lock, map, server, request, breaks>>

\* The connection is kept, unless the request asked to close it.
Respond(c) ==
    /\ handler[c] = "respond"
    /\ request' = [request EXCEPT ![c] = None]
    /\ Goes(c, "select") \/ Goes(c, "closed")
    /\ UNCHANGED <<task, stopEvent, lock, map, server, breaks>>

-----------------------------------------------------------------------------
(* The task: PeakAPI::subscribe... and unsubscribe, and its exposures. *)

\* A measurement starts only when the analyser is at rest.
SubscribeState ==
    /\ pc = "SubscribeState"
    /\ acquisition < MaxAcquisitions
    /\ acquired = -1
    /\ stray' = (stray /\ ~Quiet)
    /\ acquisition' = acquisition + 1
    /\ topics' = topics \union {[kind |-> "State", id |-> acquisition + 1]}
    /\ pc' = "InsertState"
    /\ UNCHANGED <<exposure, stopEvent, lock, map, acquired, sent, outbox, links>>

\* The server may send the value it has, which is none.
SubscribeUpdate ==
    /\ pc = "SubscribeUpdate"
    /\ topics' = topics \union {Topic("Update")}
    /\ outbox' \in {outbox,
                    Append(outbox, [topic |-> Topic("Update"), type |-> "null", n |-> 0])}
    /\ pc' = "InsertUpdate"
    /\ UNCHANGED <<acquisition, exposure, stray, stopEvent, lock, map, acquired, sent, links>>

\* A change of _subscribers begins, without a lock.
BeginWrite ==
    /\ pc \in {"InsertState", "InsertUpdate", "EraseState", "EraseUpdate"}
    /\ ~writing
    /\ writing' = TRUE
    /\ UNCHANGED <<task, stopEvent, lock, subscribers, server, links>>

\* The callback is in place; no exposure has been counted.
Subscribe(kind, from, to) ==
    /\ pc = from
    /\ writing
    /\ writing' = FALSE
    /\ subscribers' = subscribers \union {Topic(kind)}
    /\ pc' = to
    /\ exposure' = 0
    /\ UNCHANGED <<acquisition, stray, stopEvent, lock, server, links>>

InsertState  == Subscribe("State", "InsertState", "SubscribeUpdate")
InsertUpdate == Subscribe("Update", "InsertUpdate", "Start")

\* stopEvent is cleared and the exposure begins, as the server announces.
Start ==
    /\ pc = "Start"
    /\ stopEvent' = "empty"
    /\ exposure' = exposure + 1
    /\ acquired' = 0
    /\ Post("State", "state")
    /\ pc' = "WaitStop"
    /\ UNCHANGED <<acquisition, stray, lock, map, topics, links>>

\* start() throws: the analyser did not begin, or it did and the reply is lost.
\* The handler of the exception takes the callbacks out.
StartThrows ==
    /\ pc = "Start"
    /\ stopEvent' = "empty"
    /\ exposure' = exposure + 1
    /\ \/ /\ acquired' = 0
          /\ Post("State", "state")
          /\ stray' = TRUE
       \/ UNCHANGED <<acquired, sent, outbox, stray>>
    /\ pc' = "UnsubscribeState"
    /\ UNCHANGED <<acquisition, lock, map, topics, links>>

\* The next exposure, unless this is the last one or Acquire is 0.
WaitStop ==
    /\ pc = "WaitStop"
    /\ stopEvent = "full"
    /\ stopEvent' = "empty"
    /\ pc' \in {"UnsubscribeState"} \union IF exposure < NumExposures THEN {"Start"} ELSE {}
    /\ UNCHANGED <<acquisition, exposure, stray, lock, map, server, links>>

\* Nothing of the topic is announced any more; what is announced is still sent.
Unsubscribing(kind, from, to) ==
    /\ pc = from
    /\ topics' = topics \ {Topic(kind)}
    /\ pc' = to
    /\ UNCHANGED <<acquisition, exposure, stray, stopEvent, lock, map, acquired, sent, outbox,
                   links>>

UnsubscribeState  == Unsubscribing("State", "UnsubscribeState", "EraseState")
UnsubscribeUpdate == Unsubscribing("Update", "UnsubscribeUpdate", "EraseUpdate")

Unsubscribe(kind, from, to) ==
    /\ pc = from
    /\ writing
    /\ writing' = FALSE
    /\ subscribers' = subscribers \ {Topic(kind)}
    /\ pc' = to
    /\ UNCHANGED <<acquisition, exposure, stray, stopEvent, lock, server, links>>

EraseState  == Unsubscribe("State", "EraseState", "UnsubscribeUpdate")
EraseUpdate == Unsubscribe("Update", "EraseUpdate", "SubscribeState")

-----------------------------------------------------------------------------
(* The port. *)

PortLocks ==
    /\ lock = "free"
    /\ lock' = "port"
    /\ UNCHANGED <<task, stopEvent, map, server, links>>

PortUnlocks ==
    /\ lock = "port"
    /\ lock' = "free"
    /\ UNCHANGED <<task, stopEvent, map, server, links>>

-----------------------------------------------------------------------------
Task ==
    \/ SubscribeState \/ SubscribeUpdate \/ BeginWrite \/ InsertState \/ InsertUpdate
    \/ Start \/ StartThrows \/ WaitStop
    \/ UnsubscribeState \/ UnsubscribeUpdate \/ EraseState \/ EraseUpdate

\* What goes on of itself once a request has arrived.
Handler(c) ==
    \/ Receive(c) \/ Lookup(c) \/ StateChanged(c) \/ ReleaseLock(c) \/ Store(c) \/ Respond(c)

Port == PortLocks \/ PortUnlocks

Server == ServerUpdate \/ ServerEnds

Next ==
    \/ Task \/ Port \/ Server
    \/ \E c \in Connections : Deliver(c) \/ SelectFails(c) \/ Handler(c) \/ TakeLock(c)

Spec == Init /\ [][Next]_vars

\* The threads run, the server sends what it has and ends what it began.  The
\* driver lock is not handed out in order: a callback that waits for it gets it
\* in the end, since the port gives it back every time.
Fairness ==
    /\ WF_vars(Task)
    /\ WF_vars(PortUnlocks)
    /\ WF_vars(ServerEnds)
    /\ WF_vars(\E c \in Connections : Deliver(c))
    /\ \A c \in Connections : WF_vars(Handler(c)) /\ SF_vars(TakeLock(c))

FairSpec == Spec /\ Fairness

-----------------------------------------------------------------------------
(* Properties. *)

\* A callback is in place as long as it runs: its topic is not taken out of
\* _subscribers, nor being taken out.  Only a start() that throws although the
\* analyser acquires breaks this, and no acquisition after it that begins with
\* nothing of it under way.
CallbackAlive ==
    ~stray => \A c \in Connections : Calling(c) =>
        /\ request[c].topic \in subscribers
        /\ pc \in {"EraseState", "EraseUpdate"} => ~writing

\* The request on c has not come to its callback.
Coming(c) == Waiting(c) \/ handler[c] = "lookup"

\* Notifications that have a number, waiting to be handled and being handled.
Pending ==
    ({outbox[i].n : i \in DOMAIN outbox}
       \union {request[c].n : c \in {k \in Connections : Coming(k)}}) \ {0}

Called == {request[c].n : c \in {k \in Connections : Calling(k)}}

\* Notifications of an acquisition whose start() threw are listened to no more,
\* and may reach into the next.
Listening == pc \in {"Start", "WaitStop"} /\ ~stray

Inbox == INSTANCE OrderedInbox
             WITH last <- sent, pending <- Pending, handling <- Called, listening <- Listening

\* Through any number of connections, with threads that run at any speed, selects
\* that fail and a start() that throws, notifications are handled in the order
\* the server sent them, each once, one at a time, and none is lost while the
\* task listens; where Resends is TRUE, since clientHandler itself loses one.
ImplementsOrderedInbox == Inbox!Spec

\* The end of this acquisition's exposure.
IsEnd(m) == m.type = "end" /\ m.topic = Topic("State")

\* A task that waits has its event given, or the notification that gives it is
\* under way or will be sent, and its callback will be found; no connection that
\* was closed keeps the server from sending it.  Resends has to be TRUE.
EndOwed ==
    pc = "WaitStop" =>
        /\ \/ stopEvent = "full"
           \/ acquired >= 0 /\ Topic("State") \in topics
           \/ \E i \in DOMAIN outbox : IsEnd(outbox[i])
           \/ \E c \in Connections : (Coming(c) \/ handler[c] = "callback") /\ IsEnd(request[c])
        /\ Topic("State") \in subscribers /\ ~writing
        /\ \A c \in Connections : handler[c] = "closed" => request[c] = None

\* Every exposure the task waits for ends: the notification of its end comes
\* through, although callbacks before it had to wait for the driver lock.  Of a
\* request that select left unread the server has to send it again: Resends.
EndArrives == pc = "WaitStop" ~> pc # "WaitStop"

=============================================================================
