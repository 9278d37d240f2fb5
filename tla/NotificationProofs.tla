------------------------- MODULE NotificationProofs -------------------------
(***************************************************************************)
(* Theorems about the notification server, for any number of connections,  *)
(* acquisitions, exposures and steps.  The types are for any server; that  *)
(* no end of an exposure is lost is for one that sends a request again     *)
(* that was not read, the life of callbacks for one that awaits the answer *)
(* to a notification before it sends more, and order for one that does     *)
(* both.                                                                   *)
(***************************************************************************)
EXTENDS NotificationServer, FiniteSetTheorems, TLAPS

-----------------------------------------------------------------------------
(* Types.                                                                      *)

\* There is an exposure left to start.
Types ==
    /\ TypeOK
    /\ pc = "Start" => exposure < NumExposures

LEMMA Bounds ==
    /\ NumExposures \in Nat \ {0} /\ Updates \in Nat \ {0} /\ Window \in Nat \ {0}
    /\ MaxAcquisitions \in Nat /\ MaxBreaks \in Nat /\ Resends \in BOOLEAN
  BY BoundsAssumption, ResendsAssumption

LEMMA PostType ==
    ASSUME TypeOK, NEW kind \in {"State", "Update"},
           NEW type \in {"update", "state", "end"}, Post(kind, type)
    PROVE  sent' \in Nat /\ outbox' \in Seq(Notifications)
  <1>1. Topic(kind) \in Topics
    BY DEF TypeOK, Topic, Topics
  <1>2. [topic |-> Topic(kind), type |-> type, n |-> sent + 1] \in Notifications
    BY <1>1 DEF TypeOK, Notifications
  <1>3. Append(outbox, [topic |-> Topic(kind), type |-> type, n |-> sent + 1])
           \in Seq(Notifications)
    BY <1>2 DEF TypeOK
  <1>4. sent \in Nat /\ sent + 1 \in Nat /\ outbox \in Seq(Notifications)
    BY DEF TypeOK
  <1> QED  BY <1>3, <1>4 DEF Post

LEMMA TypesStep ==
    ASSUME Types, [Next]_vars
    PROVE  Types'
  <1> USE DEF Types
  <1>1. CASE UNCHANGED vars
    BY <1>1 DEF vars, task, map, server, links, TypeOK
  <1>2. CASE Server
    <2>1. CASE ServerUpdate
      <3>1. sent' \in Nat /\ outbox' \in Seq(Notifications)
        BY <2>1, PostType DEF ServerUpdate
      <3> QED  BY <2>1, <3>1, Bounds DEF TypeOK, ServerUpdate, task, map, links
    <2>2. CASE ServerEnds
      <3>1. sent' \in Nat /\ outbox' \in Seq(Notifications)
        BY <2>2, PostType DEF ServerEnds
      <3> QED  BY <2>2, <3>1, Bounds DEF TypeOK, ServerEnds, task, map, links
    <2> QED  BY <1>2, <2>1, <2>2 DEF Server
  <1>3. CASE Port
    BY <1>3 DEF TypeOK, Port, PortLocks, PortUnlocks, task, map, server, links
  <1>4. ASSUME NEW c \in Connections, Deliver(c)  PROVE Types'
    <2>1. Head(outbox) \in Notifications /\ Tail(outbox) \in Seq(Notifications)
      BY <1>4 DEF TypeOK, Deliver
    <2>2. request' \in [Connections -> Notifications \union {None}]
      BY <1>4, <2>1 DEF TypeOK, Deliver
    <2> QED  BY <1>4, <2>1, <2>2 DEF TypeOK, Deliver, task, map
  <1>5. ASSUME NEW c \in Connections, SelectFails(c)  PROVE Types'
    <2>1. outbox \in Seq(Notifications)
             /\ (request[c] # None => <<request[c]>> \o outbox \in Seq(Notifications))
      BY DEF TypeOK
    <2>2. outbox' \in Seq(Notifications)
      BY <1>5, <2>1 DEF TypeOK, SelectFails
    <2>3. breaks' \in 0 .. MaxBreaks
      BY <1>5, Bounds DEF TypeOK, SelectFails
    <2> QED  BY <1>5, <2>2, <2>3 DEF TypeOK, SelectFails, Goes, task, map
  <1>6. ASSUME NEW c \in Connections, TakeLock(c)  PROVE Types'
    BY <1>6 DEF TypeOK, TakeLock, Goes, task, map, server
  <1>7. ASSUME NEW c \in Connections, Handler(c)  PROVE Types'
    <2>1. CASE Receive(c)
      BY <2>1 DEF TypeOK, Receive, Waiting, Goes, task, map, server
    <2>2. CASE Lookup(c)
      BY <2>2 DEF TypeOK, Lookup, Found, NotFound, Goes, task, map, server
    <2>3. CASE StateChanged(c)
      BY <2>3 DEF TypeOK, StateChanged, Goes, task, map, server
    <2>4. CASE ReleaseLock(c)
      BY <2>4 DEF TypeOK, ReleaseLock, Goes, task, map, server
    <2>5. CASE Store(c)
      BY <2>5 DEF TypeOK, Store, Goes, task, map, server
    <2>6. CASE Respond(c)
      BY <2>6 DEF TypeOK, Respond, Goes, task, map, server
    <2> QED  BY <1>7, <2>1, <2>2, <2>3, <2>4, <2>5, <2>6 DEF Handler
  <1>8. CASE Task
    <2>1. CASE SubscribeState
      BY <2>1, Bounds DEF TypeOK, SubscribeState, Topics, map, links
    <2>2. CASE SubscribeUpdate
      <3>1. Topic("Update") \in Topics
        BY DEF TypeOK, Topic, Topics
      <3>2. [topic |-> Topic("Update"), type |-> "null", n |-> 0] \in Notifications
        BY <3>1 DEF Notifications
      <3>3. outbox' \in Seq(Notifications)
        BY <2>2, <3>2 DEF TypeOK, SubscribeUpdate
      <3> QED  BY <2>2, <3>1, <3>3 DEF TypeOK, SubscribeUpdate, map, links
    <2>3. CASE BeginWrite
      BY <2>3 DEF TypeOK, BeginWrite, task, server, links
    <2>4. CASE InsertState \/ InsertUpdate
      <3>1. Topic("State") \in Topics /\ Topic("Update") \in Topics
        BY DEF TypeOK, Topic, Topics
      <3>2. subscribers' \subseteq Topics
        BY <2>4, <3>1 DEF TypeOK, InsertState, InsertUpdate, Subscribe
      <3>3. exposure' = 0 /\ 0 \in 0 .. NumExposures /\ exposure' < NumExposures
        BY <2>4, Bounds DEF InsertState, InsertUpdate, Subscribe
      <3> QED
        BY <2>4, <3>2, <3>3 DEF TypeOK, InsertState, InsertUpdate, Subscribe, server, links
    <2>5. CASE Start
      <3>1. sent' \in Nat /\ outbox' \in Seq(Notifications)
        BY <2>5, PostType DEF Start
      <3>2. exposure' \in 0 .. NumExposures /\ acquired' \in -1 .. Updates
        BY <2>5, Bounds DEF TypeOK, Start
      <3> QED  BY <2>5, <3>1, <3>2 DEF TypeOK, Start, map, links
    <2>6. CASE WaitStop
      BY <2>6 DEF TypeOK, WaitStop, map, server, links
    <2>7. CASE UnsubscribeState \/ UnsubscribeUpdate
      BY <2>7 DEF TypeOK, UnsubscribeState, UnsubscribeUpdate, Unsubscribing, map, links
    <2>8. CASE EraseState \/ EraseUpdate
      BY <2>8 DEF TypeOK, EraseState, EraseUpdate, Unsubscribe, server, links
    <2>9. CASE StartThrows
      <3>1. sent' \in Nat /\ outbox' \in Seq(Notifications)
        <4>1. CASE Post("State", "state")
          BY <4>1, PostType
        <4>2. CASE UNCHANGED <<sent, outbox>>
          BY <4>2 DEF TypeOK
        <4> QED  BY <2>9, <4>1, <4>2 DEF StartThrows
      <3>2. /\ exposure' \in 0 .. NumExposures /\ acquired' \in -1 .. Updates
            /\ stray' \in BOOLEAN
        <4>1. exposure' \in 0 .. NumExposures
          BY <2>9, Bounds DEF TypeOK, StartThrows
        <4>2. CASE acquired' = 0 /\ stray' = TRUE
          BY <4>1, <4>2, Bounds
        <4>3. CASE UNCHANGED <<acquired, stray>>
          BY <4>1, <4>3 DEF TypeOK
        <4> QED  BY <2>9, <4>2, <4>3 DEF StartThrows
      <3>3. /\ stopEvent' = "empty" /\ pc' = "UnsubscribeState"
            /\ UNCHANGED <<acquisition, lock, map, topics, links>>
        BY <2>9 DEF StartThrows
      <3> QED  BY <3>1, <3>2, <3>3 DEF TypeOK, map, links
    <2> QED  BY <1>8, <2>1, <2>2, <2>3, <2>4, <2>5, <2>6, <2>7, <2>8, <2>9 DEF Task
  <1> QED  BY <1>1, <1>2, <1>3, <1>4, <1>5, <1>6, <1>7, <1>8 DEF Next

LEMMA TypesInit == Init => Types
  <1>1. ASSUME Init
        PROVE  /\ handler \in [Connections -> {"closed", "select", "lookup", "callback",
                                             "locked", "store", "respond"}]
               /\ request \in [Connections -> Notifications \union {None}]
               /\ \A c \in Connections : handler[c] = "closed"
               /\ outbox \in Seq(Notifications)
    BY <1>1 DEF Init
  <1>2. ASSUME Init
        PROVE  /\ acquisition \in 0 .. MaxAcquisitions /\ exposure \in 0 .. NumExposures
               /\ acquired \in -1 .. Updates /\ breaks \in 0 .. MaxBreaks
    BY <1>2, Bounds DEF Init
  <1>3. ASSUME Init
        PROVE  /\ pc = "SubscribeState" /\ stopEvent = "empty" /\ lock = "free" /\ stray = FALSE
               /\ subscribers = {} /\ topics = {} /\ writing = FALSE /\ sent = 0
    BY <1>3 DEF Init
  <1> QED  BY <1>1, <1>2, <1>3 DEF Types, TypeOK

\* The state of every thread, of the server and of _subscribers keeps its type,
\* however many requests the server sends at a time.
THEOREM NotificationTypes == Spec => []TypeOK
  <1>1. Init => Types
    BY TypesInit
  <1>2. Types /\ [Next]_vars => Types'
    BY TypesStep
  <1>3. Types => TypeOK
    BY DEF Types
  <1> QED  BY <1>1, <1>2, <1>3, PTL DEF Spec

-----------------------------------------------------------------------------
(* The end of an exposure is owed to the task that waits for it, however many  *)
(* notifications the server has under way and whatever order they are in.      *)

\* The callbacks are in place during an exposure, and nobody changes them.
Registered ==
    /\ writing => pc \in {"InsertState", "InsertUpdate", "EraseState", "EraseUpdate"}
    /\ pc \in {"SubscribeUpdate", "InsertUpdate", "Start", "WaitStop"} =>
          Topic("State") \in subscribers
    /\ pc \in {"Start", "WaitStop"} => Topic("Update") \in subscribers

\* The server announces the states of an acquisition to its end.
Announced ==
    pc \in {"InsertState", "SubscribeUpdate", "InsertUpdate", "Start", "WaitStop",
            "UnsubscribeState"} => Topic("State") \in topics

ClosedEmpty == \A c \in Connections : handler[c] = "closed" => request[c] = None

\* The notification of the end is handled on c, or will be.
EndHandled(c) == (Coming(c) \/ handler[c] = "callback") /\ IsEnd(request[c])

EndComing ==
    \/ stopEvent = "full"
    \/ acquired >= 0 /\ Topic("State") \in topics
    \/ \E i \in 1 .. Len(outbox) : IsEnd(outbox[i])
    \/ \E c \in Connections : EndHandled(c)

EndInv == Registered /\ Announced /\ ClosedEmpty /\ (pc = "WaitStop" => EndComing)

\* What is subscribed, in the driver and at the server, follows the task.
LEMMA SubscriptionsStep ==
    ASSUME TypeOK, Registered, Announced, [Next]_vars
    PROVE  Registered' /\ Announced'
  <1>1. CASE ~Task
    <2>1. UNCHANGED <<pc, acquisition, subscribers, writing, topics>>
      BY <1>1 DEF Next, Port, PortLocks, PortUnlocks, Server, ServerUpdate, ServerEnds, Deliver,
                  SelectFails, Handler, Receive, Lookup, StateChanged, TakeLock, ReleaseLock,
                  Store, Respond, vars, task, map, server
    <2> QED  BY <2>1 DEF Registered, Announced, Topic
  <1>2. CASE SubscribeState
    BY <1>2 DEF SubscribeState, Registered, Announced, Topic, map
  <1>3. CASE \/ SubscribeUpdate \/ BeginWrite \/ InsertState \/ InsertUpdate
           \/ Start \/ StartThrows \/ WaitStop
    BY <1>3 DEF SubscribeUpdate, BeginWrite, InsertState, InsertUpdate, Subscribe, Start,
                StartThrows, WaitStop, Registered, Announced, Topic, map, task, server
  <1>4. CASE UnsubscribeState \/ UnsubscribeUpdate \/ EraseState \/ EraseUpdate
    BY <1>4 DEF UnsubscribeState, UnsubscribeUpdate, Unsubscribing, EraseState, EraseUpdate,
                Unsubscribe, Registered, Announced, Topic, map, server
  <1> QED  BY <1>1, <1>2, <1>3, <1>4 DEF Task

\* No thread ends with a request unanswered.
LEMMA ClosedStep ==
    ASSUME TypeOK, ClosedEmpty, [Next]_vars
    PROVE  ClosedEmpty'
  <1>1. CASE UNCHANGED links
    BY <1>1 DEF ClosedEmpty, links
  <1>2. ASSUME NEW c \in Connections,
               Deliver(c) \/ SelectFails(c) \/ Handler(c) \/ TakeLock(c)
        PROVE  ClosedEmpty'
    <2>1. \A k \in Connections : k # c => handler'[k] = handler[k] /\ request'[k] = request[k]
      BY <1>2 DEF TypeOK, Deliver, SelectFails, Handler, Receive, Lookup, StateChanged, TakeLock,
                  ReleaseLock, Store, Respond, Goes
    <2>2. handler'[c] # "closed" \/ request'[c] = None
      BY <1>2 DEF TypeOK, Deliver, SelectFails, Handler, Receive, Lookup, Found, NotFound,
                  StateChanged, TakeLock, ReleaseLock, Store, Respond, Goes
    <2> QED  BY <2>1, <2>2 DEF ClosedEmpty
  <1> QED
    BY <1>1, <1>2
       DEF Next, Port, PortLocks, PortUnlocks, Server, ServerUpdate, ServerEnds, Task,
           SubscribeState, SubscribeUpdate, BeginWrite, InsertState, InsertUpdate, Subscribe,
           Start, StartThrows, WaitStop, UnsubscribeState, UnsubscribeUpdate, Unsubscribing,
           EraseState,
           EraseUpdate, Unsubscribe, vars

\* A notification that is put at an end of the queue leaves those in it there.
LEMMA EndJoins ==
    ASSUME TypeOK, NEW m \in Notifications, UNCHANGED acquisition,
           outbox' = Append(outbox, m) \/ outbox' = <<m>> \o outbox
    PROVE  /\ \A i \in 1 .. Len(outbox) : IsEnd(outbox[i]) =>
                  (\E j \in 1 .. Len(outbox) : IsEnd(outbox[j]))'
           /\ IsEnd(m) => (\E j \in 1 .. Len(outbox) : IsEnd(outbox[j]))'
  <1>1. \A x : IsEnd(x)' = IsEnd(x)
    BY DEF IsEnd, Topic
  <1>2. outbox \in Seq(Notifications) /\ Len(outbox) \in Nat
    BY DEF TypeOK
  <1>3. CASE outbox' = Append(outbox, m)
    <2>1. /\ Len(outbox') = Len(outbox) + 1 /\ outbox'[Len(outbox) + 1] = m
          /\ \A i \in 1 .. Len(outbox) : outbox'[i] = outbox[i]
      BY <1>2, <1>3
    <2> QED  BY <1>1, <1>2, <2>1
  <1>4. CASE outbox' = <<m>> \o outbox
    <2>1. /\ Len(outbox') = Len(outbox) + 1 /\ outbox'[1] = m
          /\ \A i \in 1 .. Len(outbox) : outbox'[i + 1] = outbox[i]
      BY <1>2, <1>4
    <2>2. 1 \in 1 .. Len(outbox') /\ \A i \in 1 .. Len(outbox) : i + 1 \in 1 .. Len(outbox')
      BY <1>2, <2>1
    <2>3. ASSUME NEW i \in 1 .. Len(outbox), IsEnd(outbox[i])
          PROVE  (\E j \in 1 .. Len(outbox) : IsEnd(outbox[j]))'
      <3>1. i + 1 \in 1 .. Len(outbox') /\ IsEnd(outbox'[i + 1])
        BY <2>1, <2>2, <2>3
      <3> QED  BY <1>1, <3>1
    <2> QED  BY <1>1, <2>1, <2>2, <2>3
  <1> QED  BY <1>3, <1>4

\* Steps of the server, the connections and their handlers.
LEMMA ServerOwes ==
    ASSUME TypeOK, EndInv, pc = "WaitStop", Server
    PROVE  EndComing'
  <1>1. UNCHANGED <<pc, acquisition, stopEvent, topics, handler, request>>
    BY DEF Server, ServerUpdate, ServerEnds, task, links
  <1>2. (\A x : IsEnd(x)' = IsEnd(x)) /\ \A c : EndHandled(c)' = EndHandled(c)
    BY <1>1 DEF IsEnd, Topic, EndHandled, Coming, Waiting
  <1>3. Topic("State") \in topics /\ Topic("State") \in Topics
    BY DEF EndInv, Announced, TypeOK, Topic, Topics
  <1>4. CASE ServerUpdate
    BY <1>1, <1>3, <1>4 DEF TypeOK, ServerUpdate, EndComing, Topic
  <1>5. CASE ServerEnds
    <2> DEFINE m == [topic |-> Topic("State"), type |-> "end", n |-> sent + 1]
    <2>1. outbox' = Append(outbox, m)
      BY <1>3, <1>5 DEF ServerEnds, Post
    <2>2. m \in Notifications /\ IsEnd(m)
      BY <1>3 DEF TypeOK, Notifications, IsEnd
    <2>3. (\E j \in 1 .. Len(outbox) : IsEnd(outbox[j]))'
      BY <1>1, <2>1, <2>2, EndJoins
    <2> QED  BY <2>3 DEF EndComing
  <1> QED  BY <1>4, <1>5 DEF Server

LEMMA LinkOwes ==
    ASSUME Resends, TypeOK, EndInv, pc = "WaitStop",
           NEW c \in Connections, Deliver(c) \/ SelectFails(c)
    PROVE  EndComing'
  <1>1. UNCHANGED <<pc, acquisition, stopEvent, topics, acquired>>
    BY DEF Deliver, SelectFails, task
  <1>2. \A x : IsEnd(x)' = IsEnd(x)
    BY <1>1 DEF IsEnd, Topic
  <1>3. \A k \in Connections : k # c => EndHandled(k)' = EndHandled(k)
    BY <1>1, <1>2 DEF TypeOK, Deliver, SelectFails, Goes, EndHandled, Coming, Waiting
  <1>4. EndComing
    BY DEF EndInv
  <1>5. CASE Deliver(c)
    <2>1. /\ Len(outbox') = Len(outbox) - 1 /\ Len(outbox) \in Nat \ {0}
          /\ Head(outbox) = outbox[1] /\ Head(outbox) \in Notifications
          /\ \A i \in 1 .. Len(outbox') : outbox'[i] = outbox[i + 1]
      BY <1>5 DEF TypeOK, Deliver
    <2>2. ~EndHandled(c) /\ handler'[c] = "select" /\ request'[c] = Head(outbox)
      BY <1>5 DEF TypeOK, Deliver, EndHandled, IsEnd, None
    <2>3. ASSUME NEW i \in 1 .. Len(outbox), IsEnd(outbox[i])
          PROVE  EndComing'
      <3>1. CASE i = 1
        <4>1. Head(outbox) # None
          BY <2>1 DEF Notifications, None
        <4> QED  BY <1>2, <2>1, <2>2, <2>3, <3>1, <4>1 DEF EndComing, EndHandled, Coming, Waiting
      <3>2. CASE i # 1
        <4>1. i - 1 \in 1 .. Len(outbox') /\ outbox'[i - 1] = outbox[i]
          BY <2>1, <3>2
        <4> QED  BY <1>2, <2>3, <4>1 DEF EndComing
      <3> QED  BY <3>1, <3>2
    <2> QED  BY <1>1, <1>3, <1>4, <2>2, <2>3 DEF EndComing, Topic
  <1>6. CASE SelectFails(c)
    <2>1. CASE request[c] = None
      BY <1>1, <1>2, <1>3, <1>4, <1>6, <2>1
         DEF SelectFails, EndComing, EndHandled, Coming, Waiting, Topic
    <2>2. CASE request[c] # None
      <3>1. request[c] \in Notifications /\ outbox' = <<request[c]>> \o outbox
        BY <1>6, <2>2 DEF TypeOK, SelectFails
      <3>2. \/ \E i \in 1 .. Len(outbox) : IsEnd(outbox[i])
            \/ IsEnd(request[c])
            => (\E j \in 1 .. Len(outbox) : IsEnd(outbox[j]))'
        BY <1>1, <3>1, EndJoins
      <3> QED  BY <1>1, <1>3, <1>4, <3>2 DEF EndComing, EndHandled, Topic
    <2> QED  BY <2>1, <2>2
  <1> QED  BY <1>5, <1>6

LEMMA HandlerOwes ==
    ASSUME TypeOK, EndInv, pc = "WaitStop", NEW c \in Connections, Handler(c) \/ TakeLock(c)
    PROVE  EndComing'
  <1>1. UNCHANGED <<pc, acquisition, topics, acquired, outbox>>
    BY DEF Handler, Receive, Lookup, StateChanged, TakeLock, ReleaseLock, Store, Respond,
           task, map, server
  <1>2. \A x : IsEnd(x)' = IsEnd(x)
    BY <1>1 DEF IsEnd, Topic
  <1>3. \A k \in Connections : k # c => EndHandled(k)' = EndHandled(k)
    BY <1>1, <1>2 DEF TypeOK, Handler, Receive, Lookup, StateChanged, TakeLock, ReleaseLock,
                      Store, Respond, Goes, EndHandled, Coming, Waiting
  <1>4. EndComing /\ (stopEvent = "full" => stopEvent' = "full")
    BY DEF EndInv, Handler, Receive, Lookup, StateChanged, TakeLock, ReleaseLock, Store, Respond
  <1>5. ASSUME EndHandled(c)
        PROVE  EndHandled(c)' \/ stopEvent' = "full"
    <2>1. request[c].type = "end" /\ request[c].topic = Topic("State") /\ Topic("State").kind = "State"
      BY <1>5 DEF EndHandled, IsEnd, Topic
    <2>2. Topic("State") \in subscribers /\ ~writing
      BY DEF EndInv, Registered
    <2>3. handler[c] \in {"select", "lookup", "callback"}
      BY <1>5 DEF EndHandled, Coming, Waiting
    <2>4. CASE Receive(c)
      BY <1>2, <1>5, <2>4 DEF TypeOK, Receive, Goes, EndHandled, Coming
    <2>5. CASE Lookup(c)
      <3>1. handler'[c] = "callback" /\ request' = request
        BY <2>1, <2>2, <2>5 DEF TypeOK, Lookup, Goes, Found
      <3> QED  BY <1>2, <1>5, <3>1 DEF EndHandled
    <2>6. CASE StateChanged(c)
      BY <2>1, <2>6 DEF StateChanged, Ending
    <2> QED
      BY <2>1, <2>3, <2>4, <2>5, <2>6 DEF Handler, TakeLock, ReleaseLock, Store, Respond
  <1> QED  BY <1>1, <1>2, <1>3, <1>4, <1>5 DEF EndComing, Topic

LEMMA EndStep ==
    ASSUME Resends, TypeOK, EndInv, [Next]_vars
    PROVE  EndInv'
  <1>1. Registered' /\ Announced' /\ ClosedEmpty'
    BY SubscriptionsStep, ClosedStep DEF EndInv
  <1>2. ASSUME pc' = "WaitStop"
        PROVE  EndComing'
    <2>1. CASE Task
      <3>1. Start \/ (BeginWrite /\ pc' = pc)
        BY <1>2, <2>1 DEF Task, SubscribeState, SubscribeUpdate, BeginWrite, InsertState,
                          InsertUpdate, Subscribe, Start, StartThrows, WaitStop, UnsubscribeState,
                          UnsubscribeUpdate, Unsubscribing, EraseState, EraseUpdate, Unsubscribe,
                          task
      <3>2. Start
        BY <1>2, <3>1 DEF BeginWrite
      <3> QED  BY <3>2 DEF Start, EndInv, Announced, EndComing, Topic
    <2>2. CASE UNCHANGED vars \/ Port
      <3>1. UNCHANGED <<pc, acquisition, stopEvent, topics, acquired, outbox, handler, request>>
        BY <2>2 DEF vars, Port, PortLocks, PortUnlocks, task, server, links
      <3> QED
        BY <1>2, <3>1 DEF EndInv, EndComing, EndHandled, Coming, Waiting, IsEnd, Topic
    <2>3. ~Task => pc = "WaitStop"
      BY <1>2 DEF Next, Port, PortLocks, PortUnlocks, Server, ServerUpdate, ServerEnds, Deliver,
                  SelectFails, Handler, Receive, Lookup, StateChanged, TakeLock, ReleaseLock,
                  Store, Respond, vars, task
    <2> QED  BY <2>1, <2>2, <2>3, ServerOwes, LinkOwes, HandlerOwes DEF Next
  <1> QED  BY <1>1, <1>2 DEF EndInv

\* A task that waits for the end of an exposure has been told of it, or the
\* notification is under way to a callback that will be found, or the server is
\* acquiring and will send it: with any number of connections and of notifications
\* under way at a time, in any order, and also after a start() that threw.  The
\* server sends a request again that was not read; the driver does not see to it.
THEOREM EndNeverLost ==
    ASSUME Resends
    PROVE  Spec => []EndOwed
  <1>1. Init => Types /\ EndInv
    BY TypesInit DEF Init, EndInv, Registered, Announced, ClosedEmpty
  <1>2. Types /\ EndInv /\ [Next]_vars => Types' /\ EndInv'
    BY TypesStep, EndStep DEF Types
  <1>3. Types /\ EndInv => EndOwed
    <2>1. TypeOK => DOMAIN outbox = 1 .. Len(outbox)
      BY DEF TypeOK
    <2> QED  BY <2>1 DEF Types, EndInv, EndOwed, EndComing, EndHandled, Registered, ClosedEmpty
  <1> QED  BY <1>1, <1>2, <1>3, PTL DEF Spec

-----------------------------------------------------------------------------
(* One notification at a time.  A server that awaits the answer has at most    *)
(* one request under way, so that the connections are one queue: the request,  *)
(* then the outbox.                                                            *)
OneAtATime == Window = 1

OneRequest == \A c, d \in Connections : request[c] # None /\ request[d] # None => c = d

\* One without a value, and only that, has number 0, and may be anywhere.
WellFormed(m) == m.n <= sent /\ (m.type = "null" <=> m.n = 0)

Before(m, n) == n.n = 0 \/ m.n < n.n

\* The queue is in order.
Ordered ==
    /\ \A i \in 1 .. Len(outbox) : WellFormed(outbox[i])
    /\ \A i, j \in 1 .. Len(outbox) : i < j => Before(outbox[i], outbox[j])
    /\ \A c \in Connections : Active(c) =>
          WellFormed(request[c]) /\ \A i \in 1 .. Len(outbox) : Before(request[c], outbox[i])

ValuesCalled == \A c \in Connections : Calling(c) => request[c].type # "null"

\* What has a value is of this acquisition.
OfThis(m) == m.type # "null" => m.topic.id = acquisition

\* The end of an exposure is the last in the queue.
Current ==
    /\ \A i \in 1 .. Len(outbox) :
          /\ OfThis(outbox[i])
          /\ outbox[i].type = "end" => i = Len(outbox) /\ acquired = -1
    /\ \A c \in Connections : Active(c) =>
          /\ OfThis(request[c])
          /\ request[c].type = "end" => outbox = <<>> /\ acquired = -1

\* Nothing is acquired, and nothing is under way that has a value.
Valueless ==
    /\ acquired = -1
    /\ \A i \in 1 .. Len(outbox) : outbox[i].type = "null"
    /\ \A c \in Connections : Active(c) => request[c].type = "null"

\* There is nothing to handle but in an exposure.
Stages == pc # "WaitStop" \/ stopEvent = "full" => Valueless

\* Order and one at a time are for good; that the callbacks are done when the task
\* takes them out is not so after a start() that threw.
InboxInv ==
    OneRequest /\ Registered /\ ValuesCalled /\ Ordered /\ (~stray => Current /\ Stages)

\* A handler takes requests out of the queue, and puts none in.  A signal that
\* stops the task comes with the last of them.
LEMMA HandlerLeaves ==
    ASSUME TypeOK, InboxInv,
           UNCHANGED <<pc, acquisition, stray, acquired, sent, outbox, subscribers, writing>>,
           \A c \in Connections : request'[c] \in {request[c], None},
           \A c \in Connections : Active(c)' => Active(c) /\ request'[c] = request[c],
           \A c \in Connections : Calling(c)' => request'[c].type # "null",
           ~stray => stopEvent' = stopEvent \/ Valueless'
    PROVE  InboxInv'
  <1>1. OneRequest'
    BY DEF InboxInv, OneRequest
  <1>2. Ordered'
    BY DEF InboxInv, Ordered, WellFormed, Before
  <1>3. ValuesCalled'
    BY DEF ValuesCalled
  <1>4. ~stray => Current'
    BY DEF InboxInv, Current, OfThis
  <1>5. Valueless => Valueless'
    BY DEF Valueless
  <1>6. ~stray => Stages'
    BY <1>5 DEF InboxInv, Stages
  <1>7. Registered'
    BY DEF InboxInv, Registered, Topic
  <1> QED  BY <1>1, <1>2, <1>3, <1>4, <1>6, <1>7 DEF InboxInv

\* The notification that comes next begins its way on a connection that has none.
LEMMA DeliverStep ==
    ASSUME OneAtATime, TypeOK, InboxInv, NEW c \in Connections, Deliver(c)
    PROVE  /\ \A k \in Connections : request[k] = None
           /\ \A k \in Connections : Active(k)' => k = c /\ request'[c] = Head(outbox)
           /\ InboxInv'
  <1> USE DEF OneAtATime
  <1> DEFINE busy == {k \in Connections : Unanswered(k)}
  <1>1. busy = {}
    <2>1. IsFiniteSet(busy)
      BY ConnectionsAssumption, FS_Subset
    <2>2. Cardinality(busy) \in Nat /\ Cardinality(busy) < 1
      BY <2>1, FS_CardinalityType DEF Deliver
    <2> QED  BY <2>1, <2>2, FS_EmptySet
  <1>2. \A k \in Connections : request[k] = None
    BY <1>1 DEF Unanswered
  <1>3. /\ request' = [k \in Connections |-> IF k = c THEN Head(outbox) ELSE None]
        /\ \A k \in Connections : handler'[k] = IF k = c THEN "select" ELSE handler[k]
    BY <1>2 DEF TypeOK, Deliver
  <1>4. \A k \in Connections : Active(k)' => k = c /\ request'[c] = Head(outbox)
    BY <1>3 DEF Active
  <1>5. /\ Len(outbox') = Len(outbox) - 1 /\ Len(outbox) \in Nat \ {0}
        /\ Head(outbox) = outbox[1]
        /\ \A i \in 1 .. Len(outbox') : outbox'[i] = outbox[i + 1]
    BY DEF TypeOK, Deliver
  <1>6. UNCHANGED <<pc, acquisition, stray, stopEvent, subscribers, writing, acquired, sent>>
    BY DEF Deliver, task, map
  <1>7. OneRequest'
    BY <1>3 DEF OneRequest
  <1> DEFINE m == Head(outbox)
  <1>8. 1 \in 1 .. Len(outbox) /\ \A i \in 1 .. Len(outbox') : i + 1 \in 1 .. Len(outbox)
    BY <1>5
  <1>9. Ordered'
    <2>1. WellFormed(m) /\ \A i \in 1 .. Len(outbox') : WellFormed(outbox'[i])
      BY <1>5, <1>8 DEF InboxInv, Ordered
    <2>2. \A i, j \in 1 .. Len(outbox) : i < j => Before(outbox[i], outbox[j])
      BY DEF InboxInv, Ordered
    <2>3. ASSUME NEW i \in 1 .. Len(outbox')
          PROVE  Before(m, outbox'[i])
      BY <1>5, <1>8, <2>2
    <2>4. ASSUME NEW i \in 1 .. Len(outbox'), NEW j \in 1 .. Len(outbox'), i < j
          PROVE  Before(outbox'[i], outbox'[j])
      <3>1. i + 1 \in 1 .. Len(outbox) /\ j + 1 \in 1 .. Len(outbox) /\ i + 1 < j + 1
        BY <1>8, <2>4
      <3> QED  BY <1>5, <2>2, <3>1
    <2> HIDE DEF m
    <2> QED  BY <1>4, <1>6, <2>1, <2>3, <2>4 DEF Ordered, WellFormed, Before, m
  <1>10. ~stray => Current'
    <2> SUFFICES ASSUME ~stray  PROVE Current'
      OBVIOUS
    <2>1. OfThis(m) /\ \A i \in 1 .. Len(outbox') : OfThis(outbox'[i])
      BY <1>5, <1>8 DEF InboxInv, Current
    <2>2. /\ m.type = "end" => outbox' = <<>> /\ acquired = -1
          /\ \A i \in 1 .. Len(outbox') :
                outbox'[i].type = "end" => i = Len(outbox') /\ acquired = -1
      <3>1. \A i \in 1 .. Len(outbox) :
               outbox[i].type = "end" => i = Len(outbox) /\ acquired = -1
        BY DEF InboxInv, Current
      <3>2. Len(outbox') = 0 => outbox' = <<>>
        BY DEF TypeOK, Deliver
      <3> QED  BY <1>5, <1>8, <3>1, <3>2
    <2> QED  BY <1>4, <1>6, <2>1, <2>2 DEF Current, OfThis
  <1>11. ValuesCalled'
    BY <1>3 DEF ValuesCalled, Calling, None
  <1>12. Valueless => Valueless'
    BY <1>4, <1>5, <1>6, <1>8 DEF Valueless
  <1>13. Registered' /\ (~stray => Stages')
    BY <1>6, <1>12 DEF InboxInv, Registered, Stages, Topic
  <1> QED  BY <1>2, <1>4, <1>6, <1>7, <1>9, <1>10, <1>11, <1>13 DEF InboxInv

\* A request whose connection is closed is the next to be sent again, or lost.
LEMMA SelectFailsStep ==
    ASSUME TypeOK, InboxInv, NEW c \in Connections, SelectFails(c)
    PROVE  InboxInv'
  <1>1. UNCHANGED <<pc, acquisition, stray, stopEvent, subscribers, writing, acquired, sent>>
    BY DEF SelectFails, task, map
  <1>2. /\ \A k \in Connections : request'[k] = IF k = c THEN None ELSE request[k]
        /\ \A k \in Connections : handler'[k] = IF k = c THEN "closed" ELSE handler[k]
    BY DEF SelectFails, TypeOK, Goes
  <1>3. CASE request[c] = None \/ ~Resends
    <2>1. UNCHANGED outbox
      BY <1>3 DEF SelectFails
    <2>2. \A k \in Connections : /\ request'[k] \in {request[k], None}
                                 /\ Active(k)' => Active(k) /\ request'[k] = request[k]
                                 /\ Calling(k)' => Calling(k) /\ request'[k] = request[k]
      BY <1>2 DEF Active, Calling
    <2> QED  BY <1>1, <2>1, <2>2, HandlerLeaves DEF InboxInv, ValuesCalled
  <1>4. CASE request[c] # None /\ Resends
    <2>1. outbox' = <<request[c]>> \o outbox /\ handler[c] = "select"
      BY <1>4 DEF SelectFails
    <2>2. /\ Len(outbox') = Len(outbox) + 1 /\ Len(outbox) \in Nat
          /\ outbox'[1] = request[c]
          /\ \A i \in 1 .. Len(outbox') :
                i # 1 => i - 1 \in 1 .. Len(outbox) /\ outbox'[i] = outbox[i - 1]
      BY <1>4, <2>1 DEF TypeOK
    <2>3. Active(c)
      BY <1>4, <2>1 DEF Active
    <2>4. \A k \in Connections : request'[k] = None
      BY <1>2, <1>4 DEF InboxInv, OneRequest
    <2>5. OneRequest' /\ \A k \in Connections : ~Active(k)'
      BY <2>4 DEF OneRequest, Active
    <2>6. Ordered'
      <3>1. /\ WellFormed(request[c])
            /\ \A i \in 1 .. Len(outbox) : WellFormed(outbox[i]) /\ Before(request[c], outbox[i])
            /\ \A i, j \in 1 .. Len(outbox) : i < j => Before(outbox[i], outbox[j])
        BY <2>3 DEF InboxInv, Ordered
      <3>2. \A i \in 1 .. Len(outbox') : WellFormed(outbox'[i])
        BY <2>2, <3>1
      <3>3. ASSUME NEW i \in 1 .. Len(outbox'), NEW j \in 1 .. Len(outbox'), i < j
            PROVE  Before(outbox'[i], outbox'[j])
        <4>1. j # 1 /\ j - 1 \in 1 .. Len(outbox) /\ outbox'[j] = outbox[j - 1]
          BY <2>2, <3>3
        <4>2. CASE i = 1
          BY <2>2, <3>1, <4>1, <4>2
        <4>3. CASE i # 1
          <5>1. i - 1 \in 1 .. Len(outbox) /\ outbox'[i] = outbox[i - 1] /\ i - 1 < j - 1
            BY <2>2, <3>3, <4>3
          <5> QED  BY <3>1, <4>1, <5>1
        <4> QED  BY <4>2, <4>3
      <3> QED  BY <1>1, <2>5, <3>2, <3>3 DEF Ordered, WellFormed, Before
    <2>7. ~stray => Current'
      <3>1. ~stray => /\ OfThis(request[c])
                      /\ request[c].type = "end" => Len(outbox) = 0 /\ acquired = -1
                      /\ \A i \in 1 .. Len(outbox) :
                            /\ OfThis(outbox[i])
                            /\ outbox[i].type = "end" => i = Len(outbox) /\ acquired = -1
        BY <2>3 DEF InboxInv, Current
      <3>2. ~stray => \A i \in 1 .. Len(outbox') :
                         /\ OfThis(outbox'[i])
                         /\ outbox'[i].type = "end" => i = Len(outbox') /\ acquired = -1
        BY <2>2, <3>1
      <3> QED  BY <1>1, <2>5, <3>2 DEF Current, OfThis
    <2>8. ValuesCalled'
      BY <1>2, <2>4 DEF InboxInv, ValuesCalled, Calling, TypeOK, None
    <2>9. Valueless => Valueless'
      BY <1>1, <2>2, <2>3, <2>5 DEF Valueless
    <2>10. Registered' /\ (~stray => Stages')
      BY <1>1, <2>9 DEF InboxInv, Stages, Registered, Topic
    <2> QED  BY <1>1, <2>5, <2>6, <2>7, <2>8, <2>10 DEF InboxInv
  <1> QED  BY <1>3, <1>4

\* What a handler does leaves the queue in order.
LEMMA HandlerStep ==
    ASSUME TypeOK, InboxInv, NEW c \in Connections, Handler(c) \/ TakeLock(c)
    PROVE  InboxInv'
  <1>1. UNCHANGED <<pc, acquisition, stray, acquired, sent, outbox, subscribers, writing>>
    BY DEF Handler, Receive, Lookup, StateChanged, TakeLock, ReleaseLock, Store, Respond,
           task, map, server
  <1>2. \A k \in Connections : k # c => handler'[k] = handler[k] /\ request'[k] = request[k]
    BY DEF TypeOK, Handler, Receive, Lookup, StateChanged, TakeLock, ReleaseLock, Store,
           Respond, Goes
  <1>3. CASE Respond(c)
    <2>1. request'[c] = None /\ stopEvent' = stopEvent
      BY <1>3 DEF TypeOK, Respond
    <2>2. \A k \in Connections : /\ request'[k] \in {request[k], None}
                                 /\ Active(k)' => Active(k) /\ request'[k] = request[k]
                                 /\ Calling(k)' => request'[k].type # "null"
      BY <1>2, <2>1 DEF InboxInv, ValuesCalled, Active, Calling, None
    <2> QED  BY <1>1, <2>1, <2>2, HandlerLeaves
  <1>4. CASE ~Respond(c)
    <2>1. /\ request'[c] = request[c] /\ request[c] # None
          /\ handler[c] # "respond"
          /\ handler'[c] \in {"callback", "locked", "store"} => request[c].type # "null"
      BY <1>4 DEF InboxInv, ValuesCalled, Calling, TypeOK, Handler, Receive, Waiting, Lookup,
                  Found, NotFound, StateChanged, TakeLock, ReleaseLock, Store, Goes
    <2>2. \A k \in Connections : /\ request'[k] \in {request[k], None}
                                 /\ Active(k)' => Active(k) /\ request'[k] = request[k]
                                 /\ Calling(k)' => request'[k].type # "null"
      BY <1>2, <2>1 DEF InboxInv, ValuesCalled, Active, Calling
    <2>3. ~stray => stopEvent' = stopEvent \/ Valueless'
      <3> SUFFICES ASSUME ~stray  PROVE stopEvent' = stopEvent \/ Valueless'
        OBVIOUS
      <3>1. CASE StateChanged(c) /\ request[c].type = "end"
        <4>1. handler'[c] = "respond" /\ Active(c)
          BY <2>1, <3>1 DEF TypeOK, StateChanged, Goes, Active
        <4>2. outbox = <<>> /\ acquired = -1
          BY <3>1, <4>1 DEF InboxInv, Current
        <4>3. \A k \in Connections : k # c => request[k] = None
          BY <2>1 DEF InboxInv, OneRequest
        <4> QED  BY <1>1, <1>2, <4>1, <4>2, <4>3 DEF Valueless, Active
      <3>2. CASE ~(StateChanged(c) /\ request[c].type = "end")
        BY <1>4, <3>2 DEF Handler, Receive, Lookup, StateChanged, Ending, TakeLock,
                          ReleaseLock, Store
      <3> QED  BY <3>1, <3>2
    <2> QED  BY <1>1, <2>2, <2>3, HandlerLeaves
  <1> QED  BY <1>3, <1>4

\* A notification that is announced joins the end of the queue.
LEMMA PostOrdered ==
    ASSUME TypeOK, InboxInv, NEW kind, NEW type \in {"update", "state", "end"},
           Post(kind, type), UNCHANGED links
    PROVE  Ordered' /\ OneRequest' /\ ValuesCalled'
  <1>1. \A c \in Connections : (Active(c)' = Active(c)) /\ (Calling(c)' = Calling(c))
    BY DEF Active, Calling, links
  <1>2. OneRequest' /\ ValuesCalled'
    BY <1>1 DEF InboxInv, OneRequest, ValuesCalled, links
  <1>3. CASE UNCHANGED <<sent, outbox>>
    <2>1. Ordered'
      BY <1>1, <1>3 DEF InboxInv, Ordered, WellFormed, Before, links
    <2> QED  BY <1>2, <2>1
  <1>4. CASE Topic(kind) \in topics
    <2>0. PICK m : m = [topic |-> Topic(kind), type |-> type, n |-> sent + 1]
      OBVIOUS
    <2>1. /\ sent \in Nat /\ sent' = sent + 1 /\ outbox' = Append(outbox, m)
          /\ outbox \in Seq(Notifications) /\ Len(outbox) \in Nat
      BY <1>4, <2>0 DEF TypeOK, Post
    <2>2. m.n = sent + 1 /\ m.type # "null"
      BY <2>0
    <2>3. /\ Len(outbox') = Len(outbox) + 1
          /\ outbox'[Len(outbox')] = m
          /\ \A i \in 1 .. Len(outbox') :
                i # Len(outbox') => i \in 1 .. Len(outbox) /\ outbox'[i] = outbox[i]
      BY <2>1
    <2>4. \A x \in Notifications : x.n \in Nat
      BY DEF Notifications
    <2>5. \A x \in Notifications : WellFormed(x) => WellFormed(x)' /\ Before(x, m)
      <3> TAKE x \in Notifications
      <3> HAVE WellFormed(x)
      <3>1. x.n \in Nat /\ x.n <= sent /\ (x.type = "null" <=> x.n = 0)
        BY <2>4 DEF WellFormed
      <3>2. x.n <= sent' /\ x.n < m.n
        BY <2>1, <2>2, <3>1
      <3> QED  BY <3>1, <3>2 DEF WellFormed, Before
    <2>6. WellFormed(m)'
      <3>1. m.n <= sent' /\ m.n # 0 /\ m.type # "null"
        BY <2>1, <2>2
      <3> QED  BY <3>1 DEF WellFormed
    <2>7. /\ \A i \in 1 .. Len(outbox) : outbox[i] \in Notifications /\ WellFormed(outbox[i])
          /\ \A i, j \in 1 .. Len(outbox) : i < j => Before(outbox[i], outbox[j])
      BY <2>1 DEF InboxInv, Ordered
    <2>8. \A c \in Connections : Active(c) =>
             /\ request[c] \in Notifications /\ WellFormed(request[c])
             /\ \A i \in 1 .. Len(outbox) : Before(request[c], outbox[i])
      BY DEF InboxInv, Ordered, TypeOK, Active
    <2>9. (\A i \in 1 .. Len(outbox) : WellFormed(outbox[i]))'
      <3>1. \A x \in Notifications :
               WellFormed(x) => x.n <= sent' /\ (x.type = "null" <=> x.n = 0)
        BY <2>5 DEF WellFormed
      <3>2. m.n <= sent' /\ (m.type = "null" <=> m.n = 0)
        BY <2>6 DEF WellFormed
      <3>3. \A i \in 1 .. Len(outbox') :
               outbox'[i].n <= sent' /\ (outbox'[i].type = "null" <=> outbox'[i].n = 0)
        BY <2>3, <2>7, <3>1, <3>2
      <3> QED  BY <3>3 DEF WellFormed
    <2>10. ASSUME NEW i \in 1 .. Len(outbox'), NEW j \in 1 .. Len(outbox'), i < j
           PROVE  Before(outbox'[i], outbox'[j])
      <3>1. i \in 1 .. Len(outbox) /\ outbox'[i] = outbox[i]
        BY <2>1, <2>3, <2>10
      <3>2. CASE j = Len(outbox')
        BY <2>3, <2>5, <2>7, <3>1, <3>2
      <3>3. CASE j # Len(outbox')
        BY <2>3, <2>7, <2>10, <3>1, <3>3
      <3> QED  BY <3>2, <3>3
    <2>11. ASSUME NEW c \in Connections, Active(c)
           PROVE  /\ WellFormed(request[c])'
                  /\ \A i \in 1 .. Len(outbox') : Before(request[c], outbox'[i])
      <3>1. WellFormed(request[c])'
        BY <2>5, <2>8, <2>11 DEF links, WellFormed
      <3>2. \A i \in 1 .. Len(outbox') : Before(request[c], outbox'[i])
        BY <2>3, <2>5, <2>8, <2>11
      <3> QED  BY <3>1, <3>2
    <2>12. request' = request
      BY DEF links
    <2>13. Ordered'
      <3>1. (\A i, j \in 1 .. Len(outbox) : i < j => Before(outbox[i], outbox[j]))'
        BY <2>10 DEF Before
      <3>2. (\A c \in Connections : Active(c) =>
                /\ WellFormed(request[c])
                /\ \A i \in 1 .. Len(outbox) : Before(request[c], outbox[i]))'
        BY <1>1, <2>11, <2>12 DEF Before
      <3> QED  BY <2>9, <3>1, <3>2 DEF Ordered
    <2> QED  BY <1>2, <2>13
  <1> QED  BY <1>3, <1>4 DEF Post

\* In an exposure it is of this acquisition.
LEMMA PostCurrent ==
    ASSUME TypeOK, Current, NEW kind, NEW type \in {"update", "state", "end"},
           Post(kind, type), UNCHANGED <<acquisition, links>>,
           \A i \in 1 .. Len(outbox) : outbox[i].type # "end",
           \A c \in Connections : Active(c) => request[c].type # "end",
           type = "end" => acquired' = -1
    PROVE  Current'
  <1>1. \A c \in Connections : (Active(c)' = Active(c)) /\ request'[c] = request[c]
    BY DEF Active, links
  <1>2. \A x : OfThis(x)' = OfThis(x)
    BY DEF OfThis
  <1>3. CASE UNCHANGED <<sent, outbox>>
    BY <1>1, <1>2, <1>3 DEF Current
  <1>4. CASE Topic(kind) \in topics
    <2> DEFINE m == [topic |-> Topic(kind), type |-> type, n |-> sent + 1]
    <2>1. outbox' = Append(outbox, m) /\ outbox \in Seq(Notifications) /\ Len(outbox) \in Nat
      BY <1>4 DEF TypeOK, Post
    <2>2. OfThis(m) /\ m.type = type
      BY DEF OfThis, Topic
    <2> HIDE DEF m
    <2>3. /\ Len(outbox') = Len(outbox) + 1
          /\ outbox'[Len(outbox')] = m
          /\ \A i \in 1 .. Len(outbox') :
                i # Len(outbox') => i \in 1 .. Len(outbox) /\ outbox'[i] = outbox[i]
      BY <2>1
    <2>4. \A i \in 1 .. Len(outbox') :
             /\ OfThis(outbox'[i])
             /\ outbox'[i].type = "end" => i = Len(outbox') /\ acquired' = -1
      BY <2>2, <2>3 DEF Current
    <2> QED  BY <1>1, <1>2, <2>4 DEF Current
  <1> QED  BY <1>3, <1>4 DEF Post

\* A step of an acquisition, and its end.
LEMMA ServerStep ==
    ASSUME TypeOK, InboxInv, Server
    PROVE  InboxInv'
  <1>1. /\ acquired # -1
        /\ UNCHANGED <<pc, acquisition, stray, stopEvent, subscribers, writing, links>>
    BY DEF TypeOK, Server, ServerUpdate, ServerEnds, task, map
  <1>2. Ordered' /\ OneRequest' /\ ValuesCalled'
    BY <1>1, PostOrdered DEF Server, ServerUpdate, ServerEnds
  <1>3. ~stray => Current' /\ Stages'
    <2> SUFFICES ASSUME ~stray  PROVE Current' /\ Stages'
      OBVIOUS
    <2>1. pc = "WaitStop" /\ stopEvent # "full"
      BY <1>1 DEF InboxInv, Stages, Valueless
    <2>2. /\ \A i \in 1 .. Len(outbox) : outbox[i].type # "end"
          /\ \A c \in Connections : Active(c) => request[c].type # "end"
      BY <1>1 DEF InboxInv, Current
    <2>3. Current'
      <3>1. Current
        BY DEF InboxInv
      <3>2. CASE ServerUpdate
        <4>1. Post("Update", "update")
          BY <3>2 DEF ServerUpdate
        <4> QED  BY <1>1, <2>2, <3>1, <4>1, PostCurrent
      <3>3. CASE ServerEnds
        <4>1. Post("State", "end") /\ acquired' = -1
          BY <3>3 DEF ServerEnds
        <4> QED  BY <1>1, <2>2, <3>1, <4>1, PostCurrent
      <3> QED  BY <3>2, <3>3 DEF Server
    <2>4. Stages'
      BY <1>1, <2>1 DEF Stages
    <2> QED  BY <2>3, <2>4
  <1>4. Registered'
    BY <1>1 DEF InboxInv, Registered, Topic
  <1> QED  BY <1>1, <1>2, <1>3, <1>4 DEF InboxInv

\* Where nothing that has a value is under way, nothing is to be handled.
LEMMA ValuelessCurrent ==
    (Valueless => Current /\ Stages) /\ (Valueless => Current /\ Stages)'
  BY DEF Valueless, Current, OfThis, Stages

\* The server may tell of the value it has when the update is subscribed.
LEMMA FirstUpdate ==
    ASSUME TypeOK, InboxInv, SubscribeUpdate
    PROVE  Ordered' /\ (Valueless => Valueless')
  <1> DEFINE m == [topic |-> Topic("Update"), type |-> "null", n |-> 0]
  <1>1. UNCHANGED <<links, sent, acquired>> /\ \A c \in Connections : Active(c)' = Active(c)
    BY DEF SubscribeUpdate, Active, links
  <1>2. \A x : WellFormed(x)' = WellFormed(x)
    BY <1>1 DEF WellFormed
  <1>3. CASE outbox' = outbox
    BY <1>1, <1>2, <1>3 DEF InboxInv, Ordered, Before, Valueless, links
  <1>4. CASE outbox' = Append(outbox, m)
    <2>1. WellFormed(m) /\ m.type = "null" /\ \A x : Before(x, m)
      BY DEF WellFormed, Before, TypeOK
    <2> HIDE DEF m
    <2>2. outbox \in Seq(Notifications) /\ Len(outbox) \in Nat
      BY DEF TypeOK
    <2>3. /\ Len(outbox') = Len(outbox) + 1
          /\ outbox'[Len(outbox')] = m
          /\ \A i \in 1 .. Len(outbox') :
                i # Len(outbox') => i \in 1 .. Len(outbox) /\ outbox'[i] = outbox[i]
      BY <1>4, <2>2
    <2>4. \A i \in 1 .. Len(outbox') : WellFormed(outbox'[i])
      BY <2>1, <2>3 DEF InboxInv, Ordered
    <2>5. ASSUME NEW i \in 1 .. Len(outbox'), NEW j \in 1 .. Len(outbox'), i < j
          PROVE  Before(outbox'[i], outbox'[j])
      <3>1. i \in 1 .. Len(outbox) /\ outbox'[i] = outbox[i]
        BY <2>2, <2>3, <2>5
      <3>2. CASE j = Len(outbox')
        BY <2>1, <2>3, <3>2
      <3>3. CASE j # Len(outbox')
        BY <2>3, <2>5, <3>1, <3>3 DEF InboxInv, Ordered
      <3> QED  BY <3>2, <3>3
    <2>6. \A c \in Connections : Active(c) =>
             /\ WellFormed(request[c])
             /\ \A i \in 1 .. Len(outbox') : Before(request[c], outbox'[i])
      BY <2>1, <2>3 DEF InboxInv, Ordered
    <2>7. Ordered'
      BY <1>1, <1>2, <2>4, <2>5, <2>6 DEF Ordered, Before, links
    <2>8. Valueless => Valueless'
      BY <1>1, <2>1, <2>3 DEF Valueless, links
    <2> QED  BY <2>7, <2>8
  <1> QED  BY <1>3, <1>4 DEF SubscribeUpdate

\* An acquisition subscribes, exposes and unsubscribes.
LEMMA TaskStep ==
    ASSUME TypeOK, InboxInv, Task
    PROVE  InboxInv'
  <1>1. /\ UNCHANGED links
        /\ OneRequest' /\ ValuesCalled'
        /\ \A c \in Connections : Active(c)' = Active(c)
    BY DEF InboxInv, OneRequest, ValuesCalled, Calling, Active, Task, SubscribeState,
           SubscribeUpdate, BeginWrite, InsertState, InsertUpdate, Subscribe, Start,
           StartThrows, WaitStop, UnsubscribeState, UnsubscribeUpdate, Unsubscribing,
           EraseState, EraseUpdate, Unsubscribe, links
  <1>2. Registered'
    <2>1. CASE SubscribeState
      BY <2>1 DEF InboxInv, Registered, SubscribeState, map
    <2>2. CASE ~SubscribeState
      <3>1. \A kind : Topic(kind)' = Topic(kind)
        BY <2>2 DEF Topic, Task, SubscribeUpdate, BeginWrite, InsertState, InsertUpdate, Subscribe,
                    Start, StartThrows, WaitStop, UnsubscribeState, UnsubscribeUpdate,
                    Unsubscribing, EraseState, EraseUpdate, Unsubscribe, task
      <3>2. CASE SubscribeUpdate \/ BeginWrite \/ InsertState \/ InsertUpdate
        BY <3>1, <3>2 DEF InboxInv, Registered, SubscribeUpdate, BeginWrite, InsertState,
                          InsertUpdate, Subscribe, task, map
      <3>3. CASE Start \/ StartThrows \/ WaitStop
        BY <3>1, <3>3 DEF InboxInv, Registered, Start, StartThrows, WaitStop, map
      <3>4. CASE UnsubscribeState \/ UnsubscribeUpdate \/ EraseState \/ EraseUpdate
        BY <3>1, <3>4 DEF InboxInv, Registered, UnsubscribeState, UnsubscribeUpdate,
                          Unsubscribing, EraseState, EraseUpdate, Unsubscribe, map
      <3> QED  BY <2>2, <3>2, <3>3, <3>4 DEF Task
    <2> QED  BY <2>1, <2>2
  <1>3. CASE Start \/ (StartThrows /\ ~UNCHANGED <<acquired, sent, outbox, stray>>)
    <2>1. /\ Post("State", "state") /\ acquired' = 0 /\ stopEvent' = "empty"
          /\ Start => pc' = "WaitStop" /\ UNCHANGED <<acquisition, stray>>
          /\ ~Start => stray'
      BY <1>3 DEF Start, StartThrows
    <2>2. Ordered'
      BY <1>1, <2>1, PostOrdered
    <2>3. ~stray' => Current' /\ Stages'
      <3> SUFFICES ASSUME ~stray'  PROVE Current' /\ Stages'
        OBVIOUS
      <3>1. Start /\ ~stray /\ Valueless
        BY <2>1 DEF InboxInv, Stages, Start
      <3>2. Current'
        BY <1>1, <2>1, <3>1, PostCurrent DEF InboxInv, Valueless
      <3>3. Stages'
        BY <2>1, <3>1 DEF Stages
      <3> QED  BY <3>2, <3>3
    <2> QED  BY <1>1, <1>2, <2>2, <2>3 DEF InboxInv
  <1>4. CASE ~Start /\ (StartThrows => UNCHANGED <<acquired, sent, outbox, stray>>)
    <2>1. ~stray' => Valueless
      <3>1. CASE SubscribeState
        <4>1. Quiet => Valueless
          BY DEF Quiet, Valueless
        <4> QED  BY <3>1, <4>1 DEF SubscribeState, InboxInv, Stages
      <3>2. CASE ~SubscribeState
        BY <1>4, <3>2 DEF InboxInv, Stages, Task, SubscribeUpdate, BeginWrite, InsertState,
                          InsertUpdate, Subscribe, StartThrows, WaitStop, UnsubscribeState,
                          UnsubscribeUpdate, Unsubscribing, EraseState, EraseUpdate,
                          Unsubscribe, task
      <3> QED  BY <3>1, <3>2
    <2>2. Ordered' /\ (Valueless => Valueless')
      <3>1. CASE ~SubscribeUpdate
        <4>1. UNCHANGED <<acquired, sent, outbox>>
          BY <1>4, <3>1 DEF Task, SubscribeState, BeginWrite, InsertState, InsertUpdate, Subscribe,
                            StartThrows, WaitStop, UnsubscribeState, UnsubscribeUpdate,
                            Unsubscribing, EraseState, EraseUpdate, Unsubscribe, server
        <4>2. Ordered'
          BY <1>1, <4>1 DEF InboxInv, Ordered, WellFormed, Before, links
        <4>3. Valueless => Valueless'
          BY <1>1, <4>1 DEF Valueless, links
        <4> QED  BY <4>2, <4>3
      <3> QED  BY <3>1, FirstUpdate
    <2> QED  BY <1>1, <1>2, <2>1, <2>2, ValuelessCurrent DEF InboxInv
  <1> QED  BY <1>3, <1>4

LEMMA InboxStep ==
    ASSUME OneAtATime, TypeOK, InboxInv, [Next]_vars
    PROVE  InboxInv'
  <1>1. CASE UNCHANGED vars \/ Port
    <2>1. UNCHANGED <<task, stopEvent, map, server, links>>
      BY <1>1 DEF Port, PortLocks, PortUnlocks, vars
    <2>2. UNCHANGED <<pc, acquisition, stray, acquired, sent, outbox, subscribers, writing,
                      stopEvent, handler, request>>
      BY <2>1 DEF task, map, server, links
    <2>3. \A c \in Connections : (Active(c)' = Active(c)) /\ (Calling(c)' = Calling(c))
      BY <2>2 DEF Active, Calling
    <2> QED  BY <2>2, <2>3, HandlerLeaves DEF InboxInv, ValuesCalled
  <1>2. CASE Task
    BY <1>2, TaskStep
  <1>3. CASE Server
    BY <1>3, ServerStep
  <1>4. ASSUME NEW c \in Connections, Deliver(c)  PROVE InboxInv'
    BY <1>4, DeliverStep
  <1>5. ASSUME NEW c \in Connections, SelectFails(c)  PROVE InboxInv'
    BY <1>5, SelectFailsStep
  <1>6. ASSUME NEW c \in Connections, Handler(c) \/ TakeLock(c)  PROVE InboxInv'
    BY <1>6, HandlerStep
  <1> QED  BY <1>1, <1>2, <1>3, <1>4, <1>5, <1>6 DEF Next

LEMMA InboxInit ==
    ASSUME Init
    PROVE  InboxInv
  <1>1. /\ acquired = -1 /\ outbox = <<>> /\ writing = FALSE /\ pc = "SubscribeState"
        /\ \A c \in Connections : handler[c] = "closed" /\ request[c] = None
    BY DEF Init
  <1>2. Valueless
    BY <1>1 DEF Valueless, Active
  <1>3. Ordered
    BY <1>1 DEF Ordered, Active
  <1> QED
    BY <1>1, <1>2, <1>3, ValuelessCurrent
       DEF InboxInv, OneRequest, ValuesCalled, Calling, Registered

\* No callback is taken out of _subscribers while it runs, whatever the number
\* of connections and the speed of their threads, and whether requests that were
\* not read are sent again or not; but by the handler of a start() that threw
\* while the analyser acquires, and until what that leaves under way is through.
THEOREM CallbacksAlive ==
    ASSUME OneAtATime
    PROVE  Spec => []CallbackAlive
  <1>1. Init => Types /\ InboxInv
    BY InboxInit, TypesInit
  <1>2. Types /\ InboxInv /\ [Next]_vars => Types' /\ InboxInv'
    BY TypesStep, InboxStep DEF Types
  <1>3. Types /\ InboxInv => CallbackAlive
    <2> SUFFICES ASSUME Types, InboxInv, ~stray, NEW c \in Connections, Calling(c)
                 PROVE  /\ request[c].topic \in subscribers
                        /\ pc \in {"EraseState", "EraseUpdate"} => ~writing
      BY DEF CallbackAlive
    <2>1. Active(c) /\ request[c].type # "null"
      BY DEF Calling, Active, Types, TypeOK, InboxInv, ValuesCalled
    <2>2. pc = "WaitStop"
      BY <2>1 DEF InboxInv, Stages, Valueless, Types, TypeOK
    <2>3. request[c].topic.id = acquisition /\ request[c].topic \in Topics
      BY <2>1 DEF InboxInv, Current, OfThis, Types, TypeOK, Notifications, Active
    <2>4. request[c].topic \in {Topic("State"), Topic("Update")}
      BY <2>3 DEF Topics, Topic
    <2> QED  BY <2>2, <2>4 DEF InboxInv, Registered
  <1> QED  BY <1>1, <1>2, <1>3, PTL DEF Spec

-----------------------------------------------------------------------------
(* The inbox.  What is pending is the queue without what has no value.  An     *)
(* abstract step is a notification sent, handled or done with; every other     *)
(* step leaves the inbox as it is.                                             *)

\* The numbers in the outbox, when the first is taken out and when one is added.
LEMMA Numbers ==
    ASSUME NEW s \in Seq(Notifications)
    PROVE  /\ s # <<>> => {s[i].n : i \in DOMAIN s}
                            = {Head(s).n} \union {Tail(s)[i].n : i \in DOMAIN Tail(s)}
           /\ \A m \in Notifications :
                 /\ {Append(s, m)[i].n : i \in DOMAIN Append(s, m)}
                      = {s[i].n : i \in DOMAIN s} \union {m.n}
                 /\ {(<<m>> \o s)[i].n : i \in DOMAIN (<<m>> \o s)}
                      = {m.n} \union {s[i].n : i \in DOMAIN s}
  <1>1. ASSUME s # <<>>
        PROVE  {s[i].n : i \in DOMAIN s}
                 = {Head(s).n} \union {Tail(s)[i].n : i \in DOMAIN Tail(s)}
    <2>1. /\ Len(s) \in Nat \ {0} /\ Head(s) = s[1]
          /\ DOMAIN s = 1 .. Len(s) /\ DOMAIN Tail(s) = 1 .. Len(s) - 1
          /\ \A i \in 1 .. Len(s) - 1 : Tail(s)[i] = s[i + 1]
      BY <1>1
    <2>2. \A i \in 1 .. Len(s) : i = 1 \/ (i - 1 \in 1 .. Len(s) - 1 /\ s[i] = Tail(s)[i - 1])
      BY <2>1
    <2>3. \A i \in 1 .. Len(s) - 1 : i + 1 \in 1 .. Len(s)
      BY <2>1
    <2>4. 1 \in 1 .. Len(s)
      BY <2>1
    <2>5. ASSUME NEW x, x \in {s[i].n : i \in DOMAIN s}
          PROVE  x \in {Head(s).n} \union {Tail(s)[i].n : i \in DOMAIN Tail(s)}
      <3>1. PICK i \in 1 .. Len(s) : x = s[i].n
        BY <2>1, <2>5
      <3>2. i = 1 \/ (i - 1 \in 1 .. Len(s) - 1 /\ s[i] = Tail(s)[i - 1])
        BY <2>2
      <3> QED  BY <2>1, <3>1, <3>2
    <2>6. ASSUME NEW x, x \in {Tail(s)[i].n : i \in DOMAIN Tail(s)}
          PROVE  x \in {s[i].n : i \in DOMAIN s}
      <3>1. PICK i \in 1 .. Len(s) - 1 : x = Tail(s)[i].n
        BY <2>1, <2>6
      <3> QED  BY <2>1, <2>3, <3>1
    <2>7. Head(s).n \in {s[i].n : i \in DOMAIN s}
      BY <2>1, <2>4
    <2> QED  BY <2>5, <2>6, <2>7
  <1>2. ASSUME NEW m \in Notifications
        PROVE  {Append(s, m)[i].n : i \in DOMAIN Append(s, m)}
                 = {s[i].n : i \in DOMAIN s} \union {m.n}
    <2>1. /\ Len(s) \in Nat /\ DOMAIN s = 1 .. Len(s)
          /\ DOMAIN Append(s, m) = 1 .. Len(s) + 1
          /\ Append(s, m)[Len(s) + 1] = m
          /\ \A i \in 1 .. Len(s) : Append(s, m)[i] = s[i]
      OBVIOUS
    <2>2. \A i \in 1 .. Len(s) + 1 : i = Len(s) + 1 \/ i \in 1 .. Len(s)
      BY <2>1
    <2>3. Len(s) + 1 \in 1 .. Len(s) + 1 /\ 1 .. Len(s) \subseteq 1 .. Len(s) + 1
      BY <2>1
    <2> QED  BY <2>1, <2>2, <2>3
  <1>3. ASSUME NEW m \in Notifications
        PROVE  {(<<m>> \o s)[i].n : i \in DOMAIN (<<m>> \o s)}
                 = {m.n} \union {s[i].n : i \in DOMAIN s}
    <2>1. /\ Len(s) \in Nat /\ DOMAIN s = 1 .. Len(s)
          /\ DOMAIN (<<m>> \o s) = 1 .. Len(s) + 1
          /\ (<<m>> \o s)[1] = m
          /\ \A i \in 1 .. Len(s) : (<<m>> \o s)[i + 1] = s[i]
      OBVIOUS
    <2>2. \A i \in 1 .. Len(s) + 1 :
             i = 1 \/ (i - 1 \in 1 .. Len(s) /\ (<<m>> \o s)[i] = s[i - 1])
      BY <2>1
    <2>3. 1 \in 1 .. Len(s) + 1 /\ \A i \in 1 .. Len(s) : i + 1 \in 1 .. Len(s) + 1
      BY <2>1
    <2> DEFINE t == <<m>> \o s
    <2>4. ASSUME NEW x, x \in {t[i].n : i \in DOMAIN t}
          PROVE  x \in {m.n} \union {s[i].n : i \in DOMAIN s}
      <3>1. PICK i \in 1 .. Len(s) + 1 : x = t[i].n
        BY <2>1, <2>4
      <3>2. i = 1 \/ (i - 1 \in 1 .. Len(s) /\ t[i] = s[i - 1])
        BY <2>2
      <3> QED  BY <2>1, <3>1, <3>2
    <2>5. ASSUME NEW x, x \in {s[i].n : i \in DOMAIN s}
          PROVE  x \in {t[i].n : i \in DOMAIN t}
      <3>1. PICK i \in 1 .. Len(s) : x = s[i].n
        BY <2>1, <2>5
      <3> QED  BY <2>1, <2>3, <3>1
    <2>6. m.n \in {t[i].n : i \in DOMAIN t}
      BY <2>1, <2>3
    <2> QED  BY <2>4, <2>5, <2>6
  <1> QED  BY <1>1, <1>2, <1>3

NumbersOf(s) == {s[i].n : i \in DOMAIN s}

LEMMA HeadNumber ==
    ASSUME NEW s \in Seq(Notifications), s # <<>>
    PROVE  NumbersOf(s) = {Head(s).n} \union NumbersOf(Tail(s)) /\ Head(s) \in Notifications
  <1>1. NumbersOf(s) = {Head(s).n} \union NumbersOf(Tail(s))
    BY Numbers DEF NumbersOf
  <1>2. Head(s) \in Notifications
    OBVIOUS
  <1> QED  BY <1>1, <1>2

LEMMA MoreNumbers ==
    ASSUME NEW s \in Seq(Notifications), NEW m \in Notifications
    PROVE  /\ NumbersOf(Append(s, m)) = NumbersOf(s) \union {m.n}
           /\ NumbersOf(<<m>> \o s) = {m.n} \union NumbersOf(s)
  BY Numbers DEF NumbersOf

LEMMA NumbersAreNaturals ==
    ASSUME NEW s \in Seq(Notifications)
    PROVE  NumbersOf(s) \subseteq Nat
  <1>1. ASSUME NEW i \in DOMAIN s  PROVE s[i].n \in Nat
    <2>1. s[i] \in Notifications
      OBVIOUS
    <2> QED  BY <2>1 DEF Notifications
  <1> QED  BY <1>1 DEF NumbersOf

\* Of requests, at most that of c among those of T.
LEMMA Single ==
    ASSUME NEW f, NEW T \in SUBSET Connections, NEW c \in Connections,
           \A k \in T : k = c
    PROVE  {f[k].n : k \in T} = IF c \in T THEN {f[c].n} ELSE {}
  OBVIOUS

\* Every action that goes on with the request on c is a step of the inbox, or none.
LEMMA HandlerImplements ==
    ASSUME TypeOK, TypeOK', InboxInv, InboxInv', NEW c \in Connections, Handler(c) \/ TakeLock(c)
    PROVE  [Inbox!Next]_Inbox!vars
  <1> DEFINE numbers == NumbersOf(outbox)
             n == request[c].n
             coming == {k \in Connections : Coming(k)}
             called == {k \in Connections : Calling(k)}
  <1>1. UNCHANGED <<pc, stray, sent, outbox>> /\ Listening' = Listening
    BY DEF Handler, Receive, Lookup, StateChanged, TakeLock, ReleaseLock, Store, Respond,
           task, server, Listening
  <1>2. \A k \in Connections : k # c => handler'[k] = handler[k] /\ request'[k] = request[k]
    BY DEF TypeOK, Handler, Receive, Lookup, StateChanged, TakeLock, ReleaseLock, Store,
           Respond, Goes
  <1>3. request[c] # None
    BY DEF TypeOK, Handler, Receive, Waiting, Lookup, StateChanged, TakeLock, ReleaseLock,
           Store, Respond
  <1>4. \A k \in Connections : k # c => request[k] = None /\ request'[k] = None
    BY <1>2, <1>3 DEF InboxInv, OneRequest
  <1>5. \A k \in Connections : /\ Coming(k) \/ Calling(k) => k = c
                               /\ Coming(k)' \/ Calling(k)' => k = c
    BY <1>4 DEF Coming, Waiting, Calling, TypeOK
  <1>6. /\ Pending = (numbers \union IF Coming(c) THEN {n} ELSE {}) \ {0}
        /\ Called = IF Calling(c) THEN {n} ELSE {}
    <2>1. {request[k].n : k \in coming} = IF c \in coming THEN {n} ELSE {}
      BY <1>5, Single
    <2>2. {request[k].n : k \in called} = IF c \in called THEN {n} ELSE {}
      BY <1>5, Single
    <2> QED  BY <2>1, <2>2 DEF Pending, Called, NumbersOf
  <1>7. /\ Pending' = (numbers \union IF Coming(c)' THEN {request'[c].n} ELSE {}) \ {0}
        /\ Called' = IF Calling(c)' THEN {request'[c].n} ELSE {}
    <2>1. {request'[k].n : k \in coming'} = IF c \in coming' THEN {request'[c].n} ELSE {}
      BY <1>5, Single
    <2>2. {request'[k].n : k \in called'} = IF c \in called' THEN {request'[c].n} ELSE {}
      BY <1>5, Single
    <2> QED  BY <1>1, <2>1, <2>2 DEF Pending, Called, NumbersOf
  <1> HIDE DEF coming, called
  <1>8. CASE Respond(c)
    <2>1. ~Coming(c) /\ ~Calling(c) /\ ~Coming(c)' /\ ~Calling(c)'
      BY <1>8 DEF TypeOK, Respond, Goes, Coming, Waiting, Calling
    <2> QED  BY <1>1, <1>6, <1>7, <2>1 DEF Inbox!vars
  <1>9. CASE Receive(c) \/ TakeLock(c) \/ ReleaseLock(c)
    <2>1. (Coming(c)' = Coming(c)) /\ (Calling(c)' = Calling(c)) /\ request'[c].n = n
      BY <1>3, <1>9 DEF TypeOK, Receive, TakeLock, ReleaseLock, Goes, Coming, Waiting, Calling
    <2> QED  BY <1>1, <1>6, <1>7, <2>1 DEF Inbox!vars
  <1>10. CASE StateChanged(c) \/ Store(c)
    <2>1. ~Coming(c) /\ Calling(c) /\ ~Coming(c)' /\ ~Calling(c)'
      BY <1>10 DEF TypeOK, StateChanged, Store, Goes, Coming, Waiting, Calling
    <2>2. Called # {} /\ Called' = {} /\ Pending' = Pending
      BY <1>6, <1>7, <2>1
    <2> QED  BY <1>1, <2>2 DEF Inbox!Next, Inbox!Done
  <1>11. CASE Lookup(c)
    <2>1. /\ Coming(c) /\ ~Calling(c) /\ ~Coming(c)' /\ request'[c].n = n
          /\ Calling(c)' <=> handler'[c] = "callback"
          /\ Active(c)
      BY <1>3, <1>11 DEF TypeOK, Lookup, Found, NotFound, Goes, Coming, Waiting, Calling, Active
    <2>2. WellFormed(request[c]) /\ n \in Nat
      BY <1>3, <2>1 DEF InboxInv, Ordered, TypeOK, Notifications
    <2>3. CASE handler'[c] = "callback"
      <3>1. n # 0
        BY <1>11, <2>2, <2>3 DEF TypeOK, Lookup, Found, NotFound, Goes, WellFormed
      <3>2. \A m \in numbers : m = 0 \/ n < m
        <4>1. \A i \in 1 .. Len(outbox) : outbox[i].n = 0 \/ n < outbox[i].n
          BY <2>1 DEF InboxInv, Ordered, Before
        <4>2. DOMAIN outbox = 1 .. Len(outbox)
          BY DEF TypeOK
        <4> QED  BY <4>1, <4>2 DEF NumbersOf
      <3>3. /\ Pending = (numbers \union {n}) \ {0} /\ Called = {}
            /\ Pending' = numbers \ {0} /\ Called' = {n}
        BY <1>6, <1>7, <2>1, <2>3
      <3>4. n \in Pending /\ Pending' = Pending \ {n} /\ \A m \in Pending : n <= m
        <4>1. n \notin numbers
          BY <2>2, <3>1, <3>2
        <4>2. numbers \subseteq Nat
          BY NumbersAreNaturals DEF TypeOK
        <4> QED  BY <2>2, <3>1, <3>2, <3>3, <4>1, <4>2
      <3> QED  BY <1>1, <3>3, <3>4 DEF Inbox!Next, Inbox!Handle
    <2>4. CASE handler'[c] # "callback" /\ n = 0
      <3>1. Pending' = Pending /\ Called' = Called
        BY <1>6, <1>7, <2>1, <2>4
      <3> QED  BY <1>1, <3>1 DEF Inbox!vars
    <2>5. CASE handler'[c] # "callback" /\ n # 0
      <3>1. writing \/ request[c].topic \notin subscribers
        BY <1>11, <2>2, <2>5 DEF TypeOK, Lookup, Found, NotFound, Goes, WellFormed
      <3>2. ~Listening
        <4>1. ASSUME Listening  PROVE FALSE
          <5>1. request[c].topic.id = acquisition /\ request[c].topic \in Topics
            BY <1>3, <2>1, <2>2, <2>5, <4>1
               DEF InboxInv, Current, OfThis, WellFormed, TypeOK, Notifications, Listening
          <5>2. request[c].topic \in {Topic("State"), Topic("Update")}
            BY <5>1 DEF Topics, Topic
          <5> QED  BY <3>1, <4>1, <5>2 DEF InboxInv, Registered, Listening
        <4> QED  BY <4>1
      <3>3. Pending' \subseteq Pending /\ Called' = Called
        BY <1>6, <1>7, <2>1, <2>5
      <3> QED  BY <1>1, <3>2, <3>3 DEF Inbox!Next, Inbox!Drop
    <2> QED  BY <2>3, <2>4, <2>5
  <1> QED  BY <1>8, <1>9, <1>10, <1>11 DEF Handler

\* A request that is sent, or sent again, stays in the queue.
LEMMA LinkImplements ==
    ASSUME TypeOK, TypeOK', InboxInv, InboxInv', OneAtATime, Resends, NEW c \in Connections,
           Deliver(c) \/ SelectFails(c)
    PROVE  UNCHANGED Inbox!vars
  <1> DEFINE numbers == NumbersOf(outbox)
  <1>1. UNCHANGED sent /\ Listening' = Listening
    BY DEF Deliver, SelectFails, task, Listening
  <1>2. \A k \in Connections : k # c => handler'[k] = handler[k] /\ request'[k] = request[k]
    BY DEF TypeOK, Deliver, SelectFails, Goes
  <1>3. handler[c] \in {"closed", "select"} /\ handler'[c] \in {"closed", "select"}
    BY DEF TypeOK, Deliver, SelectFails, Goes
  <1>4. \A k \in Connections : k # c =>
           /\ Coming(k)' = Coming(k)
           /\ request'[k].n = request[k].n
    BY <1>2 DEF Coming, Waiting
  <1>5. \A k \in Connections : Calling(k)' = Calling(k)
    BY <1>2, <1>3 DEF Calling
  <1>6. Called' = Called
    <2>1. \A k \in Connections : Calling(k) => request'[k] = request[k]
      BY <1>2, <1>3 DEF Calling
    <2> QED  BY <1>5, <2>1 DEF Called
  <1>7. CASE Deliver(c)
    <2>1. /\ \A k \in Connections : request[k] = None
          /\ outbox # <<>> /\ outbox' = Tail(outbox)
          /\ request'[c] = Head(outbox) /\ handler'[c] = "select"
      BY <1>7, DeliverStep DEF TypeOK, Deliver
    <2>2. request'[c] # None
      <3>1. Head(outbox) \in Notifications
        BY <2>1, HeadNumber DEF TypeOK
      <3> QED  BY <2>1, <3>1 DEF Notifications, None
    <2>3. \A k \in Connections : ~Coming(k) /\ (Coming(k)' <=> k = c)
      BY <1>2, <2>1, <2>2 DEF Coming, Waiting, TypeOK
    <2>4. Pending = numbers \ {0}
      BY <2>3 DEF Pending, NumbersOf
    <2>5. Pending' = (numbers' \union {Head(outbox).n}) \ {0}
      BY <2>1, <2>3 DEF Pending, NumbersOf
    <2>6. numbers = numbers' \union {Head(outbox).n}
      BY <2>1, HeadNumber DEF TypeOK
    <2> QED  BY <1>1, <1>6, <2>4, <2>5, <2>6 DEF Inbox!vars
  <1>8. CASE SelectFails(c) /\ request[c] = None
    <2>1. outbox' = outbox /\ request'[c] = None
      BY <1>8 DEF TypeOK, SelectFails
    <2>2. ~Coming(c) /\ ~Coming(c)'
      BY <1>3, <1>8, <2>1 DEF Coming, Waiting
    <2>3. Pending' = Pending
      BY <1>4, <2>1, <2>2 DEF Pending, NumbersOf
    <2> QED  BY <1>1, <1>6, <2>3 DEF Inbox!vars
  <1>9. CASE SelectFails(c) /\ request[c] # None
    <2>1. /\ outbox' = <<request[c]>> \o outbox /\ handler[c] = "select"
          /\ request'[c] = None
      BY <1>9 DEF TypeOK, SelectFails
    <2>2. \A k \in Connections : request'[k] = None /\ (k # c => request[k] = None)
      BY <1>2, <1>9, <2>1 DEF InboxInv, OneRequest
    <2>3. \A k \in Connections : ~Coming(k)' /\ (Coming(k) <=> k = c)
      BY <1>9, <2>1, <2>2 DEF Coming, Waiting, TypeOK
    <2>4. Pending = (numbers \union {request[c].n}) \ {0}
      BY <2>3 DEF Pending, NumbersOf
    <2>5. Pending' = numbers' \ {0}
      BY <2>3 DEF Pending, NumbersOf
    <2>6. numbers' = {request[c].n} \union numbers
      <3>1. request[c] \in Notifications /\ outbox \in Seq(Notifications)
        BY <1>9 DEF TypeOK
      <3> QED  BY <2>1, <3>1, MoreNumbers
    <2> QED  BY <1>1, <1>6, <2>4, <2>5, <2>6 DEF Inbox!vars
  <1> QED  BY <1>7, <1>8, <1>9

\* A notification that is announced is sent, in the inbox too.
LEMMA PostImplements ==
    ASSUME TypeOK, TypeOK', NEW kind \in {"State", "Update"},
           NEW type \in {"update", "state", "end"},
           Post(kind, type), UNCHANGED links, Listening' \in {Listening, FALSE}
    PROVE  [Inbox!Next]_Inbox!vars
  <1> DEFINE numbers == NumbersOf(outbox)
             requests == {request[c].n : c \in {k \in Connections : Coming(k)}}
  <1>1. requests' = requests /\ Called' = Called
    BY DEF Coming, Waiting, Called, Calling, links
  <1>2. CASE UNCHANGED <<sent, outbox>>
    <2>1. Pending' = Pending
      BY <1>1, <1>2 DEF Pending
    <2>2. Listening' = Listening \/ Listening' = ~Listening
      BY DEF Listening
    <2> QED  BY <1>1, <1>2, <2>1, <2>2 DEF Inbox!Next, Inbox!Listen, Inbox!vars
  <1>3. CASE Topic(kind) \in topics
    <2> DEFINE m == [topic |-> Topic(kind), type |-> type, n |-> sent + 1]
    <2>1. m \in Notifications /\ sent \in Nat
      BY DEF TypeOK, Notifications, Topic, Topics
    <2>2. sent' = sent + 1 /\ outbox' = Append(outbox, m)
      BY <1>3 DEF Post
    <2>3. numbers' = numbers \union {sent + 1}
      BY <2>1, <2>2, MoreNumbers DEF TypeOK
    <2>4. Pending' = Pending \union {sent'} /\ sent' > sent
      <3>1. Pending = (numbers \union requests) \ {0}
        BY DEF Pending, NumbersOf
      <3>2. Pending' = (numbers' \union requests') \ {0}
        BY DEF Pending, NumbersOf
      <3>3. sent' = sent + 1 /\ sent' > sent /\ sent' # 0
        BY <2>1, <2>2
      <3> HIDE DEF numbers, requests
      <3> QED  BY <1>1, <2>3, <3>1, <3>2, <3>3
    <2> QED  BY <1>1, <2>4 DEF Inbox!Next, Inbox!Send
  <1> QED  BY <1>2, <1>3 DEF Post

\* The task sends nothing and handles nothing; it begins and ends to listen.
LEMMA TaskImplements ==
    ASSUME TypeOK, TypeOK', Task, ~Start,
           StartThrows => UNCHANGED sent /\ outbox' = outbox
    PROVE  [Inbox!Next]_Inbox!vars
  <1>1. UNCHANGED <<links, sent>>
    BY DEF Task, SubscribeState, SubscribeUpdate, BeginWrite, InsertState, InsertUpdate,
           Subscribe, StartThrows,
           WaitStop, UnsubscribeState, UnsubscribeUpdate, Unsubscribing, EraseState,
           EraseUpdate, Unsubscribe, server
  <1>2. Called' = Called
    BY <1>1 DEF Called, Calling, links
  <1>3. Pending' = Pending
    <2> DEFINE numbers == NumbersOf(outbox)
               requests == {request[c].n : c \in {k \in Connections : Coming(k)}}
    <2>1. requests' = requests
      BY <1>1 DEF Coming, Waiting, links
    <2>2. numbers' = numbers \/ numbers' = numbers \union {0}
      <3>1. CASE outbox' = outbox
        BY <3>1
      <3>2. CASE SubscribeUpdate
        <4> DEFINE m == [topic |-> Topic("Update"), type |-> "null", n |-> 0]
        <4>1. m \in Notifications
          BY DEF TypeOK, Notifications, Topic, Topics
        <4>2. outbox' = outbox \/ outbox' = Append(outbox, m)
          BY <3>2 DEF SubscribeUpdate
        <4>3. outbox \in Seq(Notifications)
          BY DEF TypeOK
        <4> QED  BY <3>1, <4>1, <4>2, <4>3, MoreNumbers
      <3> QED
        BY <3>1, <3>2
           DEF Task, SubscribeState, BeginWrite, InsertState, InsertUpdate, Subscribe, StartThrows,
           WaitStop,
               UnsubscribeState, UnsubscribeUpdate, Unsubscribing, EraseState, EraseUpdate,
               Unsubscribe, server
    <2>3. Pending = (numbers \union requests) \ {0}
      BY DEF Pending, NumbersOf
    <2>4. Pending' = (numbers' \union requests') \ {0}
      BY DEF Pending, NumbersOf
    <2> HIDE DEF numbers, requests
    <2> QED  BY <2>1, <2>2, <2>3, <2>4
  <1>4. Listening' = Listening \/ Listening' = ~Listening
    BY DEF Listening
  <1> QED  BY <1>1, <1>2, <1>3, <1>4 DEF Inbox!Next, Inbox!Listen, Inbox!vars

LEMMA StepImplements ==
    ASSUME TypeOK, TypeOK', InboxInv, InboxInv', OneAtATime, Resends, [Next]_vars
    PROVE  [Inbox!Next]_Inbox!vars
  <1>1. CASE UNCHANGED vars \/ Port
    <2>1. UNCHANGED <<pc, stray, sent, outbox, handler, request>>
      BY <1>1 DEF vars, Port, PortLocks, PortUnlocks, task, server, links
    <2> QED
      BY <2>1 DEF Inbox!vars, Pending, Coming, Waiting, Called, Calling, Listening
  <1>2. CASE Task
    <2>1. CASE Start
      <3>1. Listening' = Listening /\ Post("State", "state") /\ UNCHANGED links
        BY <2>1 DEF Start, Listening
      <3> QED  BY <3>1, PostImplements
    <2>2. CASE StartThrows /\ Post("State", "state")
      <3>1. Listening' = FALSE /\ UNCHANGED links
        BY <2>2 DEF StartThrows, Listening
      <3> QED  BY <2>2, <3>1, PostImplements
    <2>3. CASE ~Start /\ ~(StartThrows /\ Post("State", "state"))
      <3>1. StartThrows => UNCHANGED sent /\ outbox' = outbox
        BY <2>3 DEF StartThrows
      <3> QED  BY <1>2, <2>3, <3>1, TaskImplements
    <2> QED  BY <2>1, <2>2, <2>3
  <1>3. CASE Server
    <2>1. Listening' = Listening /\ UNCHANGED links
      BY <1>3 DEF Server, ServerUpdate, ServerEnds, Listening, task
    <2>2. Post("Update", "update") \/ Post("State", "end")
      BY <1>3 DEF Server, ServerUpdate, ServerEnds
    <2> QED  BY <2>1, <2>2, PostImplements
  <1>4. ASSUME NEW c \in Connections, Deliver(c) \/ SelectFails(c)
        PROVE  [Inbox!Next]_Inbox!vars
    BY <1>4, LinkImplements
  <1>5. ASSUME NEW c \in Connections, Handler(c) \/ TakeLock(c)
        PROVE  [Inbox!Next]_Inbox!vars
    BY <1>5, HandlerImplements
  <1> QED  BY <1>1, <1>2, <1>3, <1>4, <1>5 DEF Next

\* With a thread for each connection, threads that run at any speed, selects that
\* fail and a start() that throws, notifications are handled in order, each once
\* and one at a time, and none is lost while the task listens; from a server that
\* awaits each answer, and sends a request again that was not read.
THEOREM ServerImplementsInbox ==
    ASSUME OneAtATime, Resends
    PROVE  Spec => ImplementsOrderedInbox
  <1>1. Init => Types /\ InboxInv
    BY InboxInit, TypesInit
  <1>2. Types /\ InboxInv /\ [Next]_vars => Types' /\ InboxInv'
    BY TypesStep, InboxStep DEF Types
  <1>3. Init => Inbox!Init
    <2>1. Init => Pending = {}
      BY DEF Init, Pending, Coming, Waiting
    <2>2. Init => Called = {} /\ Listening = FALSE /\ sent = 0
      BY DEF Init, Called, Calling, Listening
    <2> QED  BY <2>1, <2>2 DEF Inbox!Init
  <1>4. Types /\ InboxInv /\ [Next]_vars /\ Types' /\ InboxInv' => [Inbox!Next]_Inbox!vars
    BY StepImplements DEF Types
  <1> QED  BY <1>1, <1>2, <1>3, <1>4, PTL DEF Spec, ImplementsOrderedInbox, Inbox!Spec

=============================================================================
