------------------------- MODULE WebSocketRpcProofs -------------------------
(***************************************************************************)
(* Theorems about calls over the WebSocket, for every set of ids and of    *)
(* connections and any number of notifications.  As long as one thread     *)
(* makes the calls, none waits in vain, and while the server keeps its     *)
(* connections they are answered correctly; with two callers TLC finds     *)
(* each of these properties violated.  Without SpectrumUpdate no callers   *)
(* can bring the event loop to a stop.                                     *)
(***************************************************************************)
EXTENDS WebSocketRpc, TLAPS

-----------------------------------------------------------------------------
(* The semaphore has no memory of whom a signal is for.  What keeps one    *)
(* thread's calls apart is that at most one signal is ever under way, and  *)
(* only while the thread waits.                                            *)
Alone(t) == Callers = {t}

Signals(h)   == h.type \in Signalling
NoSignal     == \A k \in 1 .. Len(inbox) : ~Signals(inbox[k])
OneSignal(k) == \A l \in 1 .. Len(inbox) : Signals(inbox[l]) => l = k
NoneOpening  == \A n \in Connections : connections[n] # "opening"

RestInv(t) ==
    pc[t] \notin {"connecting", "wait"} =>
        event = "empty" /\ NoSignal /\ requests = {} /\ NoneOpening

ConnectingInv(t) ==
    pc[t] = "connecting" =>
        /\ requests = {}
        /\ \/ event = "full" /\ NoSignal /\ NoneOpening
           \/ /\ event = "empty" /\ NoSignal
              /\ \A n \in Connections : connections[n] = "opening" => n = m_hdl
           \/ /\ event = "empty" /\ NoneOpening
              /\ \E k \in 1 .. Len(inbox) : OneSignal(k)

WaitInv(t) ==
    pc[t] = "wait" =>
        /\ NoneOpening
        /\ \/ event = "full" /\ NoSignal /\ requests = {} /\ m_response = id[t]
           \/ event = "empty" /\ NoSignal /\ requests = {id[t]}
           \/ /\ event = "empty" /\ requests = {}
              /\ \E k \in 1 .. Len(inbox) : inbox[k] = Reply(id[t]) /\ OneSignal(k)

ReturnInv(t) ==
    /\ pc[t] = "read" => m_response = id[t]
    /\ pc[t] = "return" /\ result[t] # id[t] =>
           /\ result[t] = NoId
           /\ m_hdl = NoConnection \/ connections[m_hdl] # "open"
    /\ pc[t] \in {"send", "wait", "read", "return"} => id[t] # NoId

CallInv(t) ==
    dropped \/ (RestInv(t) /\ ConnectingInv(t) /\ WaitInv(t) /\ ReturnInv(t))

-----------------------------------------------------------------------------
(* Types: a request that is under way has an id. *)
IdInv == \A c \in Callers : pc[c] \in {"send", "wait", "read", "return"} => id[c] \in Ids

TypeInv == TypeOK /\ IdInv

\* The queue of handlers keeps its type.
LEMMA InboxTypes ==
    ASSUME TypeOK
    PROVE  /\ \A h \in Handlers : Append(inbox, h) \in Seq(Handlers)
           /\ inbox # <<>> => Head(inbox) \in Handlers /\ Tail(inbox) \in Seq(Handlers)
           /\ \A i \in Ids : Reply(i) \in Handlers
           /\ \A x \in {"open", "fail", "close", "state", "update"} : Handler(x) \in Handlers
<1>1. inbox \in Seq(Handlers)
  BY DEF TypeOK
<1>2. (\A i \in Ids : Reply(i) \in Handlers)
      /\ \A x \in {"open", "fail", "close", "state", "update"} : Handler(x) \in Handlers
  BY DEF Reply, Handler, Handlers
<1>3. QED
  BY <1>1, <1>2

\* TypeInv is inductive.
LEMMA TypeInduction == TypeInv /\ [Next]_vars => TypeInv'
<1> SUFFICES ASSUME TypeInv, [Next]_vars
             PROVE  TypeInv'
  OBVIOUS
<1>1. ASSUME NEW c \in Callers, Enter(c) \/ Calling(c)
      PROVE  TypeInv'
  <2> USE DEF TypeInv, TypeOK, IdInv, Goes, client, caller, remote
  <2>1. CASE Enter(c)
    BY <2>1 DEF Enter
  <2>2. CASE Call(c)
    BY <2>2 DEF Call
  <2>3. CASE Connect(c)
    BY <2>3 DEF Connect
  <2>4. CASE Connected(c)
    BY <2>4 DEF Connected
  <2>5. CASE Prepare(c)
    BY <2>5 DEF Prepare
  <2>6. CASE Send(c)
    BY <2>6 DEF Send
  <2>7. CASE Wait(c)
    BY <2>7 DEF Wait
  <2>8. CASE Read(c)
    BY <2>8 DEF Read
  <2>9. CASE Return(c)
    BY <2>9 DEF Return
  <2>10. QED
    BY <1>1, <2>1, <2>2, <2>3, <2>4, <2>5, <2>6, <2>7, <2>8, <2>9 DEF Calling
<1>2. CASE Handle
  <2>1. Head(inbox) \in Handlers /\ inbox' \in Seq(Handlers)
    BY <1>2, InboxTypes DEF Handle, TypeInv
  <2>2. m_response' \in Ids \union {NoId}
    BY <1>2, <2>1 DEF Handle, TypeInv, TypeOK, Handlers
  <2>3. QED
    BY <1>2, <2>1, <2>2 DEF Handle, TypeInv, TypeOK, IdInv, caller
<1>3. CASE TakeLock \/ ReleaseLock
  BY <1>3 DEF TakeLock, ReleaseLock, TypeInv, TypeOK, IdInv, client, caller, remote
<1>4. ASSUME NEW n \in Connections, Opens(n) \/ Closes(n)
      PROVE  TypeInv'
  BY <1>4, InboxTypes DEF Opens, Closes, TypeInv, TypeOK, IdInv, local, client, caller
<1>5. ASSUME NEW i \in Ids, Answers(i)
      PROVE  TypeInv'
  BY <1>5, InboxTypes DEF Answers, TypeInv, TypeOK, IdInv, local, client, caller
<1>6. CASE Notifies
  BY <1>6, InboxTypes DEF Notifies, TypeInv, TypeOK, IdInv, local, client, caller
<1>7. CASE UNCHANGED vars
  BY <1>7 DEF TypeInv, TypeOK, IdInv, vars, client, caller, remote
<1>8. QED
  BY <1>1, <1>2, <1>3, <1>4, <1>5, <1>6, <1>7 DEF Next, Loop

(* The variables keep their types, for any callers and any server. *)
THEOREM WebSocketTypes == Spec => []TypeOK
<1>1. Init => TypeInv
  <2> SUFFICES ASSUME Init PROVE TypeInv
    OBVIOUS
  <2>1. inbox \in Seq(Handlers)
    BY DEF Init
  <2>2. /\ pc \in [Callers -> {"idle", "call", "connect", "connecting", "prepare", "send",
                              "wait", "read", "return"}]
        /\ id \in [Callers -> Ids \union {NoId}]
        /\ result \in [Callers -> Ids \union {NoId}]
        /\ connections \in [Connections -> {"none", "opening", "open", "closed"}]
    BY DEF Init
  <2>3. QED
    BY <2>1, <2>2 DEF Init, TypeInv, TypeOK, IdInv
<1>2. TypeInv => TypeOK
  BY DEF TypeInv
<1>3. QED
  BY <1>1, <1>2, TypeInduction, PTL DEF Spec

-----------------------------------------------------------------------------
(* One thread, and a server that keeps the connection. *)

\* A handler joins the end of the queue.
Appended(h) ==
    /\ Len(inbox') = Len(inbox) + 1 /\ Len(inbox) \in Nat
    /\ inbox'[Len(inbox')] = h
    /\ \A k \in 1 .. Len(inbox) : inbox'[k] = inbox[k]

LEMMA AppendedHandler ==
    ASSUME TypeOK, NEW h, inbox' = Append(inbox, h)
    PROVE  Appended(h)
BY DEF TypeOK, Appended

\* The handlers before it are those of the queue it joined.
LEMMA EarlierHandlers ==
    ASSUME NEW h, Appended(h), NEW l \in 1 .. Len(inbox'), l # Len(inbox')
    PROVE  l \in 1 .. Len(inbox) /\ inbox'[l] = inbox[l]
BY DEF Appended

\* CallInv is inductive.
LEMMA CallInduction ==
    ASSUME NEW t, Alone(t)
    PROVE  TypeOK /\ CallInv(t) /\ [Next]_vars => CallInv(t)'
<1> SUFFICES ASSUME TypeOK, CallInv(t), [Next]_vars, ~dropped'
             PROVE  CallInv(t)'
  BY Zenon DEF CallInv
<1>0. ~dropped
  BY DEF Next, Calling, Loop, Enter, Call, Connect, Connected, Prepare, Send, Wait, Read,
         Return, Handle, TakeLock, ReleaseLock, Opens, Closes, Answers, Notifies, vars, remote
<1> USE <1>0, NoIdAssumption DEF Alone, CallInv, TypeOK, RestInv, ConnectingInv, WaitInv,
        ReturnInv, NoSignal, OneSignal, NoneOpening, Signals, Signalling
<1>1. ASSUME Enter(t) \/ Calling(t)
      PROVE  CallInv(t)'
  <2> USE DEF Goes, client, caller, remote
  <2>1. CASE Enter(t)
    BY <2>1 DEF Enter
  <2>2. CASE Call(t)
    BY <2>2 DEF Call
  <2>3. CASE Connect(t)
    BY <2>3 DEF Connect
  <2>4. CASE Connected(t)
    BY <2>4 DEF Connected
  <2>5. CASE Prepare(t)
    BY <2>5 DEF Prepare
  <2>6. CASE Send(t)
    BY <2>6 DEF Send
  <2>7. CASE Wait(t)
    BY <2>7 DEF Wait
  <2>8. CASE Read(t)
    BY <2>8 DEF Read
  <2>9. CASE Return(t)
    BY <2>9 DEF Return
  <2>10. QED
    BY <1>1, <2>1, <2>2, <2>3, <2>4, <2>5, <2>6, <2>7, <2>8, <2>9 DEF Calling
<1>2. CASE Handle
  <2>1. /\ Len(inbox) > 0 /\ Len(inbox') = Len(inbox) - 1
        /\ Head(inbox) = inbox[1]
        /\ \A k \in 1 .. Len(inbox') : inbox'[k] = inbox[k + 1]
    BY <1>2 DEF Handle
  <2>2. UNCHANGED <<pc, id, result, m_hdl, connections, requests>>
    BY <1>2 DEF Handle, caller
  <2>3. CASE Signals(Head(inbox))
    BY <1>2, <2>1, <2>2, <2>3 DEF Handle, Reply
  <2>4. CASE ~Signals(Head(inbox))
    <3>1. UNCHANGED <<event, m_response>>
      BY <1>2, <2>4 DEF Handle
    <3>2. NoSignal => NoSignal'
      BY <2>1
    <3>3. \A k \in 1 .. Len(inbox) : Signals(inbox[k]) /\ OneSignal(k) =>
             /\ k - 1 \in 1 .. Len(inbox') /\ inbox'[k - 1] = inbox[k]
             /\ \A l \in 1 .. Len(inbox') : Signals(inbox'[l]) => l = k - 1
      BY <2>1, <2>4
    <3>4. \A k \in 1 .. Len(inbox) : ~Signals(inbox[k]) /\ OneSignal(k) => NoSignal
      OBVIOUS
    <3>5. RestInv(t)' /\ ReturnInv(t)'
      BY <2>2, <3>1, <3>2
    <3>6. ConnectingInv(t)'
      BY <2>2, <3>1, <3>2, <3>3, <3>4
    <3>7. WaitInv(t)'
      <4>1. \A k \in 1 .. Len(inbox) : inbox[k] = Reply(id[t]) => Signals(inbox[k])
        BY DEF Reply
      <4>2. QED
        BY <2>2, <3>1, <3>2, <3>3, <4>1
    <3>8. QED
      BY <3>5, <3>6, <3>7
  <2>5. QED
    BY <2>3, <2>4
<1>3. CASE TakeLock \/ ReleaseLock
  BY <1>3 DEF TakeLock, ReleaseLock, client, caller, remote
<1>4. ASSUME NEW n \in Connections, Opens(n)
      PROVE  CallInv(t)'
  <2>1. PICK h \in {Handler("open"), Handler("fail")} : inbox' = Append(inbox, h)
    BY <1>4 DEF Opens
  <2>2. Signals(h) /\ Appended(h)
    BY <2>1, AppendedHandler DEF Handler
  <2>3. n = m_hdl /\ pc[t] = "connecting" /\ event = "empty" /\ NoSignal
    BY <1>4 DEF Opens
  <2>4. UNCHANGED <<pc, id, result, m_hdl, m_response, event, requests>>
    BY <1>4 DEF Opens, local, client, caller
  <2>5. NoneOpening'
    BY <1>4, <2>3 DEF Opens
  <2>6. /\ Len(inbox') \in 1 .. Len(inbox')
        /\ \A l \in 1 .. Len(inbox') : Signals(inbox'[l]) => l = Len(inbox')
    BY <2>2, <2>3 DEF Appended
  <2>7. QED
    BY <2>3, <2>4, <2>5, <2>6
<1>5. ASSUME NEW n \in Connections, Closes(n)
      PROVE  CallInv(t)'
  BY <1>5 DEF Closes
<1>6. ASSUME NEW i \in Ids, Answers(i)
      PROVE  CallInv(t)'
  <2>1. Signals(Reply(i)) /\ Appended(Reply(i))
    BY <1>6, AppendedHandler DEF Reply, Answers
  <2>2. pc[t] = "wait" /\ event = "empty" /\ NoSignal /\ requests = {id[t]} /\ i = id[t]
    BY <1>6 DEF Answers
  <2>3. UNCHANGED <<pc, id, result, m_hdl, m_response, event, connections>> /\ requests' = {}
    BY <1>6, <2>2 DEF Answers, local, client, caller
  <2>4. /\ Len(inbox') \in 1 .. Len(inbox') /\ inbox'[Len(inbox')] = Reply(id[t])
        /\ \A l \in 1 .. Len(inbox') : Signals(inbox'[l]) => l = Len(inbox')
    BY <2>1, <2>2 DEF Appended
  <2>5. QED
    BY <2>2, <2>3, <2>4 DEF Reply
<1>7. CASE Notifies
  <2>1. PICK h \in {Handler("update"), Handler("state")} : inbox' = Append(inbox, h)
    BY <1>7 DEF Notifies
  <2>2. ~Signals(h) /\ Appended(h)
    BY <2>1, AppendedHandler DEF Handler
  <2>3. UNCHANGED <<pc, id, result, m_hdl, m_response, event, connections, requests>>
    BY <1>7 DEF Notifies, local, client, caller
  <2>4. NoSignal => NoSignal'
    BY <2>2 DEF Appended
  <2>5. \A k \in 1 .. Len(inbox) :
           /\ k \in 1 .. Len(inbox') /\ inbox'[k] = inbox[k]
           /\ OneSignal(k) => OneSignal(k)'
    <3> TAKE k \in 1 .. Len(inbox)
    <3>1. k \in 1 .. Len(inbox') /\ inbox'[k] = inbox[k]
      BY <2>2 DEF Appended
    <3>2. ASSUME OneSignal(k), NEW l \in 1 .. Len(inbox'), Signals(inbox'[l])
          PROVE  l = k
      <4> HIDE DEF CallInv, TypeOK, RestInv, ConnectingInv, WaitInv, ReturnInv
      <4>1. l # Len(inbox')
        BY <2>2, <3>2 DEF Appended
      <4>2. l \in 1 .. Len(inbox) /\ inbox'[l] = inbox[l]
        BY <2>2, <4>1, EarlierHandlers
      <4>3. QED
        BY <3>2, <4>2
    <3>3. QED
      BY <3>1, <3>2
  <2>6. RestInv(t)' /\ ReturnInv(t)'
    BY <2>3, <2>4
  <2>7. ConnectingInv(t)'
    <3>1. CASE NoSignal
      BY <2>3, <2>4, <3>1
    <3>2. CASE \E k \in 1 .. Len(inbox) : OneSignal(k)
      <4>1. \E k \in 1 .. Len(inbox') : OneSignal(k)'
        BY <2>5, <3>2
      <4>2. QED
        BY <2>3, <2>4, <4>1
    <3>3. QED
      BY <2>3, <3>1, <3>2
  <2>8. WaitInv(t)'
    BY <2>3, <2>4, <2>5
  <2>9. QED
    BY <2>6, <2>7, <2>8
<1>8. CASE UNCHANGED vars
  BY <1>8 DEF vars, client, caller, remote
<1>9. QED
  BY <1>1, <1>2, <1>3, <1>4, <1>5, <1>6, <1>7, <1>8 DEF Next, Loop

\* The invariant of one thread's calls, and what it says when a call returns.
LEMMA CallsInvariant ==
    ASSUME NEW t, Alone(t)
    PROVE  Spec => [](TypeOK /\ CallInv(t))
<1>1. Init => CallInv(t)
  BY DEF Init, Alone, CallInv, RestInv, ConnectingInv, WaitInv, ReturnInv, NoSignal,
         NoneOpening
<1>2. TypeOK /\ CallInv(t) /\ [Next]_vars => CallInv(t)'
  BY CallInduction
<1>3. Spec => []TypeOK
  BY WebSocketTypes
<1>4. QED
  BY <1>1, <1>2, <1>3, PTL DEF Spec

(* A call never returns the reply to another request: the thread has left  *)
(* its wait for one signal, and the reply to its own request gave it.      *)
THEOREM RepliesAreOwn ==
    ASSUME NEW t, Alone(t)
    PROVE  Spec => []OwnReply
<1>1. CallInv(t) => OwnReply
  BY DEF CallInv, ReturnInv, OwnReply, Alone
<1>2. QED
  BY <1>1, CallsInvariant, PTL

(* A call that found the connection open returns with a reply. *)
THEOREM OpenConnectionAnswers ==
    ASSUME NEW t, Alone(t)
    PROVE  Spec => []AnsweredWhenConnected
<1>1. CallInv(t) => AnsweredWhenConnected
  BY DEF CallInv, ReturnInv, AnsweredWhenConnected, Alone
<1>2. QED
  BY <1>1, CallsInvariant, PTL

(* The connection is open, or has failed, before the request goes out. *)
THEOREM ConnectionAwaited ==
    ASSUME NEW t, Alone(t)
    PROVE  Spec => []FirstConnectWaits
<1>1. TypeOK /\ CallInv(t) => FirstConnectWaits
  BY DEF TypeOK, CallInv, RestInv, NoneOpening, FirstConnectWaits, ConnectWaits, Alone
<1>2. QED
  BY <1>1, CallsInvariant, PTL
-----------------------------------------------------------------------------
(* The wait has no timeout: one thread is always owed its signal, whatever *)
(* the server and the network do to its connections.                       *)

\* A signal that is there, or waits to be given.
SignalComes == event = "full" \/ \E k \in DOMAIN inbox : Signals(inbox[k])

LEMMA SignalJoins ==
    ASSUME TypeOK, NEW h, inbox' = Append(inbox, h), UNCHANGED event
    PROVE  /\ SignalComes => SignalComes'
           /\ Signals(h) => SignalComes'
<1>1. Appended(h)
  BY AppendedHandler
<1>2. DOMAIN inbox = 1 .. Len(inbox) /\ DOMAIN inbox' = 1 .. Len(inbox')
  BY DEF TypeOK
<1>3. QED
  BY <1>1, <1>2 DEF Appended, SignalComes

LEMMA SignalHandled ==
    ASSUME TypeOK, Handle, SignalComes
    PROVE  SignalComes'
<1>1. /\ DOMAIN inbox = 1 .. Len(inbox) /\ DOMAIN inbox' = 1 .. Len(inbox')
      /\ Len(inbox') = Len(inbox) - 1 /\ Len(inbox) \in Nat \ {0}
      /\ Head(inbox) = inbox[1]
      /\ \A k \in 1 .. Len(inbox') : inbox'[k] = inbox[k + 1]
  BY DEF TypeOK, Handle
<1>2. CASE event = "full" \/ Signals(Head(inbox))
  BY <1>2 DEF Handle, SignalComes, Signals
<1>3. CASE \E k \in 2 .. Len(inbox) : Signals(inbox[k])
  <2>1. PICK k \in 2 .. Len(inbox) : Signals(inbox[k])
    BY <1>3
  <2>2. k - 1 \in 1 .. Len(inbox') /\ inbox'[k - 1] = inbox[k]
    BY <1>1
  <2>3. QED
    BY <1>1, <2>1, <2>2 DEF SignalComes
<1>4. QED
  BY <1>1, <1>2, <1>3 DEF SignalComes

\* SignalOwed is inductive.
LEMMA SignalInduction ==
    ASSUME NEW t, Alone(t)
    PROVE  TypeOK /\ SignalOwed /\ [Next]_vars => SignalOwed'
<1> SUFFICES ASSUME TypeOK, SignalOwed, [Next]_vars, pc'[t] \in {"connecting", "wait"},
                    ~SignalComes'
             PROVE  \/ /\ pc'[t] = "connecting" /\ m_hdl' # NoConnection
                       /\ connections'[m_hdl'] = "opening"
                    \/ pc'[t] = "wait" /\ id'[t] \in requests'
  BY DEF Alone, SignalOwed, SignalComes, Signals
<1>0. pc[t] \in {"connecting", "wait"} =>
         \/ SignalComes
         \/ pc[t] = "connecting" /\ m_hdl # NoConnection /\ connections[m_hdl] = "opening"
         \/ pc[t] = "wait" /\ id[t] \in requests
  BY DEF Alone, SignalOwed, SignalComes, Signals
<1>1. ASSUME Enter(t) \/ Calling(t)
      PROVE  \/ /\ pc'[t] = "connecting" /\ m_hdl' # NoConnection
                /\ connections'[m_hdl'] = "opening"
             \/ pc'[t] = "wait" /\ id'[t] \in requests'
  <2>1. Connect(t) \/ Send(t)
    BY <1>1 DEF TypeOK, Alone, Calling, Enter, Call, Connected, Prepare, Wait, Read, Return, Goes
  <2>2. CASE Connect(t)
    BY <2>2, NoIdAssumption DEF TypeOK, Alone, Connect, Goes
  <2>3. CASE Send(t)
    BY <2>3 DEF TypeOK, Alone, Send, Goes
  <2>4. QED
    BY <2>1, <2>2, <2>3
<1>2. CASE Handle
  BY <1>0, <1>2, SignalHandled DEF Handle, caller
<1>3. CASE TakeLock \/ ReleaseLock
  BY <1>0, <1>3 DEF TakeLock, ReleaseLock, client, caller, remote, SignalComes
<1>4. ASSUME NEW n \in Connections, Opens(n)
      PROVE  FALSE
  <2>1. PICK h \in {Handler("open"), Handler("fail")} : inbox' = Append(inbox, h)
    BY <1>4 DEF Opens
  <2>2. Signals(h) /\ event' = event
    BY <1>4 DEF Opens, local, client, Signals, Signalling, Handler
  <2>3. QED
    BY <2>1, <2>2, SignalJoins
<1>5. ASSUME NEW n \in Connections, Closes(n)
      PROVE  FALSE
  <2>1. Signals(Handler("close")) /\ event' = event /\ inbox' = Append(inbox, Handler("close"))
    BY <1>5 DEF Closes, local, client, Signals, Signalling, Handler
  <2>2. QED
    BY <2>1, SignalJoins
<1>6. ASSUME NEW i \in Ids, Answers(i)
      PROVE  FALSE
  <2>1. Signals(Reply(i)) /\ event' = event /\ inbox' = Append(inbox, Reply(i))
    BY <1>6 DEF Answers, local, client, Signals, Signalling, Reply
  <2>2. QED
    BY <2>1, SignalJoins
<1>7. CASE Notifies
  <2>1. PICK h : inbox' = Append(inbox, h)
    BY <1>7 DEF Notifies
  <2>2. UNCHANGED <<event, pc, id, m_hdl, connections, requests>>
    BY <1>7 DEF Notifies, local, client, caller
  <2>3. QED
    BY <1>0, <2>1, <2>2, SignalJoins
<1>8. CASE UNCHANGED vars
  BY <1>0, <1>8 DEF vars, client, caller, remote, SignalComes
<1>9. QED
  BY <1>1, <1>2, <1>3, <1>4, <1>5, <1>6, <1>7, <1>8 DEF Next, Loop, Alone

(* Whoever waits for a reply or for the connection is owed the signal that *)
(* ends the wait, for one thread and any server, that may close its        *)
(* connections whenever it likes.                                          *)
THEOREM SignalNeverMissing ==
    ASSUME NEW t, Alone(t)
    PROVE  Spec => []SignalOwed
<1>1. Init => SignalOwed
  BY DEF Init, SignalOwed
<1>2. TypeOK /\ SignalOwed /\ [Next]_vars => SignalOwed'
  BY SignalInduction
<1>3. QED
  BY <1>1, <1>2, WebSocketTypes, PTL DEF Spec

-----------------------------------------------------------------------------
(* The deadlock takes a callback that needs the driver lock.               *)

Unlocked ==
    /\ loop = "idle"
    /\ \A k \in 1 .. Len(inbox) : inbox[k].type # "update"

LEMMA UnlockedStep ==
    ASSUME ~Updates, TypeOK, Unlocked, [Next]_vars
    PROVE  Unlocked'
<1>1. ASSUME NEW h, h.type # "update", inbox' = Append(inbox, h), loop' = loop
      PROVE  Unlocked'
  <2>1. Appended(h)
    BY <1>1, AppendedHandler
  <2>2. QED
    BY <1>1, <2>1 DEF Appended, Unlocked
<1>2. CASE Handle
  <2>1. /\ Len(inbox) > 0 /\ Len(inbox') = Len(inbox) - 1 /\ Head(inbox) = inbox[1]
        /\ \A k \in 1 .. Len(inbox') : inbox'[k] = inbox[k + 1]
    BY <1>2 DEF Handle, TypeOK
  <2>2. QED
    BY <1>2, <2>1 DEF Handle, Unlocked, TypeOK
<1>3. CASE TakeLock \/ ReleaseLock
  BY <1>3 DEF TakeLock, ReleaseLock, Unlocked
<1>4. ASSUME NEW n \in Connections, Opens(n) \/ Closes(n)
      PROVE  Unlocked'
  BY <1>1, <1>4 DEF Opens, Closes, local, Handler
<1>5. ASSUME NEW i \in Ids, Answers(i)
      PROVE  Unlocked'
  BY <1>1, <1>5 DEF Answers, local, Reply
<1>6. CASE Notifies
  BY <1>1, <1>6 DEF Notifies, local, Handler
<1>7. ASSUME NEW c \in Callers, Enter(c) \/ Calling(c)
      PROVE  Unlocked'
  BY <1>7 DEF Calling, Enter, Call, Connect, Connected, Prepare, Send, Wait, Read, Return,
              remote, Unlocked
<1>8. CASE UNCHANGED vars
  BY <1>8 DEF vars, remote, Unlocked
<1>9. QED
  BY <1>2, <1>3, <1>4, <1>5, <1>6, <1>7, <1>8 DEF Next, Loop

(* A server that sends no SpectrumUpdate deadlocks nobody, for any number  *)
(* of callers that hold the driver lock across their calls: the lock that  *)
(* the callback takes is what closes the circle.                           *)
THEOREM DeadlockNeedsUpdates ==
    ASSUME ~Updates
    PROVE  Spec => []NoDeadlock
<1>1. Init => Unlocked
  BY DEF Init, Unlocked
<1>2. TypeOK /\ Unlocked /\ [Next]_vars => Unlocked'
  BY UnlockedStep
<1>3. Unlocked => NoDeadlock
  BY DEF Unlocked, NoDeadlock
<1>4. QED
  BY <1>1, <1>2, <1>3, WebSocketTypes, PTL DEF Spec
=============================================================================
