-------------------------- MODULE HttpClientProofs --------------------------
(***************************************************************************)
(* Theorems about the HTTP client: its types for any callers, and for one  *)
(* caller, any number of sockets, descriptors and requests, and a server   *)
(* that does what it likes, that a request gets its own reply or fails,    *)
(* that a connection kept has nothing under way, that no descriptor leaks, *)
(* that a retry makes a closed connection good, and that nobody reads what *)
(* nobody will send; then how often the server executes a request, and     *)
(* that a call is a call of RemoteCall.                                    *)
(***************************************************************************)
EXTENDS RequestExecution, SequenceTheorems, TLAPS

-----------------------------------------------------------------------------
(* Types.                                                                      *)

Streams == [state : {"unused", "open", "ended"}, requests : Seq(Ids),
            serving : Ids \union {NoId}, replies : Seq(Parts)]

\* A caller in doRequest has a request.
Types ==
    /\ TypeOK
    /\ \A c \in Callers : pc[c] # "idle" => id[c] \in Ids

LEMMA PartsOf ==
    ASSUME NEW i \in Ids, NEW b \in BOOLEAN
    PROVE  Status(i, b) \in Parts /\ Rest(i, b) \in Parts
  BY DEF Parts

LEMMA PartTypes ==
    ASSUME NEW p \in Parts
    PROVE  p.id \in Ids
  BY DEF Parts, Status, Rest

LEMMA TypesInit == Init => Types
  BY NumSocketsAssumption, MaxRetriesAssumption DEF Init, Types, TypeOK, Sockets, Unused

\* Closing a connection, and reading from one that has something to read.
LEMMA StreamTypes ==
    ASSUME TypeOK, NEW c \in Callers
    PROVE  /\ Destroyed(c) \in [Fds -> Streams]
           /\ Replies(c) # <<>> =>
                /\ Fd(c) \in Fds
                /\ Head(Replies(c)) \in Parts
                /\ [stream EXCEPT ![Fd(c)].replies = Tail(@)] \in [Fds -> Streams]
  <1>1. Destroyed(c) \in [Fds -> Streams]
    BY DEF TypeOK, Destroyed, Unused, Streams
  <1>2. ASSUME Replies(c) # <<>>
        PROVE  /\ Fd(c) \in Fds
               /\ Head(Replies(c)) \in Parts
               /\ [stream EXCEPT ![Fd(c)].replies = Tail(@)] \in [Fds -> Streams]
    <2>1. Fd(c) \in Fds /\ Replies(c) = stream[Fd(c)].replies
      BY <1>2 DEF Replies
    <2>2. stream[Fd(c)].replies \in Seq(Parts) /\ stream[Fd(c)].replies # <<>>
      BY <1>2, <2>1 DEF TypeOK
    <2>3. Tail(stream[Fd(c)].replies) \in Seq(Parts) /\ Head(stream[Fd(c)].replies) \in Parts
      BY <2>2
    <2> QED  BY <2>1, <2>3 DEF TypeOK, Streams
  <1> QED  BY <1>1, <1>2

Records == [fd : Fds \union {INVALID_SOCKET}, locked : BOOLEAN, closed : BOOLEAN]

LEMMA SocketTypes ==
    ASSUME TypeOK, NEW k \in Sockets
    PROVE  /\ \A f \in Fds \union {INVALID_SOCKET} :
                [mSockets EXCEPT ![k].fd = f] \in [Sockets -> Records]
           /\ \A b \in BOOLEAN : /\ [mSockets EXCEPT ![k].locked = b] \in [Sockets -> Records]
                                 /\ [mSockets EXCEPT ![k].closed = b] \in [Sockets -> Records]
  <1>1. mSockets \in [Sockets -> Records]
    BY DEF TypeOK, Records
  <1>2. \A r \in Records : /\ \A f \in Fds \union {INVALID_SOCKET} : [r EXCEPT !.fd = f] \in Records
                           /\ \A b \in BOOLEAN : /\ [r EXCEPT !.locked = b] \in Records
                                                 /\ [r EXCEPT !.closed = b] \in Records
    BY DEF Records
  <1> QED  BY <1>1, <1>2

\* What a step writes of one connection.
LEMMA LinkTypes ==
    ASSUME stream \in [Fds -> Streams], NEW f \in Fds
    PROVE  /\ \A q \in Seq(Ids) : [stream EXCEPT ![f].requests = q] \in [Fds -> Streams]
           /\ \A i \in Ids \union {NoId}, p \in Seq(Parts) :
                [stream EXCEPT ![f].serving = i, ![f].replies = p] \in [Fds -> Streams]
           /\ \A q \in Seq(Ids), i \in Ids \union {NoId}, p \in Seq(Parts) :
                [stream EXCEPT ![f].requests = q, ![f].serving = i, ![f].replies = p]
                  \in [Fds -> Streams]
  <1>1. \A r \in Streams :
           /\ \A q \in Seq(Ids) : [r EXCEPT !.requests = q] \in Streams
           /\ \A i \in Ids \union {NoId} : [r EXCEPT !.serving = i] \in Streams
           /\ \A p \in Seq(Parts) : [r EXCEPT !.replies = p] \in Streams
    BY DEF Streams
  <1>2. \A r \in Streams : [stream EXCEPT ![f] = r] \in [Fds -> Streams]
    OBVIOUS
  <1>3. stream[f] \in Streams
    OBVIOUS
  <1>4. \A q \in Seq(Ids) : [stream EXCEPT ![f].requests = q] \in [Fds -> Streams]
    BY <1>1, <1>3
  <1>5. \A i \in Ids \union {NoId}, p \in Seq(Parts) :
           [stream EXCEPT ![f].serving = i, ![f].replies = p] \in [Fds -> Streams]
    BY <1>1, <1>3
  <1>6. \A q \in Seq(Ids), i \in Ids \union {NoId}, p \in Seq(Parts) :
           [stream EXCEPT ![f].requests = q, ![f].serving = i, ![f].replies = p]
             \in [Fds -> Streams]
    BY <1>1, <1>3
  <1> QED  BY <1>4, <1>5, <1>6

LEMMA RetryTypes ==
    ASSUME TypeOK, NEW c \in Callers, CloseAndRetry(c)
    PROVE  /\ stream' \in [Fds -> Streams]
           /\ mSockets' \in [Sockets -> [fd : Fds \union {INVALID_SOCKET},
                                         locked : BOOLEAN, closed : BOOLEAN]]
           /\ pc' \in [Callers -> {"idle", "pick", "unlock", "connect", "connecting", "write",
                                   "select", "status", "rest", "return"}]
           /\ retries' \in [Callers -> 0 .. MaxRetries]
           /\ ok' \in [Callers -> BOOLEAN]
  <1>1. s[c] \in Sockets /\ retries[c] \in 0 .. MaxRetries /\ MaxRetries \in Nat
    BY MaxRetriesAssumption DEF TypeOK
  <1>2. stream' \in [Fds -> Streams] /\ mSockets' \in [Sockets -> Records]
    BY <1>1, StreamTypes, SocketTypes DEF CloseAndRetry, Close
  <1>3. CASE retries[c] < MaxRetries
    <2>1. retries[c] + 1 \in 0 .. MaxRetries
      BY <1>1, <1>3
    <2> QED  BY <1>1, <1>2, <1>3, <2>1 DEF TypeOK, CloseAndRetry, Goes, Records
  <1>4. CASE ~(retries[c] < MaxRetries)
    BY <1>1, <1>2, <1>4 DEF TypeOK, CloseAndRetry, Goes, Returns, Records
  <1> QED  BY <1>3, <1>4

LEMMA CallTypes ==
    ASSUME Types, NEW c \in Callers, Request(c) \/ Calling(c)
    PROVE  TypeOK'
  <1> USE NumSocketsAssumption, MaxRetriesAssumption DEF Types
  <1>1. CASE Request(c)
    BY <1>1 DEF TypeOK, Request, Goes, Sockets
  <1>0. /\ s \in [Callers -> Sockets] /\ s[c] \in 1 .. NumSockets
        /\ mSockets \in [Sockets -> Records] /\ stream \in [Fds -> Streams]
    BY DEF TypeOK, Records, Streams, Sockets
  <1>2. CASE Pick(c)
    <2>1. mSockets' \in [Sockets -> Records]
      BY <1>0, <1>2, SocketTypes DEF Pick, Sockets
    <2>2. s' \in [Callers -> Sockets]
      <3>1. CASE s[c] < NumSockets /\ s' = [s EXCEPT ![c] = @ + 1]
        <4>1. s[c] + 1 \in Sockets
          BY <1>0, <3>1 DEF Sockets
        <4> QED  BY <1>0, <3>1, <4>1
      <3> QED  BY <1>0, <1>2, <3>1 DEF Pick
    <2> QED  BY <1>2, <2>1, <2>2 DEF TypeOK, Pick, Goes, Returns, Disturb, Records
  <1>3. CASE Unlock(c)
    BY <1>3 DEF TypeOK, Unlock, Goes
  <1>4. CASE Connect(c)
    <2>1. CASE UNCHANGED <<mSockets, stream>> /\ Goes(c, "write")
      BY <1>4, <2>1 DEF TypeOK, Connect, Goes
    <2>2. ASSUME NEW f \in Fds, mSockets' = [mSockets EXCEPT ![s[c]].fd = f],
                 stream' = [stream EXCEPT ![f].state = "open"], Goes(c, "connecting")
          PROVE  TypeOK'
      <3>1. mSockets' \in [Sockets -> Records]
        BY <1>0, <2>2, SocketTypes
      <3>2. stream' \in [Fds -> Streams]
        BY <2>2 DEF TypeOK, Streams
      <3> QED  BY <1>4, <2>2, <3>1, <3>2 DEF TypeOK, Connect, Goes, Streams, Records
    <2> QED  BY <1>4, <2>1, <2>2 DEF Connect
  <1>5. CASE Connected(c)
    <2>0. s[c] \in Sockets
      BY <1>0 DEF Sockets
    <2>1. mSockets' \in [Sockets -> Records]
      <3>1. CASE mSockets' = [mSockets EXCEPT ![s[c]].closed = FALSE]
        BY <1>0, <2>0, <3>1 DEF Records
      <3>2. CASE mSockets' = [mSockets EXCEPT ![s[c]].fd = INVALID_SOCKET]
        BY <1>0, <2>0, <3>2 DEF Records
      <3> QED  BY <1>5, <3>1, <3>2 DEF Connected
    <2>2. stream' \in [Fds -> Streams]
      <3>1. CASE stream' = stream
        BY <1>0, <3>1
      <3>2. CASE stream' = Destroyed(c)
        BY <3>2, StreamTypes
      <3> QED  BY <1>5, <3>1, <3>2 DEF Connected
    <2> QED  BY <1>5, <2>1, <2>2 DEF TypeOK, Connected, Goes, Returns, Disturb, Streams, Records
  <1>7. CASE Write(c)
    <2>1. CASE /\ StateOf(c) = "open"
               /\ stream' = [stream EXCEPT ![Fd(c)].requests = Append(@, id[c])]
               /\ Goes(c, "select")
               /\ UNCHANGED <<mSockets, retries, ok>>
      <3>1. Fd(c) \in Fds
        BY <2>1 DEF StateOf
      <3>2. id[c] \in Ids /\ stream[Fd(c)].requests \in Seq(Ids)
        BY <1>7, <3>1 DEF Write, TypeOK
      <3>3. Append(stream[Fd(c)].requests, id[c]) \in Seq(Ids)
        BY <3>2
      <3>4. stream' \in [Fds -> Streams]
        BY <1>0, <2>1, <3>1, <3>3, LinkTypes
      <3> QED  BY <1>7, <2>1, <3>4 DEF TypeOK, Write, Goes, Streams
    <2>2. CASE Goes(c, "select") /\ UNCHANGED <<mSockets, retries, ok, stream>>
      BY <1>7, <2>2 DEF TypeOK, Write, Goes
    <2>3. CASE CloseAndRetry(c)
      BY <1>7, <2>3, RetryTypes DEF TypeOK, Write, Streams
    <2> QED  BY <1>7, <2>1, <2>2, <2>3 DEF Write
  <1>8. CASE Select(c)
    <2>1. mSockets' \in [Sockets -> Records]
      BY <1>0, <1>8, SocketTypes DEF Select, Close, Sockets
    <2>2. stream' \in [Fds -> Streams]
      BY <1>0, <1>8, StreamTypes DEF Select, Close
    <2> QED  BY <1>8, <2>1, <2>2 DEF TypeOK, Select, Goes, Returns, Disturb, Streams, Records
  <1>9. CASE ReadStatus(c)
    <2>1. CASE Replies(c) # <<>> /\ Received(c) /\ UNCHANGED <<mSockets, retries>>
      BY <1>9, <2>1, StreamTypes DEF TypeOK, ReadStatus, Goes, Received, Streams, CloseAndRetry
    <2>2. CASE CloseAndRetry(c)
      BY <1>9, <2>2, RetryTypes DEF TypeOK, ReadStatus, Streams
    <2> QED  BY <1>9, <2>1, <2>2 DEF ReadStatus
  <1>10. CASE ReadRest(c)
    <2>1. mSockets' \in [Sockets -> Records]
      BY <1>0, <1>10, SocketTypes DEF ReadRest, Close, Sockets
    <2>2. stream' \in [Fds -> Streams]
      BY <1>10, StreamTypes DEF ReadRest, Received, Close
    <2>3. reply' \in [Callers -> Ids \union {NoId}]
      BY <1>10, StreamTypes, PartTypes DEF TypeOK, ReadRest
    <2>4. pc' \in [Callers -> {"idle", "pick", "unlock", "connect", "connecting", "write",
                              "select", "status", "rest", "return"}]
          /\ ok' \in [Callers -> BOOLEAN]
      BY <1>10 DEF TypeOK, ReadRest, Goes, Returns
    <2> QED  BY <1>10, <2>1, <2>2, <2>3, <2>4 DEF TypeOK, ReadRest, Streams, Records
  <1>11. CASE Return(c)
    BY <1>11 DEF TypeOK, Return, Goes
  <1> QED  BY <1>1, <1>2, <1>3, <1>4, <1>5, <1>7, <1>8, <1>9, <1>10, <1>11 DEF Calling

LEMMA ServerTypes ==
    ASSUME TypeOK, NEW f \in Fds, Begins(f) \/ Completes(f) \/ Ends(f)
    PROVE  TypeOK'
  <1>0. /\ stream \in [Fds -> Streams] /\ stream[f] \in Streams
        /\ stream[f].requests \in Seq(Ids) /\ stream[f].replies \in Seq(Parts)
    BY DEF TypeOK, Streams
  <1>1. CASE Begins(f)
    <2>1. PICK good \in BOOLEAN :
            stream' = [stream EXCEPT ![f].requests = Tail(@),
                                     ![f].serving = Head(stream[f].requests),
                                     ![f].replies = Append(@, Status(Head(stream[f].requests), good))]
      BY <1>1 DEF Begins
    <2>2. Head(stream[f].requests) \in Ids /\ Tail(stream[f].requests) \in Seq(Ids)
      <3>1. \A q \in Seq(Ids) : q # <<>> => Head(q) \in Ids /\ Tail(q) \in Seq(Ids)
        OBVIOUS
      <3>2. stream[f].requests # <<>>
        BY <1>1 DEF Begins
      <3> QED  BY <1>0, <3>1, <3>2
    <2>3. Append(stream[f].replies, Status(Head(stream[f].requests), good)) \in Seq(Parts)
      BY <1>0, <2>2, PartsOf
    <2>4. stream' \in [Fds -> Streams]
      BY <1>0, <2>1, <2>2, <2>3, LinkTypes
    <2> QED  BY <1>1, <2>4 DEF TypeOK, Begins, callers, Streams
  <1>2. CASE Completes(f)
    <2>1. PICK close \in BOOLEAN :
            stream' = [stream EXCEPT ![f].serving = NoId,
                                     ![f].replies = Append(@, Rest(stream[f].serving, close))]
      BY <1>2 DEF Completes
    <2>2. stream[f].serving \in Ids
      BY <1>2 DEF Completes, TypeOK
    <2>3. Append(stream[f].replies, Rest(stream[f].serving, close)) \in Seq(Parts)
      BY <1>0, <2>2, PartsOf
    <2>4. stream' \in [Fds -> Streams]
      BY <1>0, <2>1, <2>3, LinkTypes
    <2> QED  BY <1>2, <2>4 DEF TypeOK, Completes, callers, Streams
  <1>3. CASE Ends(f)
    <2>1. stream' \in [Fds -> Streams]
      <3>1. PICK kept \in {<<>>, stream[f].replies} :
              stream' = [stream EXCEPT ![f] = [state |-> "ended", requests |-> <<>>,
                                               serving |-> NoId, replies |-> kept]]
        BY <1>3 DEF Ends
      <3>2. kept \in Seq(Parts)
        <4>1. <<>> \in Seq(Parts)
          OBVIOUS
        <4> QED  BY <1>0, <3>1, <4>1
      <3> QED  BY <3>1, <3>2 DEF TypeOK, Streams
    <2>2. disturbed' \in [Callers -> BOOLEAN]
      BY <1>3, Zenon DEF TypeOK, Ends
    <2> QED  BY <1>3, <2>1, <2>2 DEF TypeOK, Ends, Streams
  <1> QED  BY <1>1, <1>2, <1>3

LEMMA TypesStep == Types /\ [Next]_vars => Types'
  <1> SUFFICES ASSUME Types, [Next]_vars  PROVE Types'
    OBVIOUS
  <1>1. CASE UNCHANGED vars
    BY <1>1 DEF Types, TypeOK, vars, callers
  <1>2. ASSUME NEW c \in Callers, Request(c) \/ Calling(c)
        PROVE  Types'
    <2>1. \A k \in Callers : pc'[k] # "idle" => id'[k] \in Ids
      BY <1>2 DEF Types, TypeOK, Request, Calling, Pick, Unlock, Connect, Connected, Write,
                  Select, ReadStatus, ReadRest, Return, Goes, Returns, CloseAndRetry
    <2> QED  BY <1>2, <2>1, CallTypes DEF Types
  <1>3. ASSUME NEW f \in Fds, Begins(f) \/ Completes(f) \/ Ends(f)
        PROVE  Types'
    BY <1>3, ServerTypes DEF Types, Begins, Completes, Ends, callers
  <1> QED  BY <1>1, <1>2, <1>3 DEF Next

\* Sockets, descriptors, and what is under way on them keep their types, whatever
\* callers and servers do.
THEOREM ClientTypes == Spec => []TypeOK
  <1>1. Types => TypeOK
    BY DEF Types
  <1> QED  BY <1>1, TypesInit, TypesStep, PTL DEF Spec

-----------------------------------------------------------------------------
(* One caller.  It always finds the first socket free, so that there is one    *)
(* connection at most, and what is under way on it is the exchange of one      *)
(* request: its place in the call says how far.                                *)
Alone == \E c : Callers = {c}

Link(state, requests, serving, replies) ==
    [state |-> state, requests |-> requests, serving |-> serving, replies |-> replies]

Quiet(state) == Link(state, <<>>, NoId, <<>>)

\* The connection in use, or the one that is kept; other sockets have none.
OnlySocket(c) ==
    /\ s[c] = 1
    /\ mSockets[1].locked <=> pc[c] = "unlock"
    /\ \A k \in Sockets : k # 1 => mSockets[k].closed /\ ~mSockets[k].locked

Live(c) == ~mSockets[1].closed \/ pc[c] = "connecting"

OnlyConnection(c) ==
    /\ pc[c] = "connecting" => mSockets[1].closed
    /\ pc[c] \in {"write", "select", "status", "rest"} => ~mSockets[1].closed
    /\ Live(c) => mSockets[1].fd \in Fds
    /\ \A f \in Fds : stream[f] = Unused <=> ~(Live(c) /\ f = mSockets[1].fd)

\* The status line of the reply to i is still to be read; the rest of it is.
BeforeStatus(x, i) ==
    \/ x = Link("open", <<i>>, NoId, <<>>)
    \/ \E good \in BOOLEAN : x = Link("open", <<>>, i, <<Status(i, good)>>)
    \/ \E state \in {"open", "ended"}, good, close \in BOOLEAN :
           x = Link(state, <<>>, NoId, <<Status(i, good), Rest(i, close)>>)
    \/ \E good \in BOOLEAN : x = Link("ended", <<>>, NoId, <<Status(i, good)>>)
    \/ x = Quiet("ended")

BeforeRest(x, i) ==
    \/ x = Link("open", <<>>, i, <<>>)
    \/ \E state \in {"open", "ended"}, close \in BOOLEAN :
           x = Link(state, <<>>, NoId, <<Rest(i, close)>>)
    \/ x = Quiet("ended")

Exchange(c) ==
    Live(c) =>
        LET x == stream[mSockets[1].fd]
        IN /\ pc[c] \in {"select", "status"} => BeforeStatus(x, id[c])
           /\ pc[c] = "status" => x # Link("open", <<id[c]>>, NoId, <<>>)
           /\ pc[c] = "rest" => BeforeRest(x, id[c])
           /\ pc[c] \notin {"select", "status", "rest"} => x \in {Quiet("open"), Quiet("ended")}

\* A connection that ends where a retry does not help disturbs the call.
Accounted(c) ==
    /\ Live(c) =>
         LET x == stream[mSockets[1].fd]
         IN x.state = "ended" =>
              /\ pc[c] \in {"select", "status"} /\ x.replies # <<>> => disturbed[c]
              /\ pc[c] = "rest" => disturbed[c]
              /\ MaxRetries # 0 /\ pc[c] # "idle" /\ retries[c] = MaxRetries => disturbed[c]
    /\ pc[c] = "return" /\ (ok[c] \/ (MaxRetries # 0 /\ ~disturbed[c])) => reply[c] = id[c]

ClientInv(c) == OnlySocket(c) /\ OnlyConnection(c) /\ Exchange(c) /\ Accounted(c)

LEMMA InvInit ==
    ASSUME NEW c, Callers = {c}, Init
    PROVE  ClientInv(c)
  BY NumSocketsAssumption, NoIdAssumption
     DEF Init, ClientInv, OnlySocket, OnlyConnection, Exchange, Accounted, Live, Sockets, Unused

\* Steps that leave the connection as it is.
LEMMA OffConnectionStep ==
    ASSUME Types, Types', NEW c, Callers = {c}, ClientInv(c),
           Request(c) \/ Pick(c) \/ Unlock(c) \/ Return(c)
    PROVE  ClientInv(c)'
  <1>0. /\ s[c] = 1 /\ 1 \in Sockets
        /\ pc[c] = "pick" => ~mSockets[1].locked
    BY NumSocketsAssumption DEF ClientInv, OnlySocket, Sockets, Types, TypeOK
  <1>a. UNCHANGED stream /\ s'[c] = 1
    BY <1>0 DEF Types, TypeOK, Request, Pick, Unlock, Return
  <1>b. \/ mSockets' = mSockets /\ (Request(c) \/ Return(c))
        \/ mSockets' = [mSockets EXCEPT ![1].locked = TRUE] /\ Pick(c) /\ pc'[c] = "unlock"
        \/ mSockets' = [mSockets EXCEPT ![1].locked = FALSE] /\ Unlock(c)
    BY <1>0 DEF Types, TypeOK, Request, Pick, Unlock, Return, Goes
  <1>1. /\ UNCHANGED stream /\ mSockets'[1].fd = mSockets[1].fd
        /\ mSockets'[1].closed = mSockets[1].closed
        /\ \A k \in Sockets : k # 1 => mSockets'[k] = mSockets[k]
        /\ s'[c] = 1
    BY <1>0, <1>a, <1>b DEF Types, TypeOK
  <1>2. /\ pc[c] \in {"idle", "pick", "unlock", "return"}
        /\ pc'[c] \in {"idle", "pick", "unlock", "connect"}
    BY DEF Types, TypeOK, ClientInv, OnlySocket, Request, Pick, Unlock, Return, Goes
  <1>3. OnlySocket(c)'
    <2>1. mSockets'[1].locked <=> pc'[c] = "unlock"
      <3>1. CASE Request(c) \/ Return(c)
        BY <1>0, <1>b, <3>1 DEF Types, TypeOK, ClientInv, OnlySocket, Request, Return, Goes, Pick, Unlock
      <3>2. CASE mSockets' = [mSockets EXCEPT ![1].locked = TRUE] /\ pc'[c] = "unlock"
        BY <1>0, <3>2 DEF Types, TypeOK
      <3>3. CASE mSockets' = [mSockets EXCEPT ![1].locked = FALSE] /\ Unlock(c)
        BY <1>0, <3>3 DEF Types, TypeOK, Unlock, Goes
      <3> QED  BY <1>b, <3>1, <3>2, <3>3
    <2>2. \A k \in Sockets : k # 1 => mSockets'[k].closed /\ ~mSockets'[k].locked
      BY <1>1 DEF ClientInv, OnlySocket
    <2> QED  BY <1>1, <2>1, <2>2 DEF OnlySocket
  <1>4. Live(c)' = Live(c)
    BY <1>1, <1>2 DEF Live
  <1>5. OnlyConnection(c)' /\ Exchange(c)'
    BY <1>1, <1>2, <1>4 DEF ClientInv, OnlyConnection, Exchange
  <1>6. Accounted(c)'
    BY <1>1, <1>2, <1>4
       DEF Types, TypeOK, ClientInv, OnlySocket, Accounted, Request, Pick, Unlock, Return, Goes
  <1> QED  BY <1>3, <1>5, <1>6 DEF ClientInv

\* A connection is closed, or none could be made, and the call goes on without.
LEMMA CloseStep ==
    ASSUME Types, Types', NEW c, Callers = {c}, ClientInv(c), Live(c),
           stream' = Destroyed(c), mSockets'[1].closed, ~mSockets'[1].locked,
           \A k \in Sockets : k # 1 => mSockets'[k] = mSockets[k],
           s' = s, id' = id, reply' = reply, pc[c] # "unlock",
           \/ pc'[c] = "connect"
           \/ pc'[c] = "return" /\ ~ok'[c] /\ (MaxRetries # 0 => disturbed'[c])
    PROVE  ClientInv(c)'
  <1>1. ~Live(c)'
    BY DEF Live
  <1>2. OnlySocket(c)'
    BY DEF Types, TypeOK, ClientInv, OnlySocket
  <1>3. \A f \in Fds : stream'[f] = Unused
    BY DEF ClientInv, OnlySocket, OnlyConnection, Destroyed, Uses, Fd
  <1>4. OnlyConnection(c)'
    BY <1>1, <1>3 DEF OnlyConnection
  <1>5. Exchange(c)' /\ Accounted(c)'
    BY <1>1 DEF Exchange, Accounted
  <1> QED  BY <1>2, <1>4, <1>5 DEF ClientInv

LEMMA RetryStep ==
    ASSUME Types, Types', NEW c, Callers = {c}, ClientInv(c), CloseAndRetry(c),
           pc[c] \in {"write", "status"}, stream[mSockets[1].fd].state = "ended",
           UNCHANGED <<id, s, reply, disturbed>>
    PROVE  ClientInv(c)'
  <1>1. Live(c) /\ s[c] = 1 /\ 1 \in Sockets
    BY NumSocketsAssumption DEF ClientInv, OnlySocket, OnlyConnection, Live, Sockets
  <1>2. mSockets' = [mSockets EXCEPT ![1].closed = TRUE] /\ stream' = Destroyed(c)
    BY <1>1 DEF CloseAndRetry, Close
  <1>3. mSockets'[1].closed /\ mSockets'[1].locked = mSockets[1].locked
        /\ \A k \in Sockets : k # 1 => mSockets'[k] = mSockets[k]
    BY <1>1, <1>2 DEF Types, TypeOK
  <1>4. \/ pc'[c] = "connect"
        \/ pc'[c] = "return" /\ ~ok'[c] /\ retries[c] = MaxRetries
    BY MaxRetriesAssumption DEF Types, TypeOK, CloseAndRetry, Goes, Returns
  <1>5. MaxRetries # 0 /\ retries[c] = MaxRetries => disturbed'[c]
    BY <1>1 DEF ClientInv, Accounted
  <1> QED
    BY <1>1, <1>2, <1>3, <1>4, <1>5, CloseStep DEF ClientInv, OnlySocket

\* Links are told apart by their fields, and a step writes some of them.
LEMMA LinkFields ==
    ASSUME NEW a, NEW b, NEW d, NEW e
    PROVE  /\ Link(a, b, d, e).state = a /\ Link(a, b, d, e).requests = b
           /\ Link(a, b, d, e).serving = d /\ Link(a, b, d, e).replies = e
  BY DEF Link

LEMMA LinkOfFields ==
    ASSUME TypeOK', NEW f \in Fds
    PROVE  stream'[f] = Link(stream'[f].state, stream'[f].requests, stream'[f].serving,
                             stream'[f].replies)
  <1>1. \A r \in Streams : r = Link(r.state, r.requests, r.serving, r.replies)
    BY DEF Streams, Link
  <1>2. stream'[f] \in Streams
    BY DEF TypeOK, Streams
  <1> QED  BY <1>1, <1>2

LEMMA ConnectStep ==
    ASSUME Types, Types', NEW c, Callers = {c}, ClientInv(c), Connect(c) \/ Connected(c)
    PROVE  ClientInv(c)'
  <1>1. s[c] = 1 /\ 1 \in Sockets
    BY NumSocketsAssumption DEF ClientInv, OnlySocket, Sockets
  <1>2. CASE Connect(c) /\ mSockets[1].closed
    <2>1. PICK f \in Fds : /\ stream[f].state = "unused"
                          /\ mSockets' = [mSockets EXCEPT ![1].fd = f]
                          /\ stream' = [stream EXCEPT ![f].state = "open"]
      BY <1>1, <1>2 DEF Connect
    <2>2. \A g \in Fds : stream[g] = Unused
      BY <1>2 DEF ClientInv, OnlyConnection, Live, Connect
    <2>3. /\ mSockets'[1].fd = f /\ mSockets'[1].closed /\ ~mSockets'[1].locked
          /\ \A k \in Sockets : k # 1 => mSockets'[k] = mSockets[k]
      BY <1>1, <1>2, <2>1 DEF Types, TypeOK, ClientInv, OnlySocket, Connect
    <2>4. stream'[f] = Quiet("open") /\ \A g \in Fds : g # f => stream'[g] = Unused
      <3>0. /\ stream'[f].state = "open" /\ stream'[f].requests = Unused.requests
            /\ stream'[f].serving = Unused.serving /\ stream'[f].replies = Unused.replies
        BY <2>1, <2>2 DEF Types, TypeOK
      <3>1. stream'[f] = Link("open", Unused.requests, Unused.serving, Unused.replies)
        BY <3>0, LinkOfFields DEF Types
      <3>2. stream'[f] = Quiet("open")
        BY <3>1 DEF Unused, Quiet
      <3>3. \A g \in Fds : g # f => stream'[g] = stream[g]
        BY <2>1 DEF Types, TypeOK
      <3> QED  BY <2>2, <3>2, <3>3
    <2>5. pc'[c] = "connecting" /\ UNCHANGED <<s, ok, reply, disturbed>>
      BY <1>1, <1>2 DEF Connect, Goes, Types, TypeOK
    <2>6. Live(c)'
      BY <2>5 DEF Live
    <2>7. OnlySocket(c)'
      BY <2>3, <2>5 DEF ClientInv, OnlySocket
    <2>8. OnlyConnection(c)' /\ Exchange(c)' /\ Accounted(c)'
      BY <2>3, <2>4, <2>5, <2>6
         DEF OnlyConnection, Exchange, Accounted, Quiet, Link, Unused
    <2> QED  BY <2>7, <2>8 DEF ClientInv
  <1>3. CASE \/ Connect(c) /\ ~mSockets[1].closed
             \/ Connected(c) /\ mSockets' = [mSockets EXCEPT ![1].closed = FALSE] /\ Goes(c, "write")
                /\ UNCHANGED <<ok, disturbed, stream>>
    <2>1. /\ mSockets'[1].fd = mSockets[1].fd /\ mSockets'[1].locked = mSockets[1].locked
          /\ \A k \in Sockets : k # 1 => mSockets'[k] = mSockets[k]
          /\ ~mSockets'[1].closed
      BY <1>1, <1>3 DEF Types, TypeOK, Connect
    <2>2. /\ pc'[c] = "write" /\ pc[c] \in {"connect", "connecting"}
          /\ UNCHANGED <<s, id, retries, ok, reply, disturbed, stream>>
      BY <1>1, <1>3 DEF Types, TypeOK, Connect, Connected, Goes
    <2>3. Live(c) /\ Live(c)'
      BY <1>3, <2>1 DEF Live, Connected
    <2>4. OnlySocket(c)'
      BY <2>1, <2>2 DEF ClientInv, OnlySocket
    <2>5. OnlyConnection(c)' /\ Exchange(c)' /\ Accounted(c)'
      BY <2>1, <2>2, <2>3 DEF ClientInv, OnlyConnection, Exchange, Accounted
    <2> QED  BY <2>4, <2>5 DEF ClientInv
  <1>4. CASE Connected(c) /\ stream' = Destroyed(c) /\ Returns(c, FALSE) /\ Disturb(c)
             /\ mSockets' = [mSockets EXCEPT ![1].fd = INVALID_SOCKET]
    <2>1. /\ mSockets'[1].closed /\ ~mSockets'[1].locked
          /\ \A k \in Sockets : k # 1 => mSockets'[k] = mSockets[k]
      BY <1>1, <1>4 DEF Types, TypeOK, ClientInv, OnlySocket, OnlyConnection, Connected
    <2>2. /\ pc'[c] = "return" /\ ~ok'[c] /\ disturbed'[c] /\ pc[c] # "unlock" /\ Live(c)
          /\ UNCHANGED <<s, id, reply>>
      BY <1>4 DEF Types, TypeOK, Connected, Returns, Goes, Disturb, Live
    <2> QED  BY <1>4, <2>1, <2>2, CloseStep
  <1> QED  BY <1>1, <1>2, <1>3, <1>4 DEF Connect, Connected

\* The parts of a reply are told apart, and read in the order they were written.
LEMMA PartFacts ==
    ASSUME NEW i, NEW good \in BOOLEAN, NEW close \in BOOLEAN
    PROVE  /\ Status(i, good).part = "status" /\ Rest(i, close).part = "rest"
           /\ Rest(i, close).id = i /\ (Rest(i, close).close <=> close)
  BY DEF Status, Rest

LEMMA OneOrTwo ==
    ASSUME NEW p, NEW q
    PROVE  /\ Head(<<p, q>>) = p /\ Tail(<<p, q>>) = <<q>> /\ Append(<<p>>, q) = <<p, q>>
           /\ Head(<<p>>) = p /\ Tail(<<p>>) = <<>> /\ Append(<<>>, p) = <<p>>
           /\ <<p, q>> # <<>> /\ <<p>> # <<>>
  <1>1. Head(<<p, q>>) = p /\ Head(<<p>>) = p
    OBVIOUS
  <1>2. Tail(<<p, q>>) = <<q>>
    <2> DEFINE t == <<p, q>>
    <2>1. t \in Seq({p, q}) /\ Len(t) = 2 /\ t[2] = q
      OBVIOUS
    <2> HIDE DEF t
    <2>2. Tail(t) \in Seq({p, q}) /\ Len(Tail(t)) = 1 /\ Tail(t)[1] = t[2]
      <3>1. t # <<>> /\ Len(t) - 1 = 1 /\ 1 \in 1 .. 1 /\ 1 + 1 = 2
        BY <2>1
      <3>2. /\ Tail(t) \in Seq({p, q}) /\ Len(Tail(t)) = Len(t) - 1
            /\ \A i \in 1 .. Len(Tail(t)) : Tail(t)[i] = t[i + 1]
        BY <2>1, <3>1, HeadTailProperties
      <3> QED  BY <3>1, <3>2
    <2>3. \A u \in Seq({p, q}) : Len(u) = 1 => u = <<u[1]>>
      OBVIOUS
    <2>4. Tail(t) = <<q>>
      BY <2>1, <2>2, <2>3
    <2> QED  BY <2>4 DEF t
  <1>3. Tail(<<p>>) = <<>>
    OBVIOUS
  <1>4. Append(<<p>>, q) = <<p, q>>
    <2> DEFINE t == <<p>>
    <2>1. t \in Seq({p, q}) /\ Len(t) = 1 /\ t[1] = p
      OBVIOUS
    <2> HIDE DEF t
    <2>2. /\ Append(t, q) \in Seq({p, q}) /\ Len(Append(t, q)) = 2
          /\ Append(t, q)[1] = p /\ Append(t, q)[2] = q
      <3>1. q \in {p, q}
        OBVIOUS
      <3>2. \A S : t \in Seq(S) /\ q \in S =>
              /\ Append(t, q) \in Seq(S) /\ Len(Append(t, q)) = 2
              /\ Append(t, q)[1] = t[1] /\ Append(t, q)[2] = q
        <4>1. ASSUME NEW S, t \in Seq(S), q \in S
              PROVE  /\ Append(t, q) \in Seq(S) /\ Len(Append(t, q)) = Len(t) + 1
                     /\ \A i \in 1 .. Len(t) : Append(t, q)[i] = t[i]
                     /\ Append(t, q)[Len(t) + 1] = q
          BY <4>1, AppendProperties
        <4>2. 1 \in 1 .. Len(t) /\ Len(t) + 1 = 2
          BY <2>1
        <4> QED  BY <4>1, <4>2
      <3> QED  BY <2>1, <3>1, <3>2
    <2>3. \A u \in Seq({p, q}) : Len(u) = 2 => u = <<u[1], u[2]>>
      OBVIOUS
    <2>4. Append(t, q) = <<p, q>>
      BY <2>2, <2>3
    <2> QED  BY <2>4 DEF t
  <1>5. Append(<<>>, p) = <<p>>
    OBVIOUS
  <1>6. <<p, q>> # <<>> /\ <<p>> # <<>>
    OBVIOUS
  <1> QED  BY <1>1, <1>2, <1>3, <1>4, <1>5, <1>6

\* Steps that change what is under way on the connection, but not the sockets.
LEMMA ExchangeStep ==
    ASSUME Types, Types', NEW c, Callers = {c}, ClientInv(c), Live(c),
           UNCHANGED <<mSockets, s, id, retries>>,
           pc[c] # "unlock", pc'[c] # "unlock", pc'[c] # "connecting", pc[c] # "connecting",
           stream'[mSockets[1].fd] # Unused,
           \A f \in Fds : f # mSockets[1].fd => stream'[f] = stream[f]
    PROVE  OnlySocket(c)' /\ OnlyConnection(c)' /\ Live(c)'
  BY DEF ClientInv, OnlySocket, OnlyConnection, Live

\* What the places in a call say of the state of the connection.
LEMMA LinkStates ==
    ASSUME NEW x, NEW i
    PROVE  /\ x \in {Quiet("open"), Quiet("ended")} =>
                x = Quiet(x.state) /\ x.state \in {"open", "ended"}
           /\ BeforeStatus(x, i) => x.state \in {"open", "ended"}
           /\ BeforeStatus(x, i) /\ x.replies = <<>> =>
                x = Link("open", <<i>>, NoId, <<>>) \/ x = Quiet("ended")
           /\ BeforeRest(x, i) => x.state \in {"open", "ended"}
           /\ BeforeRest(x, i) /\ x.replies = <<>> =>
                x = Link("open", <<>>, i, <<>>) \/ x = Quiet("ended")
           /\ x.state \in {"open", "ended"} => x # Unused
  <1>1. x \in {Quiet("open"), Quiet("ended")} =>
                x = Quiet(x.state) /\ x.state \in {"open", "ended"}
    BY LinkFields DEF Quiet
  <1>2. ASSUME BeforeStatus(x, i)
        PROVE  /\ x.state \in {"open", "ended"}
               /\ x.replies = <<>> => x = Link("open", <<i>>, NoId, <<>>) \/ x = Quiet("ended")
    <2>1. CASE x = Link("open", <<i>>, NoId, <<>>) \/ x = Quiet("ended")
      BY <2>1, LinkFields DEF Quiet
    <2>2. ASSUME NEW good \in BOOLEAN, NEW state \in {"open", "ended"}, NEW y,
                 x = Link(state, <<>>, y, <<Status(i, good)>>)
          PROVE  x.state \in {"open", "ended"} /\ x.replies # <<>>
      BY <2>2, LinkFields, OneOrTwo
    <2>3. ASSUME NEW good, NEW close \in BOOLEAN, NEW state \in {"open", "ended"},
                 x = Link(state, <<>>, NoId, <<Status(i, good), Rest(i, close)>>)
          PROVE  x.state \in {"open", "ended"} /\ x.replies # <<>>
      <3>1. x.state = state /\ x.replies = <<Status(i, good), Rest(i, close)>>
        BY <2>3, LinkFields
      <3> QED  BY <3>1, OneOrTwo
    <2> QED  BY <1>2, <2>1, <2>2, <2>3 DEF BeforeStatus
  <1>4. ASSUME BeforeRest(x, i)
        PROVE  /\ x.state \in {"open", "ended"}
               /\ x.replies = <<>> => x = Link("open", <<>>, i, <<>>) \/ x = Quiet("ended")
    <2>1. CASE x = Link("open", <<>>, i, <<>>) \/ x = Quiet("ended")
      BY <2>1, LinkFields DEF Quiet
    <2>2. ASSUME NEW close \in BOOLEAN, NEW state \in {"open", "ended"},
                 x = Link(state, <<>>, NoId, <<Rest(i, close)>>)
          PROVE  x.state \in {"open", "ended"} /\ x.replies # <<>>
      <3>1. x.state = state /\ x.replies = <<Rest(i, close)>>
        BY <2>2, LinkFields
      <3> QED  BY <3>1, OneOrTwo
    <2> QED  BY <1>4, <2>1, <2>2 DEF BeforeRest
  <1>6. x.state \in {"open", "ended"} => x # Unused
    BY DEF Unused
  <1> QED  BY <1>1, <1>2, <1>4, <1>6

LEMMA LinkParts ==
    ASSUME NEW x, NEW i
    PROVE  /\ BeforeStatus(x, i) =>
                /\ x.requests # <<>> => x = Link("open", <<i>>, NoId, <<>>)
                /\ x.serving # NoId =>
                     \E good \in BOOLEAN : x = Link("open", <<>>, i, <<Status(i, good)>>)
                /\ x.replies # <<>> =>
                     \/ \E good \in BOOLEAN : x.replies = <<Status(i, good)>>
                     \/ \E good, close \in BOOLEAN :
                           x.replies = <<Status(i, good), Rest(i, close)>>
           /\ BeforeRest(x, i) =>
                /\ x.requests = <<>>
                /\ x.serving # NoId => x = Link("open", <<>>, i, <<>>)
                /\ x.replies # <<>> => \E close \in BOOLEAN : x.replies = <<Rest(i, close)>>
           /\ x \in {Quiet("open"), Quiet("ended")} =>
                x.requests = <<>> /\ x.serving = NoId /\ x.replies = <<>>
  <1>1. ASSUME BeforeStatus(x, i)
        PROVE  /\ x.requests # <<>> => x = Link("open", <<i>>, NoId, <<>>)
               /\ x.serving # NoId =>
                    \E good \in BOOLEAN : x = Link("open", <<>>, i, <<Status(i, good)>>)
               /\ x.replies # <<>> =>
                    \/ \E good \in BOOLEAN : x.replies = <<Status(i, good)>>
                    \/ \E good, close \in BOOLEAN :
                          x.replies = <<Status(i, good), Rest(i, close)>>
    <2>1. CASE x = Link("open", <<i>>, NoId, <<>>)
      <3>1. x.serving = NoId /\ x.replies = <<>>
        BY <2>1, LinkFields
      <3> QED  BY <2>1, <3>1
    <2>2. CASE x = Quiet("ended")
      <3>1. x.requests = <<>> /\ x.serving = NoId /\ x.replies = <<>>
        BY <2>2, LinkFields DEF Quiet
      <3> QED  BY <3>1
    <2>3. ASSUME NEW good \in BOOLEAN, x = Link("open", <<>>, i, <<Status(i, good)>>)
          PROVE  x.requests = <<>> /\ x.replies = <<Status(i, good)>>
      BY <2>3, LinkFields
    <2>4. ASSUME NEW good \in BOOLEAN, x = Link("ended", <<>>, NoId, <<Status(i, good)>>)
          PROVE  x.requests = <<>> /\ x.serving = NoId /\ x.replies = <<Status(i, good)>>
      BY <2>4, LinkFields
    <2>5. ASSUME NEW good \in BOOLEAN, NEW close \in BOOLEAN, NEW state \in {"open", "ended"},
                 x = Link(state, <<>>, NoId, <<Status(i, good), Rest(i, close)>>)
          PROVE  /\ x.requests = <<>> /\ x.serving = NoId
                 /\ x.replies = <<Status(i, good), Rest(i, close)>>
      BY <2>5, LinkFields
    <2> QED  BY <1>1, <2>1, <2>2, <2>3, <2>4, <2>5, Zenon DEF BeforeStatus
  <1>2. ASSUME BeforeRest(x, i)
        PROVE  /\ x.requests = <<>>
               /\ x.serving # NoId => x = Link("open", <<>>, i, <<>>)
               /\ x.replies # <<>> => \E close \in BOOLEAN : x.replies = <<Rest(i, close)>>
    <2>1. CASE x = Link("open", <<>>, i, <<>>)
      <3>1. x.requests = <<>> /\ x.replies = <<>>
        BY <2>1, LinkFields
      <3> QED  BY <2>1, <3>1
    <2>2. CASE x = Quiet("ended")
      <3>1. x.requests = <<>> /\ x.serving = NoId /\ x.replies = <<>>
        BY <2>2, LinkFields DEF Quiet
      <3> QED  BY <3>1
    <2>3. ASSUME NEW close \in BOOLEAN, NEW state \in {"open", "ended"},
                 x = Link(state, <<>>, NoId, <<Rest(i, close)>>)
          PROVE  x.requests = <<>> /\ x.serving = NoId /\ x.replies = <<Rest(i, close)>>
      BY <2>3, LinkFields
    <2> QED  BY <1>2, <2>1, <2>2, <2>3, Zenon DEF BeforeRest
  <1>3. x \in {Quiet("open"), Quiet("ended")} =>
                x.requests = <<>> /\ x.serving = NoId /\ x.replies = <<>>
    BY LinkFields DEF Quiet
  <1> QED  BY <1>1, <1>2, <1>3

\* What is under way, by the place in the call.
LEMMA ExchangeCases ==
    ASSUME NEW c, ClientInv(c), Live(c)
    PROVE  LET x == stream[mSockets[1].fd]
           IN \/ pc[c] \in {"select", "status"} /\ BeforeStatus(x, id[c])
              \/ pc[c] = "rest" /\ BeforeRest(x, id[c])
              \/ /\ pc[c] \notin {"select", "status", "rest"}
                 /\ x \in {Quiet("open"), Quiet("ended")}
  BY DEF ClientInv, Exchange

LEMMA SendStep ==
    ASSUME Types, Types', NEW c, Callers = {c}, ClientInv(c), Write(c)
    PROVE  ClientInv(c)'
  <1> DEFINE f == mSockets[1].fd
  <1>0. /\ s[c] = 1 /\ Live(c) /\ Fd(c) = f /\ f \in Fds /\ id[c] \in Ids
        /\ pc[c] = "write" /\ ~mSockets[1].closed /\ UNCHANGED <<id, s, reply, disturbed>>
    BY DEF Types, ClientInv, OnlySocket, OnlyConnection, Live, Write, Fd
  <1>1. stream[f] \in {Quiet("open"), Quiet("ended")} /\ StateOf(c) = stream[f].state
    BY <1>0 DEF ClientInv, Exchange, StateOf
  <1>2. CASE /\ StateOf(c) = "open"
             /\ stream' = [stream EXCEPT ![f].requests = Append(@, id[c])]
             /\ Goes(c, "select") /\ UNCHANGED <<mSockets, retries, ok>>
    <2>1. stream[f] = Quiet("open")
      BY <1>1, <1>2, LinkStates
    <2>2. stream'[f] = Link("open", <<id[c]>>, NoId, <<>>)
      <3>1. /\ stream[f].state = "open" /\ stream[f].serving = NoId
            /\ stream[f].replies = <<>> /\ Append(stream[f].requests, id[c]) = <<id[c]>>
        <4>1. /\ stream[f].state = "open" /\ stream[f].serving = NoId
              /\ stream[f].replies = <<>> /\ stream[f].requests = <<>>
          BY <2>1, LinkFields DEF Quiet
        <4> QED  BY <4>1, OneOrTwo
      <3>2. /\ stream'[f].state = "open" /\ stream'[f].serving = NoId
            /\ stream'[f].replies = <<>> /\ stream'[f].requests = <<id[c]>>
        BY <1>0, <1>2, <3>1 DEF Types, TypeOK
      <3> QED  BY <1>0, <3>2, LinkOfFields DEF Types
    <2>3. \A g \in Fds : g # f => stream'[g] = stream[g]
      BY <1>2 DEF Types, TypeOK
    <2>4. pc'[c] = "select"
      BY <1>2 DEF Types, TypeOK, Goes
    <2>5. OnlySocket(c)' /\ OnlyConnection(c)' /\ Live(c)'
      BY <1>0, <1>2, <2>2, <2>3, <2>4, ExchangeStep DEF Link, Unused
    <2>6. Exchange(c)' /\ Accounted(c)'
      <3>1. BeforeStatus(stream'[f], id[c])
        BY <2>2 DEF BeforeStatus
      <3>2. stream'[f].replies = <<>> /\ stream'[f].state = "open"
        BY <2>2, LinkFields
      <3> QED  BY <1>0, <1>2, <2>2, <2>4, <3>1, <3>2 DEF Exchange, Accounted
    <2> QED  BY <2>5, <2>6 DEF ClientInv
  <1>3. CASE /\ StateOf(c) = "ended"
             /\ Goes(c, "select") /\ UNCHANGED <<mSockets, retries, ok, stream>>
    <2>1. stream[f] = Quiet("ended") /\ stream' = stream
      BY <1>1, <1>3, LinkStates
    <2>4. pc'[c] = "select"
      BY <1>3 DEF Types, TypeOK, Goes
    <2>5. OnlySocket(c)' /\ OnlyConnection(c)' /\ Live(c)'
      BY <1>0, <1>3, <2>1, <2>4, ExchangeStep DEF Quiet, Link, Unused
    <2>6. Exchange(c)'
      BY <1>0, <1>3, <2>1, <2>4 DEF Exchange, BeforeStatus, Quiet, Link
    <2>7. Accounted(c)'
      BY <1>0, <1>3, <2>1, <2>4 DEF ClientInv, Accounted, Quiet, Link
    <2> QED  BY <2>5, <2>6, <2>7 DEF ClientInv
  <1>4. CASE StateOf(c) # "open" /\ CloseAndRetry(c)
    <2>1. stream[f].state = "ended"
      BY <1>1, <1>4, LinkStates
    <2> QED  BY <1>0, <1>4, <2>1, RetryStep
  <1> QED  BY <1>0, <1>2, <1>3, <1>4 DEF Write

LEMMA WaitStep ==
    ASSUME Types, Types', NEW c, Callers = {c}, ClientInv(c), Select(c)
    PROVE  ClientInv(c)'
  <1> DEFINE f == mSockets[1].fd
  <1>0. /\ s[c] = 1 /\ Live(c) /\ Fd(c) = f /\ f \in Fds /\ id[c] \in Ids
        /\ pc[c] = "select" /\ ~mSockets[1].closed /\ UNCHANGED <<id, s, reply, retries>>
        /\ 1 \in Sockets
    BY NumSocketsAssumption
       DEF Types, ClientInv, OnlySocket, OnlyConnection, Live, Select, Fd, Sockets
  <1>1. BeforeStatus(stream[f], id[c]) /\ StateOf(c) = stream[f].state /\ Replies(c) = stream[f].replies
    BY <1>0 DEF ClientInv, Exchange, StateOf, Replies
  <1>2. CASE Readable(c)
    <2>1. pc'[c] = "status" /\ UNCHANGED <<mSockets, ok, disturbed, stream>>
      BY <1>0, <1>2 DEF Types, TypeOK, Select, Goes
    <2>2. stream[f] # Link("open", <<id[c]>>, NoId, <<>>) /\ stream[f] # Unused
      BY <1>0, <1>1, <1>2 DEF Readable, Link, ClientInv, OnlyConnection
    <2>3. OnlySocket(c)' /\ OnlyConnection(c)' /\ Live(c)'
      BY <1>0, <2>1, <2>2, ExchangeStep
    <2>4. Exchange(c)' /\ Accounted(c)'
      BY <1>0, <1>1, <2>1, <2>2 DEF ClientInv, Exchange, Accounted
    <2> QED  BY <2>3, <2>4 DEF ClientInv
  <1>3. CASE ~Readable(c)
    <2>1. /\ stream' = Destroyed(c) /\ mSockets' = [mSockets EXCEPT ![1].closed = TRUE]
          /\ pc'[c] = "return" /\ ~ok'[c] /\ disturbed'[c]
      BY <1>0, <1>3 DEF Types, TypeOK, Select, Close, Returns, Goes, Disturb
    <2>2. /\ mSockets'[1].closed /\ mSockets'[1].locked = mSockets[1].locked
          /\ \A k \in Sockets : k # 1 => mSockets'[k] = mSockets[k]
      BY <1>0, <2>1 DEF Types, TypeOK
    <2> QED  BY <1>0, <2>1, <2>2, CloseStep DEF ClientInv, OnlySocket
  <1> QED  BY <1>2, <1>3

\* The first part of what is on the connection is taken.
LEMMA ReadFacts ==
    ASSUME Types, NEW c, Callers = {c}, ClientInv(c), pc[c] \in {"status", "rest"}
    PROVE  LET f == mSockets[1].fd
           IN /\ s[c] = 1 /\ Live(c) /\ Fd(c) = f /\ f \in Fds /\ id[c] \in Ids
              /\ ~mSockets[1].closed /\ 1 \in Sockets
              /\ StateOf(c) = stream[f].state /\ Replies(c) = stream[f].replies
              /\ Received(c) /\ Replies(c) # <<>> =>
                   /\ stream'[f] = Link(stream[f].state, stream[f].requests, stream[f].serving,
                                        Tail(stream[f].replies))
                   /\ \A g \in Fds : g # f => stream'[g] = stream[g]
  <1>1. /\ s[c] = 1 /\ Live(c) /\ Fd(c) = mSockets[1].fd /\ mSockets[1].fd \in Fds
        /\ id[c] \in Ids /\ ~mSockets[1].closed /\ 1 \in Sockets
    BY NumSocketsAssumption
       DEF Types, ClientInv, OnlySocket, OnlyConnection, Live, Fd, Sockets
  <1>2. StateOf(c) = stream[mSockets[1].fd].state /\ Replies(c) = stream[mSockets[1].fd].replies
    BY <1>1 DEF StateOf, Replies
  <1>3. ASSUME Received(c)
        PROVE  /\ stream'[mSockets[1].fd]
                    = Link(stream[mSockets[1].fd].state, stream[mSockets[1].fd].requests,
                           stream[mSockets[1].fd].serving, Tail(stream[mSockets[1].fd].replies))
               /\ \A g \in Fds : g # mSockets[1].fd => stream'[g] = stream[g]
    <2>1. stream' = [stream EXCEPT ![mSockets[1].fd].replies = Tail(@)]
      BY <1>1, <1>3 DEF Received
    <2>2. stream \in [Fds -> Streams]
      BY DEF Types, TypeOK, Streams
    <2> QED  BY <1>1, <2>1, <2>2 DEF Streams, Link
  <1> QED  BY <1>1, <1>2, <1>3

LEMMA StatusStep ==
    ASSUME Types, Types', NEW c, Callers = {c}, ClientInv(c), ReadStatus(c)
    PROVE  ClientInv(c)'
  <1> DEFINE f == mSockets[1].fd
  <1>0. /\ s[c] = 1 /\ Live(c) /\ Fd(c) = f /\ f \in Fds /\ id[c] \in Ids
        /\ pc[c] = "status" /\ UNCHANGED <<id, s, reply, disturbed>>
        /\ StateOf(c) = stream[f].state /\ Replies(c) = stream[f].replies
    BY ReadFacts DEF ReadStatus
  <1>1. BeforeStatus(stream[f], id[c]) /\ stream[f] # Link("open", <<id[c]>>, NoId, <<>>)
    BY <1>0 DEF ClientInv, Exchange
  <1>2. CASE Replies(c) # <<>> /\ Received(c) /\ UNCHANGED <<mSockets, retries>> /\ Goes(c, "rest")
    <2>1. /\ stream'[f] = Link(stream[f].state, stream[f].requests, stream[f].serving,
                                Tail(stream[f].replies))
          /\ \A g \in Fds : g # f => stream'[g] = stream[g]
      BY <1>0, <1>2, ReadFacts
    <2>2. BeforeRest(stream'[f], id[c]) /\ stream'[f].state = stream[f].state
      <3>1. CASE \E good \in BOOLEAN : stream[f] = Link("open", <<>>, id[c], <<Status(id[c], good)>>)
        BY <2>1, <3>1, OneOrTwo DEF BeforeRest, Link
      <3>2. CASE \E state \in {"open", "ended"}, good, close \in BOOLEAN :
                   stream[f] = Link(state, <<>>, NoId, <<Status(id[c], good), Rest(id[c], close)>>)
        BY <2>1, <3>2, OneOrTwo DEF BeforeRest, Link
      <3>3. CASE \E good \in BOOLEAN : stream[f] = Link("ended", <<>>, NoId, <<Status(id[c], good)>>)
        BY <2>1, <3>3, OneOrTwo DEF BeforeRest, Link, Quiet
      <3>4. stream[f] # Quiet("ended")
        BY <1>0, <1>2 DEF Quiet, Link
      <3> QED  BY <1>1, <3>1, <3>2, <3>3, <3>4 DEF BeforeStatus
    <2>3. pc'[c] = "rest"
      BY <1>2 DEF Types, TypeOK, Goes
    <2>4. stream'[f] # Unused
      BY <2>2, LinkStates
    <2>5. OnlySocket(c)' /\ OnlyConnection(c)' /\ Live(c)'
      BY <1>0, <1>2, <2>1, <2>3, <2>4, ExchangeStep
    <2>6. Exchange(c)'
      BY <1>0, <1>2, <2>2, <2>3 DEF Exchange
    <2>7. Accounted(c)'
      BY <1>0, <1>2, <2>2, <2>3 DEF ClientInv, Accounted
    <2> QED  BY <2>5, <2>6, <2>7 DEF ClientInv
  <1>3. CASE Replies(c) = <<>> /\ StateOf(c) # "open" /\ CloseAndRetry(c)
    <2>1. stream[f].state = "ended"
      BY <1>0, <1>1, <1>3, LinkStates, LinkFields DEF Quiet
    <2> QED  BY <1>0, <1>3, <2>1, RetryStep
  <1> QED  BY <1>0, <1>2, <1>3 DEF ReadStatus

LEMMA RestStep ==
    ASSUME Types, Types', NEW c, Callers = {c}, ClientInv(c), ReadRest(c)
    PROVE  ClientInv(c)'
  <1> DEFINE f == mSockets[1].fd
  <1>0. /\ s[c] = 1 /\ Live(c) /\ Fd(c) = f /\ f \in Fds /\ id[c] \in Ids /\ 1 \in Sockets
        /\ pc[c] = "rest" /\ UNCHANGED <<id, s, retries, disturbed>>
        /\ StateOf(c) = stream[f].state /\ Replies(c) = stream[f].replies
    BY ReadFacts DEF ReadRest
  <1>1. BeforeRest(stream[f], id[c])
    BY <1>0 DEF ClientInv, Exchange
  <1>2. CASE Replies(c) # <<>>
    <2>1. PICK state \in {"open", "ended"}, close \in BOOLEAN :
            stream[f] = Link(state, <<>>, NoId, <<Rest(id[c], close)>>)
      BY <1>0, <1>1, <1>2, LinkFields DEF BeforeRest, Quiet
    <2>2. /\ Head(Replies(c)) = Rest(id[c], close) /\ Tail(Replies(c)) = <<>>
          /\ stream[f].state = state /\ stream[f].requests = <<>> /\ stream[f].serving = NoId
      <3>1. stream[f].state = state /\ stream[f].requests = <<>> /\ stream[f].serving = NoId
            /\ Replies(c) = <<Rest(id[c], close)>>
        BY <1>0, <2>1, LinkFields
      <3> QED  BY <3>1, OneOrTwo
    <2>3. /\ reply'[c] = id[c] /\ ok' = ok /\ pc'[c] = "return"
          /\ IF close THEN Close(c) ELSE Received(c) /\ UNCHANGED mSockets
      <3>1. /\ Head(Replies(c)).part = "rest" /\ Head(Replies(c)).id = id[c]
            /\ Head(Replies(c)).close <=> close
        <4>1. Rest(id[c], close).part = "rest" /\ Rest(id[c], close).id = id[c]
              /\ (Rest(id[c], close).close <=> close)
          BY PartFacts
        <4> QED  BY <2>2, <4>1, Zenon
      <3>2. /\ reply' = [reply EXCEPT ![c] = id[c]] /\ ok' = ok /\ Goes(c, "return")
            /\ IF Head(Replies(c)).close THEN Close(c) ELSE Received(c) /\ UNCHANGED mSockets
        BY <1>2, <3>1 DEF ReadRest
      <3> QED  BY <3>1, <3>2 DEF Types, TypeOK, Goes
    <2>4. CASE close
      <3>1. stream' = Destroyed(c) /\ mSockets' = [mSockets EXCEPT ![1].closed = TRUE]
        BY <1>0, <2>3, <2>4 DEF Close
      <3>2. /\ mSockets'[1].closed /\ mSockets'[1].locked = mSockets[1].locked
            /\ \A k \in Sockets : k # 1 => mSockets'[k] = mSockets[k]
        BY <1>0, <3>1 DEF Types, TypeOK
      <3>3. ~Live(c)'
        BY <2>3, <3>2 DEF Live
      <3>4. OnlySocket(c)'
        BY <1>0, <2>3, <3>2 DEF ClientInv, OnlySocket
      <3>5. \A g \in Fds : stream'[g] = Unused
        BY <1>0, <3>1 DEF ClientInv, OnlyConnection, Destroyed, Uses
      <3>6. OnlyConnection(c)' /\ Exchange(c)' /\ Accounted(c)'
        BY <1>0, <2>3, <3>3, <3>5 DEF OnlyConnection, Exchange, Accounted
      <3> QED  BY <3>4, <3>6 DEF ClientInv
    <2>5. CASE ~close
      <3>1. stream'[f] = Quiet(state) /\ \A g \in Fds : g # f => stream'[g] = stream[g]
        BY <1>0, <1>2, <2>2, <2>3, <2>5, ReadFacts DEF Quiet
      <3>2. UNCHANGED mSockets
        BY <2>3, <2>5
      <3>3. stream'[f] # Unused /\ stream'[f].state = state
        BY <3>1, LinkStates DEF Quiet, Link
      <3>4. OnlySocket(c)' /\ OnlyConnection(c)' /\ Live(c)'
        BY <1>0, <2>3, <3>1, <3>2, <3>3, ExchangeStep
      <3>5. Exchange(c)'
        BY <2>3, <3>1, <3>2 DEF Exchange
      <3>6. Accounted(c)'
        BY <1>0, <2>2, <2>3, <3>2, <3>3 DEF ClientInv, Accounted
      <3> QED  BY <3>4, <3>5, <3>6 DEF ClientInv
    <2> QED  BY <2>4, <2>5
  <1>3. CASE Replies(c) = <<>>
    <2>1. /\ stream' = Destroyed(c) /\ mSockets' = [mSockets EXCEPT ![1].closed = TRUE]
          /\ pc'[c] = "return" /\ ~ok'[c] /\ reply' = reply /\ stream[f].state # "open"
      BY <1>0, <1>3 DEF Types, TypeOK, ReadRest, Close, Returns, Goes
    <2>2. /\ mSockets'[1].closed /\ mSockets'[1].locked = mSockets[1].locked
          /\ \A k \in Sockets : k # 1 => mSockets'[k] = mSockets[k]
      BY <1>0, <2>1 DEF Types, TypeOK
    <2>3. disturbed'[c]
      BY <1>0, <1>1, <2>1, LinkStates DEF ClientInv, Accounted
    <2> QED  BY <1>0, <2>1, <2>2, <2>3, CloseStep DEF ClientInv, OnlySocket
  <1> QED  BY <1>2, <1>3

\* The server begins or completes a reply, or ends the connection.
LEMMA ServerStep ==
    ASSUME Types, Types', NEW c, Callers = {c}, ClientInv(c), NEW f \in Fds,
           Begins(f) \/ Completes(f) \/ Ends(f)
    PROVE  ClientInv(c)'
  <1>0. /\ UNCHANGED <<mSockets, pc, id, s, retries, ok, reply>>
        /\ disturbed[c] => disturbed'[c]
        /\ \A g \in Fds : g # f => stream'[g] = stream[g]
    <2>1. /\ UNCHANGED <<mSockets, pc, id, s, retries, ok, reply>>
          /\ disturbed[c] => disturbed'[c]
      BY DEF Begins, Completes, Ends, callers
    <2>2. \E r : stream' = [stream EXCEPT ![f] = r]
      BY Zenon DEF Begins, Completes, Ends
    <2> QED  BY <2>1, <2>2 DEF Types, TypeOK
  <1>1. f = mSockets[1].fd /\ Live(c) /\ Live(c)'
    <2>1. stream[f] # Unused
      BY LinkFields DEF Begins, Completes, Ends, Unused
    <2> QED  BY <1>0, <2>1 DEF ClientInv, OnlyConnection, Live
  <1>2. OnlySocket(c)'
    BY <1>0 DEF ClientInv, OnlySocket
  <1>3. ASSUME stream'[f] # Unused
        PROVE  OnlyConnection(c)'
    BY <1>0, <1>1, <1>3 DEF ClientInv, OnlyConnection
  <1>4. CASE Begins(f)
    <2>1. pc[c] \in {"select", "status"} /\ stream[f] = Link("open", <<id[c]>>, NoId, <<>>)
      <3>1. stream[f].requests # <<>>
        BY <1>4 DEF Begins
      <3> QED
        BY <1>1, <3>1, ExchangeCases, LinkParts
    <2>2. PICK good \in BOOLEAN : stream'[f] = Link("open", <<>>, id[c], <<Status(id[c], good)>>)
      <3>1. PICK good \in BOOLEAN :
              stream' = [stream EXCEPT ![f].requests = Tail(@),
                                       ![f].serving = Head(stream[f].requests),
                                       ![f].replies = Append(@, Status(Head(stream[f].requests), good))]
        BY <1>4 DEF Begins
      <3>2. Head(stream[f].requests) = id[c] /\ Tail(stream[f].requests) = <<>>
            /\ Append(stream[f].replies, Status(id[c], good)) = <<Status(id[c], good)>>
            /\ stream[f].state = "open"
        <4>1. /\ stream[f].requests = <<id[c]>> /\ stream[f].replies = <<>>
              /\ stream[f].state = "open"
          BY <2>1, LinkFields
        <4> QED  BY <4>1, OneOrTwo
      <3>3. /\ stream'[f].state = "open" /\ stream'[f].requests = <<>>
            /\ stream'[f].serving = id[c] /\ stream'[f].replies = <<Status(id[c], good)>>
        BY <3>1, <3>2 DEF Types, TypeOK
      <3> QED  BY <3>3, LinkOfFields DEF Types
    <2>3. stream'[f].state = "open" /\ BeforeStatus(stream'[f], id[c])
          /\ stream'[f] # Link("open", <<id[c]>>, NoId, <<>>) /\ stream'[f] # Unused
      BY <2>2, LinkFields, LinkStates, OneOrTwo DEF BeforeStatus
    <2>4. Exchange(c)' /\ Accounted(c)'
      BY <1>0, <1>1, <2>1, <2>3 DEF Exchange, Accounted
    <2> QED  BY <1>2, <1>3, <2>3, <2>4 DEF ClientInv
  <1>5. CASE Completes(f)
    <2>1. stream[f].serving # NoId
      BY <1>5 DEF Completes
    <2>2. PICK close \in BOOLEAN :
            stream' = [stream EXCEPT ![f].serving = NoId,
                                     ![f].replies = Append(@, Rest(stream[f].serving, close))]
      BY <1>5 DEF Completes
    <2>3. CASE pc[c] \in {"select", "status"}
      <3>1. PICK good \in BOOLEAN : stream[f] = Link("open", <<>>, id[c], <<Status(id[c], good)>>)
        BY <1>1, <2>1, <2>3, ExchangeCases, LinkParts
      <3>2. stream'[f] = Link("open", <<>>, NoId, <<Status(id[c], good), Rest(id[c], close)>>)
        <4>1. Append(stream[f].replies, Rest(stream[f].serving, close))
                = <<Status(id[c], good), Rest(id[c], close)>>
              /\ stream[f].state = "open" /\ stream[f].requests = <<>>
          <5>1. /\ stream[f].replies = <<Status(id[c], good)>> /\ stream[f].serving = id[c]
                /\ stream[f].state = "open" /\ stream[f].requests = <<>>
            BY <3>1, LinkFields
          <5> QED  BY <5>1, OneOrTwo
        <4>2. /\ stream'[f].state = "open" /\ stream'[f].requests = <<>> /\ stream'[f].serving = NoId
              /\ stream'[f].replies = <<Status(id[c], good), Rest(id[c], close)>>
          BY <2>2, <4>1 DEF Types, TypeOK
        <4> QED  BY <4>2, LinkOfFields DEF Types
      <3>3. stream'[f].state = "open" /\ BeforeStatus(stream'[f], id[c])
            /\ stream'[f] # Link("open", <<id[c]>>, NoId, <<>>) /\ stream'[f] # Unused
        <4>1. BeforeStatus(stream'[f], id[c])
          BY <3>2 DEF BeforeStatus
        <4>2. stream'[f].state = "open" /\ stream'[f].requests = <<>>
          BY <3>2, LinkFields
        <4>3. Link("open", <<id[c]>>, NoId, <<>>).requests # <<>>
          BY LinkFields, OneOrTwo
        <4> QED  BY <4>1, <4>2, <4>3, LinkStates
      <3>4. Exchange(c)' /\ Accounted(c)'
        BY <1>0, <1>1, <2>3, <3>3 DEF Exchange, Accounted
      <3> QED  BY <1>2, <1>3, <3>3, <3>4 DEF ClientInv
    <2>4. CASE pc[c] = "rest"
      <3>1. stream[f] = Link("open", <<>>, id[c], <<>>)
        BY <1>1, <2>1, <2>4, ExchangeCases, LinkParts
      <3>2. stream'[f] = Link("open", <<>>, NoId, <<Rest(id[c], close)>>)
        <4>1. Append(stream[f].replies, Rest(stream[f].serving, close)) = <<Rest(id[c], close)>>
              /\ stream[f].state = "open" /\ stream[f].requests = <<>>
          <5>1. /\ stream[f].replies = <<>> /\ stream[f].serving = id[c]
                /\ stream[f].state = "open" /\ stream[f].requests = <<>>
            BY <3>1, LinkFields
          <5> QED  BY <5>1, OneOrTwo
        <4>2. /\ stream'[f].state = "open" /\ stream'[f].requests = <<>> /\ stream'[f].serving = NoId
              /\ stream'[f].replies = <<Rest(id[c], close)>>
          BY <2>2, <4>1 DEF Types, TypeOK
        <4> QED  BY <4>2, LinkOfFields DEF Types
      <3>3. stream'[f].state = "open" /\ BeforeRest(stream'[f], id[c]) /\ stream'[f] # Unused
        BY <3>2, LinkFields, LinkStates DEF BeforeRest
      <3>4. Exchange(c)' /\ Accounted(c)'
        BY <1>0, <1>1, <2>4, <3>3 DEF Exchange, Accounted
      <3> QED  BY <1>2, <1>3, <3>3, <3>4 DEF ClientInv
    <2>5. CASE pc[c] \notin {"select", "status", "rest"}
      BY <1>1, <2>1, <2>5, LinkFields DEF ClientInv, Exchange, Quiet
    <2> QED  BY <2>3, <2>4, <2>5
  <1>6. CASE Ends(f)
    <2>1. PICK kept \in {<<>>, stream[f].replies} :
            stream' = [stream EXCEPT ![f] = [state |-> "ended", requests |-> <<>>,
                                             serving |-> NoId, replies |-> kept]]
      BY <1>6 DEF Ends
    <2>2. stream'[f] = Link("ended", <<>>, NoId, kept)
      BY <2>1 DEF Types, TypeOK, Link
    <2>3. /\ stream[f].replies # <<>> => disturbed'[c]
          /\ pc[c] \in {"status", "rest"} => disturbed'[c]
          /\ retries[c] = MaxRetries => disturbed'[c]
      <3>1. Uses(c, f)
        BY <1>1 DEF ClientInv, OnlySocket, Uses, Fd
      <3> QED  BY <1>6, <3>1 DEF Ends
    <2>4. stream'[f] # Unused /\ stream'[f].state = "ended" /\ stream'[f].replies = kept
      BY <2>2, LinkStates DEF Link
    <2>5. Accounted(c)'
      <3>1. kept # <<>> => disturbed'[c]
        BY <2>1, <2>3
      <3> QED  BY <1>0, <1>1, <2>3, <2>4, <3>1 DEF ClientInv, Accounted
    <2>6. Exchange(c)'
      <3>1. CASE kept = <<>>
        <4>1. stream'[f] = Quiet("ended") /\ Quiet("ended") # Link("open", <<id[c]>>, NoId, <<>>)
          BY <2>2, <3>1, LinkFields DEF Quiet
        <4> QED  BY <1>0, <1>1, <4>1 DEF Exchange, BeforeStatus, BeforeRest
      <3>2. CASE kept # <<>> /\ pc[c] \in {"select", "status"}
        <4>1. BeforeStatus(stream[f], id[c]) /\ kept = stream[f].replies
          BY <1>1, <2>1, <3>2 DEF ClientInv, Exchange
        <4>2. \/ \E good \in BOOLEAN : kept = <<Status(id[c], good)>>
              \/ \E good, close \in BOOLEAN : kept = <<Status(id[c], good), Rest(id[c], close)>>
          <5>1. stream[f].replies # <<>>
            BY <3>2, <4>1
          <5>2. \/ \E good \in BOOLEAN : stream[f].replies = <<Status(id[c], good)>>
                \/ \E good, close \in BOOLEAN :
                      stream[f].replies = <<Status(id[c], good), Rest(id[c], close)>>
            BY <4>1, <5>1, LinkParts
          <5> QED  BY <4>1, <5>2
        <4>3. BeforeStatus(stream'[f], id[c])
          BY <2>2, <4>2 DEF BeforeStatus
        <4>4. stream'[f] # Link("open", <<id[c]>>, NoId, <<>>)
          BY <2>4, LinkFields
        <4> QED  BY <1>0, <1>1, <3>2, <4>3, <4>4 DEF Exchange
      <3>3. CASE kept # <<>> /\ pc[c] = "rest"
        <4>1. BeforeRest(stream[f], id[c]) /\ kept = stream[f].replies
          BY <1>1, <2>1, <3>3 DEF ClientInv, Exchange
        <4>2. \E close \in BOOLEAN : kept = <<Rest(id[c], close)>>
          BY <3>3, <4>1, LinkParts
        <4>3. BeforeRest(stream'[f], id[c])
          BY <2>2, <4>2 DEF BeforeRest
        <4> QED  BY <1>0, <1>1, <3>3, <4>3 DEF Exchange
      <3>4. CASE kept # <<>> /\ pc[c] \notin {"select", "status", "rest"}
        BY <1>1, <2>1, <3>4, LinkFields DEF ClientInv, Exchange, Quiet
      <3> QED  BY <3>1, <3>2, <3>3, <3>4
    <2> QED  BY <1>2, <1>3, <2>4, <2>5, <2>6 DEF ClientInv
  <1> QED  BY <1>4, <1>5, <1>6

LEMMA ClientStep ==
    ASSUME Types, Types', NEW c, Callers = {c}, ClientInv(c), [Next]_vars
    PROVE  ClientInv(c)'
  <1>1. CASE UNCHANGED vars
    BY <1>1
       DEF vars, callers, ClientInv, OnlySocket, OnlyConnection, Exchange, Accounted, Live
  <1>2. CASE Request(c) \/ Calling(c)
    BY <1>2, OffConnectionStep, ConnectStep, SendStep, WaitStep, StatusStep, RestStep DEF Calling
  <1>3. CASE \E f \in Fds : Begins(f) \/ Completes(f) \/ Ends(f)
    BY <1>3, ServerStep
  <1> QED  BY <1>1, <1>2, <1>3 DEF Next

LEMMA InvImplies ==
    ASSUME Types, NEW c, Callers = {c}, ClientInv(c)
    PROVE  /\ OwnReply /\ KeptConnectionsQuiet /\ DescriptorsOwned /\ ReplyOwed
           /\ MaxRetries # 0 => ClosedConnectionRetried
  <1>1. OwnReply /\ (MaxRetries # 0 => ClosedConnectionRetried)
    BY DEF OwnReply, ClosedConnectionRetried, ClientInv, Accounted, Types, TypeOK
  <1>2. Live(c) => LET x == stream[mSockets[1].fd]
                   IN x.state # "unused" /\ (pc[c] = "idle" => x \in {Quiet("open"), Quiet("ended")})
    BY LinkStates DEF ClientInv, Exchange, Types, TypeOK
  <1>3. KeptConnectionsQuiet
    BY <1>2, LinkFields DEF KeptConnectionsQuiet, ClientInv, OnlyConnection, Quiet, Unused
  <1>4. DescriptorsOwned
    BY <1>2, NumSocketsAssumption
       DEF DescriptorsOwned, ClientInv, OnlySocket, OnlyConnection, Live, Unused, Sockets
  <1>5. ReplyOwed
    <2> DEFINE f == mSockets[1].fd
    <2> SUFFICES ASSUME pc[c] \in {"status", "rest"}  PROVE ReplyOwed
      BY DEF ReplyOwed
    <2>1. /\ Live(c) /\ Fd(c) = f /\ f \in Fds /\ id[c] \in Ids
          /\ StateOf(c) = stream[f].state /\ Replies(c) = stream[f].replies
      BY ReadFacts
    <2>2. CASE pc[c] = "status"
      <3>1. stream[f].replies # <<>> \/ stream[f] = Quiet("ended")
        BY <2>1, <2>2, LinkStates DEF ClientInv, Exchange
      <3> QED  BY <2>1, <2>2, <3>1, LinkFields DEF ReplyOwed, Readable, Quiet
    <2>3. CASE pc[c] = "rest"
      <3>1. \/ stream[f].replies # <<>>
            \/ stream[f] = Link("open", <<>>, id[c], <<>>) \/ stream[f] = Quiet("ended")
        BY <2>1, <2>3, LinkStates DEF ClientInv, Exchange
      <3>2. stream[f].replies # <<>> \/ stream[f].serving # NoId \/ stream[f].state = "ended"
        BY <2>1, <3>1, LinkFields, NoIdAssumption DEF Quiet
      <3> QED  BY <2>1, <2>3, <3>2 DEF ReplyOwed, Readable, Uses
    <2> QED  BY <2>2, <2>3
  <1> QED  BY <1>1, <1>3, <1>4, <1>5

LEMMA ClientSafety ==
    ASSUME NEW c, Callers = {c}
    PROVE  Spec => [](Types /\ ClientInv(c))
  <1>1. Init => Types /\ ClientInv(c)
    BY InvInit, TypesInit
  <1>2. Types /\ ClientInv(c) /\ [Next]_vars => (Types /\ ClientInv(c))'
    BY ClientStep, TypesStep
  <1> QED  BY <1>1, <1>2, PTL DEF Spec

\* A request that succeeds got the reply to itself, over connections that are kept,
\* closed by either side at any moment, and tried again.
THEOREM ReplyIsOwn ==
    ASSUME Alone
    PROVE  Spec => []OwnReply
  <1>1. PICK c : Callers = {c}
    BY DEF Alone
  <1>2. Types /\ ClientInv(c) => OwnReply
    BY <1>1, InvImplies
  <1>3. Spec => [](Types /\ ClientInv(c))
    BY <1>1, ClientSafety
  <1> QED  BY <1>2, <1>3, PTL

\* However requests end, nothing of them is left on a connection that is kept.
THEOREM KeptConnectionsStayQuiet ==
    ASSUME Alone
    PROVE  Spec => []KeptConnectionsQuiet
  <1>1. PICK c : Callers = {c}
    BY DEF Alone
  <1>2. Types /\ ClientInv(c) => KeptConnectionsQuiet
    BY <1>1, InvImplies
  <1>3. Spec => [](Types /\ ClientInv(c))
    BY <1>1, ClientSafety
  <1> QED  BY <1>2, <1>3, PTL

\* Every open descriptor belongs to a socket that will use or close it, and no
\* socket uses one that is closed.
THEOREM DescriptorsNeverLeak ==
    ASSUME Alone
    PROVE  Spec => []DescriptorsOwned
  <1>1. PICK c : Callers = {c}
    BY DEF Alone
  <1>2. Types /\ ClientInv(c) => DescriptorsOwned
    BY <1>1, InvImplies
  <1>3. Spec => [](Types /\ ClientInv(c))
    BY <1>1, ClientSafety
  <1> QED  BY <1>2, <1>3, PTL

\* With at least one retry, a connection that ends before its reply has begun does
\* not fail the request.
THEOREM RetryRecovers ==
    ASSUME Alone, MaxRetries # 0
    PROVE  Spec => []ClosedConnectionRetried
  <1>1. PICK c : Callers = {c}
    BY DEF Alone
  <1>2. Types /\ ClientInv(c) => ClosedConnectionRetried
    BY <1>1, InvImplies
  <1>3. Spec => [](Types /\ ClientInv(c))
    BY <1>1, ClientSafety
  <1> QED  BY <1>2, <1>3, PTL

\* Nobody reads what nobody will send: once the wait with the timeout is over, there
\* is something to read, the end of the connection, or a server within its reply.
THEOREM ReplyNeverMissing ==
    ASSUME Alone
    PROVE  Spec => []ReplyOwed
  <1>1. PICK c : Callers = {c}
    BY DEF Alone
  <1>2. Types /\ ClientInv(c) => ReplyOwed
    BY <1>1, InvImplies
  <1>3. Spec => [](Types /\ ClientInv(c))
    BY <1>1, ClientSafety
  <1> QED  BY <1>2, <1>3, PTL

-----------------------------------------------------------------------------
(* How often a request is executed.  Every time it is sent makes one more      *)
(* copy, and a copy is on the connection, executed, or given up.               *)
LEMMA ExecSteps == [ExecNext]_execVars => [Next]_vars
  <1>1. ExecNext => Next \/ UNCHANGED vars
    BY DEF ExecNext, Next, Make, Execute, ExecuteLate
  <1> QED  BY <1>1 DEF execVars

\* To follow the executions adds no behaviour to the client: what holds of HttpClient
\* holds of RequestExecution.
THEOREM ExecutionsFollowClient == ExecSpec => Spec
  <1>1. ExecInit => Init
    BY DEF ExecInit
  <1> QED  BY <1>1, ExecSteps, PTL DEF ExecSpec, Spec

\* A copy is on the connection, and the caller waits for its reply.
Waiting(c) == pc[c] = "select" /\ Live(c) /\ stream[mSockets[1].fd].requests # <<>>

Outstanding(c, i) == IF Waiting(c) /\ i = id[c] THEN 1 ELSE 0

\* The first attempt, when its request has been sent, and the retries.
Attempts(c) == retries[c] + IF pc[c] \in {"select", "status", "rest", "return"} THEN 1 ELSE 0

Budget(c) ==
    /\ \A i \in Ids : executions[i] + late[i] + Outstanding(c, i) <= MaxRetries + 1
    /\ pc[c] # "idle" => executions[id[c]] + late[id[c]] + Outstanding(c, id[c]) <= Attempts(c)

\* What has been replied to has been executed.
Answered(c) ==
    /\ pc[c] = "idle" => id[c] = NoId
    /\ pc[c] # "return" => reply[c] = NoId
    /\ Live(c) => LET x == stream[mSockets[1].fd]
                  IN x.serving # NoId \/ x.replies # <<>> => executions[id[c]] >= 1
    /\ pc[c] = "return" /\ reply[c] = id[c] => executions[id[c]] >= 1

ExecInv(c) == ExecTypeOK /\ Budget(c) /\ Answered(c)

\* Steps that neither make a request nor begin to execute one.
Other(c) == Calling(c) \/ \E f \in Fds : Completes(f) \/ Ends(f)

LEMMA CopiesOf ==
    ASSUME NEW p
    PROVE  ToSet(<<>>) = {} /\ ToSet(<<p>>) = {p}
  BY DEF ToSet

LEMMA Copies ==
    ASSUME Types, NEW c, Callers = {c}, ClientInv(c), NEW g \in Fds, stream[g].requests # <<>>
    PROVE  Waiting(c) /\ g = mSockets[1].fd /\ stream[g].requests = <<id[c]>>
  <1>1. Live(c) /\ g = mSockets[1].fd
    <2>1. stream[g] # Unused
      BY DEF Unused
    <2> QED  BY <2>1 DEF ClientInv, OnlyConnection
  <1>2. pc[c] \in {"select", "status"} /\ stream[g] = Link("open", <<id[c]>>, NoId, <<>>)
    BY <1>1, ExchangeCases, LinkParts
  <1>3. pc[c] # "status"
    BY <1>1, <1>2 DEF ClientInv, Exchange
  <1>4. stream[g].requests = <<id[c]>>
    BY <1>2, LinkFields
  <1> QED  BY <1>1, <1>2, <1>3, <1>4 DEF Waiting

\* Only Write adds to what has been sent.
LEMMA RequestsStep ==
    ASSUME TypeOK, NEW c, Callers = {c}, Other(c), NEW g \in Fds
    PROVE  stream'[g].requests \in {stream[g].requests, <<>>} \/ Write(c)
  <1>1. stream \in [Fds -> Streams] /\ stream[g] \in Streams
    BY DEF TypeOK, Streams
  <1>2. CASE stream' = stream
    BY <1>2
  <1>3. CASE stream' = Destroyed(c)
    BY <1>3 DEF Destroyed, Unused
  <1>4. CASE Received(c)
    BY <1>1, <1>4 DEF Received, Streams
  <1>5. CASE \E f \in Fds : stream' = [stream EXCEPT ![f].state = "open"]
    BY <1>1, <1>5 DEF Streams
  <1>6. CASE \E f \in Fds : Completes(f)
    BY <1>1, <1>6 DEF Completes, Streams
  <1>7. CASE \E f \in Fds : Ends(f)
    BY <1>1, <1>7 DEF Ends, Streams
  <1>8. CASE Calling(c)
    BY <1>2, <1>3, <1>4, <1>5, <1>8
       DEF Calling, Pick, Unlock, Connect, Connected, Select, ReadStatus, ReadRest, Return,
           CloseAndRetry, Close
  <1> QED  BY <1>6, <1>7, <1>8 DEF Other

\* A call goes on with the same request, and sending it is an attempt more.
LEMMA AttemptsStep ==
    ASSUME Types, Types', NEW c, Callers = {c}, Other(c), pc'[c] # "idle"
    PROVE  /\ pc[c] # "idle" /\ id'[c] = id[c]
           /\ Attempts(c)' >= Attempts(c) + IF Write(c) THEN 1 ELSE 0
  <1>0. /\ retries[c] \in Nat /\ retries'[c] \in Nat
        /\ pc \in [Callers -> {"idle", "pick", "unlock", "connect", "connecting", "write",
                               "select", "status", "rest", "return"}]
        /\ retries \in [Callers -> 0 .. MaxRetries]
    BY MaxRetriesAssumption DEF Types, TypeOK
  <1>1. CASE \E f \in Fds : Completes(f) \/ Ends(f)
    <2>1. UNCHANGED <<pc, id, retries>>
      BY <1>1 DEF Completes, Ends, callers
    <2>2. ~Write(c)
      BY <2>1, <1>0 DEF Write, Goes, CloseAndRetry, Returns
    <2> QED  BY <1>0, <2>1, <2>2 DEF Attempts
  <1>2. CASE Write(c)
    <2>1. pc[c] = "write" /\ id' = id
      BY <1>2 DEF Write
    <2>2. \/ pc'[c] \in {"select", "return"} /\ retries'[c] = retries[c]
          \/ pc'[c] = "connect" /\ retries'[c] = retries[c] + 1
      BY <1>0, <1>2 DEF Write, Goes, CloseAndRetry, Returns
    <2> QED  BY <1>0, <1>2, <2>1, <2>2 DEF Attempts
  <1>3. CASE ReadStatus(c)
    <2>1. pc[c] = "status" /\ id' = id
      BY <1>3 DEF ReadStatus
    <2>2. \/ pc'[c] \in {"rest", "return"} /\ retries'[c] = retries[c]
          \/ pc'[c] = "connect" /\ retries'[c] = retries[c] + 1
      BY <1>0, <1>3 DEF ReadStatus, Goes, CloseAndRetry, Returns
    <2> QED  BY <1>0, <2>1, <2>2 DEF Attempts, Write
  <1>4. CASE Pick(c) \/ Unlock(c) \/ Connect(c) \/ Connected(c) \/ Select(c) \/ ReadRest(c)
    <2>1. /\ pc[c] \notin {"idle", "write"} /\ id' = id /\ retries' = retries
          /\ pc[c] \in {"select", "rest"} => pc'[c] \in {"status", "rest", "return"}
          /\ pc[c] \notin {"status", "return"}
      BY <1>0, <1>4 DEF Pick, Unlock, Connect, Connected, Select, ReadRest, Goes, Returns
    <2> QED  BY <1>0, <2>1 DEF Attempts, Write
  <1>5. ~Return(c)
    BY <1>0 DEF Return, Goes
  <1> QED  BY <1>1, <1>2, <1>3, <1>4, <1>5 DEF Other, Calling

\* What is given up was on the connection.
LEMMA CopyStep ==
    ASSUME Types, Types', NEW c, Callers = {c}, ClientInv(c), ClientInv(c)', ExecTypeOK,
           Other(c), Follow, NEW i \in Ids
    PROVE  /\ late'[i] \in Nat /\ executions'[i] = executions[i]
           /\ late'[i] + Outstanding(c, i)'
                <= late[i] + Outstanding(c, i) + IF Write(c) /\ i = id[c] THEN 1 ELSE 0
           /\ late'[i] > 0 => late[i] > 0 \/ \E f \in Fds : i \in ToSet(stream[f].requests)
  <1>0. /\ late[i] \in Nat /\ executions' = executions
        /\ late'[i] = IF GivenUp(i) THEN late[i] + 1 ELSE late[i]
    BY DEF ExecTypeOK, Follow
  <1>1. Waiting(c)' => /\ mSockets'[1].fd \in Fds /\ pc'[c] = "select"
                       /\ stream'[mSockets'[1].fd].requests # <<>>
    BY DEF Waiting, ClientInv, OnlyConnection
  <1>2. CASE GivenUp(i)
    <2>1. PICK f \in Fds : i \in ToSet(stream[f].requests) /\ stream'[f].requests = <<>>
      BY <1>2 DEF GivenUp
    <2>2. Waiting(c) /\ f = mSockets[1].fd /\ i = id[c]
      <3>1. stream[f].requests # <<>>
        BY <2>1, CopiesOf
      <3>2. Waiting(c) /\ f = mSockets[1].fd /\ stream[f].requests = <<id[c]>>
        BY <3>1, Copies
      <3> QED  BY <2>1, <3>2, CopiesOf
    <2>3. ~Write(c)
      BY <2>2 DEF Waiting, Write
    <2>4. ~Waiting(c)'
      <3>1. \A g \in Fds : stream'[g].requests = <<>>
        BY <2>1, <2>2, <2>3, RequestsStep, Copies DEF Types
      <3> QED  BY <1>1, <3>1
    <2> QED  BY <1>0, <1>2, <2>1, <2>2, <2>3, <2>4 DEF Outstanding
  <1>3. CASE ~GivenUp(i)
    <2>1. Waiting(c)' /\ i = id'[c] => i = id[c] /\ (Waiting(c) \/ Write(c))
      <3> SUFFICES ASSUME Waiting(c)', i = id'[c]
                   PROVE  i = id[c] /\ (Waiting(c) \/ Write(c))
        OBVIOUS
      <3>1. id'[c] = id[c]
        BY <1>1, AttemptsStep
      <3>2. stream[mSockets'[1].fd].requests # <<>> \/ Write(c)
        BY <1>1, RequestsStep DEF Types
      <3> QED  BY <1>1, <3>1, <3>2, Copies
    <2>2. Outstanding(c, i)' <= Outstanding(c, i) + IF Write(c) /\ i = id[c] THEN 1 ELSE 0
      BY <2>1 DEF Outstanding
    <2>3. Outstanding(c, i) \in Nat /\ Outstanding(c, i)' \in Nat
      BY DEF Outstanding
    <2> QED  BY <1>0, <1>3, <2>2, <2>3
  <1> QED  BY <1>2, <1>3

LEMMA BudgetStep ==
    ASSUME Types, Types', NEW c, Callers = {c}, ClientInv(c), ClientInv(c)', ExecTypeOK,
           Budget(c), Other(c), Follow
    PROVE  Budget(c)'
  <1>0. /\ \A i \in Ids : /\ late[i] \in Nat /\ late'[i] \in Nat /\ executions[i] \in Nat
                          /\ executions'[i] = executions[i]
                          /\ Outstanding(c, i) \in Nat /\ Outstanding(c, i)' \in Nat
        /\ Attempts(c) \in Nat /\ Attempts(c)' \in Nat /\ Attempts(c)' <= MaxRetries + 1
        /\ MaxRetries \in Nat
    <2>1. /\ MaxRetries \in Nat /\ retries[c] \in 0 .. MaxRetries
          /\ retries'[c] \in 0 .. MaxRetries
      BY MaxRetriesAssumption DEF Types, TypeOK
    <2> QED  BY <2>1, CopyStep DEF ExecTypeOK, Outstanding, Attempts
  <1>1. ASSUME pc'[c] # "idle"
        PROVE  executions'[id'[c]] + late'[id'[c]] + Outstanding(c, id[c])' <= Attempts(c)'
    <2>1. /\ pc[c] # "idle" /\ id'[c] = id[c] /\ id[c] \in Ids
          /\ Attempts(c)' >= Attempts(c) + IF Write(c) THEN 1 ELSE 0
      BY <1>1, AttemptsStep DEF Types
    <2>2. late'[id[c]] + Outstanding(c, id[c])'
            <= late[id[c]] + Outstanding(c, id[c]) + IF Write(c) THEN 1 ELSE 0
      BY <2>1, CopyStep
    <2>3. executions[id[c]] + late[id[c]] + Outstanding(c, id[c]) <= Attempts(c)
      BY <2>1 DEF Budget
    <2> QED  BY <1>0, <2>1, <2>2, <2>3
  <1>2. ASSUME NEW i \in Ids
        PROVE  executions'[i] + late'[i] + Outstanding(c, i)' <= MaxRetries + 1
    <2>1. CASE pc'[c] # "idle" /\ i = id'[c]
      BY <1>0, <1>1, <2>1
    <2>2. CASE ~(pc'[c] # "idle" /\ i = id'[c])
      <3>1. ~(Write(c) /\ i = id[c])
        BY <2>2 DEF Types, TypeOK, Write, Goes, CloseAndRetry, Returns
      <3>2. late'[i] + Outstanding(c, i)' <= late[i] + Outstanding(c, i)
        BY <1>0, <3>1, CopyStep
      <3>3. executions[i] + late[i] + Outstanding(c, i) <= MaxRetries + 1
        BY DEF Budget
      <3> QED  BY <1>0, <3>2, <3>3
    <2> QED  BY <2>1, <2>2
  <1> QED  BY <1>1, <1>2 DEF Budget

\* Where a reply is awaited or read, the connection and what the server has begun
\* are as before, or less.
LEMMA RepliesStep ==
    ASSUME Types, Types', NEW c, Callers = {c}, ClientInv(c), Other(c),
           pc'[c] \in {"select", "status", "rest"}
    PROVE  /\ mSockets' = mSockets /\ id' = id /\ pc[c] # "connecting"
           /\ \A g \in Fds : /\ stream'[g].serving \in {stream[g].serving, NoId}
                             /\ stream'[g].replies # <<>> =>
                                   stream[g].replies # <<>> \/ stream[g].serving # NoId
  <1>1. stream \in [Fds -> Streams] /\ \A g \in Fds : stream[g] \in Streams
    BY DEF Types, TypeOK, Streams
  <1>2. CASE \E f \in Fds : Completes(f) \/ Ends(f)
    <2>1. UNCHANGED <<mSockets, id, pc>>
      BY <1>2 DEF Completes, Ends, callers
    <2>2. pc[c] # "connecting"
      BY <2>1
    <2>3. ASSUME NEW f \in Fds, Completes(f), NEW g \in Fds
          PROVE  /\ stream'[g].serving \in {stream[g].serving, NoId}
                 /\ stream'[g].replies # <<>> =>
                       stream[g].replies # <<>> \/ stream[g].serving # NoId
      BY <1>1, <2>3 DEF Completes, Streams
    <2>4. ASSUME NEW f \in Fds, Ends(f), NEW g \in Fds
          PROVE  /\ stream'[g].serving \in {stream[g].serving, NoId}
                 /\ stream'[g].replies # <<>> =>
                       stream[g].replies # <<>> \/ stream[g].serving # NoId
      BY <1>1, <2>4 DEF Ends, Streams
    <2> QED  BY <1>2, <2>1, <2>2, <2>3, <2>4
  <1>3. CASE Calling(c)
    <2>1. Write(c) \/ Select(c) \/ ReadStatus(c) \/ ReadRest(c)
      BY <1>3 DEF Types, TypeOK, Calling, Pick, Unlock, Connect, Connected, Return, Goes, Returns
    <2>2. /\ mSockets' = mSockets /\ id' = id /\ pc[c] # "connecting"
          /\ \/ Write(c) /\ \E f \in Fds : \E q : stream' = [stream EXCEPT ![f].requests = q]
             \/ stream' = stream
             \/ Received(c) /\ Replies(c) # <<>>
      <3>1. CASE Write(c)
        BY <3>1 DEF Types, TypeOK, Write, Goes, CloseAndRetry, Returns, StateOf
      <3>2. CASE Select(c) \/ ReadStatus(c) \/ ReadRest(c)
        BY <3>2 DEF Types, TypeOK, Select, ReadStatus, ReadRest, Goes, CloseAndRetry, Returns
      <3> QED  BY <2>1, <3>1, <3>2
    <2>3. ASSUME NEW f \in Fds, NEW q, stream' = [stream EXCEPT ![f].requests = q], NEW g \in Fds
          PROVE  stream'[g].serving = stream[g].serving /\ stream'[g].replies = stream[g].replies
      BY <1>1, <2>3 DEF Streams
    <2>4. ASSUME Received(c), Replies(c) # <<>>, NEW g \in Fds
          PROVE  /\ stream'[g].serving = stream[g].serving
                 /\ stream'[g].replies # <<>> => stream[g].replies # <<>>
      <3>1. Fd(c) \in Fds /\ stream[Fd(c)].replies # <<>>
        BY <2>4 DEF Replies
      <3> QED  BY <1>1, <2>4, <3>1 DEF Received, Streams
    <2> QED  BY <2>2, <2>3, <2>4
  <1> QED  BY <1>2, <1>3 DEF Other

LEMMA AnsweredStep ==
    ASSUME Types, Types', NEW c, Callers = {c}, ClientInv(c), ClientInv(c)', Answered(c),
           Other(c), executions' = executions
    PROVE  Answered(c)'
  <1>0. /\ pc \in [Callers -> {"idle", "pick", "unlock", "connect", "connecting", "write",
                               "select", "status", "rest", "return"}]
        /\ id \in [Callers -> Ids \union {NoId}] /\ reply \in [Callers -> Ids \union {NoId}]
    BY DEF Types, TypeOK
  <1>1. pc'[c] = "idle" => id'[c] = NoId
    <2>1. CASE Return(c)
      BY <1>0, <2>1 DEF Return
    <2>2. CASE Other(c) /\ ~Return(c)
      <3>1. pc'[c] = "idle" => pc[c] = "idle" /\ id' = id
        BY <1>0, <2>2
           DEF Other, Calling, Pick, Unlock, Connect, Connected, Write, Select, ReadStatus,
               ReadRest, Goes, Returns, CloseAndRetry, Completes, Ends, callers
      <3> QED  BY <3>1 DEF Answered
    <2> QED  BY <2>1, <2>2
  <1>2. pc'[c] # "return" => reply'[c] = NoId
    <2>1. CASE Return(c)
      BY <1>0, <2>1 DEF Return
    <2>2. CASE Other(c) /\ ~Return(c)
      <3>1. pc'[c] # "return" => pc[c] # "return" /\ reply' = reply
        BY <1>0, <2>2
           DEF Other, Calling, Pick, Unlock, Connect, Connected, Write, Select, ReadStatus,
               ReadRest, Goes, Returns, CloseAndRetry, Completes, Ends, callers
      <3> QED  BY <3>1 DEF Answered
    <2> QED  BY <2>1, <2>2
  <1>3. Live(c)' => LET x == stream'[mSockets'[1].fd]
                    IN x.serving # NoId \/ x.replies # <<>> => executions'[id'[c]] >= 1
    <2> DEFINE x == stream'[mSockets'[1].fd]
    <2> SUFFICES ASSUME Live(c)', x.serving # NoId \/ x.replies # <<>>
                 PROVE  executions'[id'[c]] >= 1
      OBVIOUS
    <2>1. mSockets'[1].fd \in Fds
      BY DEF ClientInv, OnlyConnection
    <2>2. pc'[c] \in {"select", "status", "rest"}
      <3> SUFFICES ASSUME pc'[c] \notin {"select", "status", "rest"}  PROVE FALSE
        OBVIOUS
      <3>1. x \in {Quiet("open"), Quiet("ended")}
        BY DEF ClientInv, Exchange
      <3> QED  BY <3>1, LinkParts
    <2>3. /\ mSockets' = mSockets /\ id' = id /\ pc[c] # "connecting"
          /\ LET y == stream[mSockets[1].fd] IN y.serving # NoId \/ y.replies # <<>>
      BY <2>1, <2>2, RepliesStep
    <2>4. Live(c)
      BY <2>2, <2>3 DEF Live
    <2> QED  BY <2>3, <2>4 DEF Answered
  <1>4. pc'[c] = "return" /\ reply'[c] = id'[c] => executions'[id'[c]] >= 1
    <2> SUFFICES ASSUME pc'[c] = "return", reply'[c] = id'[c]
                 PROVE  executions'[id'[c]] >= 1
      OBVIOUS
    <2>1. id'[c] = id[c] /\ id[c] \in Ids
      BY AttemptsStep DEF Types
    <2>2. CASE pc[c] = "return"
      <3>1. reply' = reply
        BY <1>0, <2>2
           DEF Other, Calling, Pick, Unlock, Connect, Connected, Write, Select, ReadStatus,
               ReadRest, Return, Goes, Completes, Ends, callers
      <3> QED  BY <2>1, <2>2, <3>1 DEF Answered
    <2>3. CASE pc[c] # "return"
      <3>1. reply'[c] # reply[c]
        BY <2>1, <2>3, NoIdAssumption DEF Answered
      <3>2. ReadRest(c) /\ Replies(c) # <<>>
        BY <1>0, <3>1
           DEF Other, Calling, Pick, Unlock, Connect, Connected, Write, Select, ReadStatus,
               ReadRest, Return, Completes, Ends, callers, Answered, Goes
      <3>3. Live(c) /\ stream[mSockets[1].fd].replies # <<>>
        BY <3>2, ReadFacts DEF ReadRest
      <3> QED  BY <2>1, <3>3 DEF Answered
    <2> QED  BY <2>2, <2>3
  <1> QED  BY <1>1, <1>2, <1>3, <1>4 DEF Answered

LEMMA MakeStep ==
    ASSUME Types, Types', NEW c, Callers = {c}, ClientInv(c), ClientInv(c)', ExecInv(c), Make(c)
    PROVE  ExecInv(c)' /\ id'[c] \in Ids /\ late[id'[c]] = 0
  <1>0. /\ pc[c] = "idle" /\ pc'[c] = "pick" /\ id'[c] \in Ids /\ reply'[c] = NoId
        /\ retries'[c] = 0 /\ late' = late /\ late[id'[c]] = 0
        /\ executions' = [executions EXCEPT ![id'[c]] = 0]
    BY DEF Types, TypeOK, Make, Request, Goes
  <1>1. ExecTypeOK'
    BY <1>0 DEF ExecInv, ExecTypeOK
  <1>2. Budget(c)'
    <2>1. Attempts(c)' = 0 /\ \A i \in Ids : Outstanding(c, i)' = 0
      BY <1>0 DEF Attempts, Outstanding, Waiting
    <2>2. ASSUME NEW i \in Ids
          PROVE  executions'[i] + late'[i] + Outstanding(c, i)' <= MaxRetries + 1
      <3>1. executions[i] + late[i] + Outstanding(c, i) <= MaxRetries + 1
            /\ executions[i] \in Nat /\ late[i] \in Nat /\ Outstanding(c, i) \in Nat
        BY DEF ExecInv, Budget, ExecTypeOK, Outstanding
      <3>2. executions'[i] = IF i = id'[c] THEN 0 ELSE executions[i]
        BY <1>0 DEF ExecInv, ExecTypeOK
      <3> QED  BY <1>0, <2>1, <3>1, <3>2, MaxRetriesAssumption
    <2>3. executions'[id'[c]] + late'[id'[c]] + Outstanding(c, id[c])' <= Attempts(c)'
      BY <1>0, <2>1 DEF ExecInv, ExecTypeOK
    <2> QED  BY <2>2, <2>3 DEF Budget
  <1>3. Answered(c)'
    <2>1. Live(c)' => LET x == stream'[mSockets'[1].fd]
                      IN x.serving = NoId /\ x.replies = <<>>
      <3>1. Live(c)' => stream'[mSockets'[1].fd] \in {Quiet("open"), Quiet("ended")}
        BY <1>0 DEF ClientInv, Exchange
      <3> QED  BY <3>1, LinkParts
    <2> QED  BY <1>0, <2>1 DEF Answered
  <1> QED  BY <1>0, <1>1, <1>2, <1>3 DEF ExecInv

\* The server executes what was on the connection.
LEMMA ExecuteStep ==
    ASSUME Types, Types', NEW c, Callers = {c}, ClientInv(c), ClientInv(c)', ExecInv(c),
           NEW f \in Fds, Execute(f)
    PROVE  /\ ExecInv(c)'
           /\ id[c] \in Ids /\ executions[id[c]] <= MaxRetries
           /\ executions' = [executions EXCEPT ![id[c]] = @ + 1]
  <1>0. UNCHANGED <<mSockets, pc, id, retries, reply, late>> /\ stream[f].requests # <<>>
    BY DEF Execute, Begins, callers
  <1>1. Waiting(c) /\ f = mSockets[1].fd /\ stream[f].requests = <<id[c]>>
    BY <1>0, Copies
  <1>2. id[c] \in Ids /\ Head(stream[f].requests) = id[c] /\ Tail(stream[f].requests) = <<>>
    <2>1. id[c] \in Ids
      BY <1>1 DEF Types, Waiting
    <2> QED  BY <1>1, <2>1, OneOrTwo
  <1>3. executions' = [executions EXCEPT ![id[c]] = @ + 1]
    BY <1>2 DEF Execute
  <1>4. stream'[f].requests = <<>>
    <2>1. stream \in [Fds -> Streams]
      BY DEF Types, TypeOK, Streams
    <2> QED  BY <1>2, <2>1 DEF Execute, Begins, Streams
  <1>5. /\ \A i \in Ids : Outstanding(c, i)' = 0
        /\ Attempts(c)' = Attempts(c) /\ Outstanding(c, id[c]) = 1
    BY <1>0, <1>1, <1>4 DEF Outstanding, Waiting, Attempts
  <1>6. ASSUME NEW i \in Ids
        PROVE  /\ executions'[i] + late'[i] + Outstanding(c, i)'
                     <= executions[i] + late[i] + Outstanding(c, i)
               /\ executions[i] \in Nat /\ late[i] \in Nat /\ Outstanding(c, i) \in Nat
               /\ executions'[i] \in Nat
    <2>1. executions[i] \in Nat /\ late[i] \in Nat /\ Outstanding(c, i) \in Nat
      BY DEF ExecInv, ExecTypeOK, Outstanding
    <2>2. executions'[i] = IF i = id[c] THEN executions[i] + 1 ELSE executions[i]
      BY <1>3 DEF ExecInv, ExecTypeOK
    <2> QED  BY <1>0, <1>5, <2>1, <2>2
  <1>7. ExecTypeOK'
    BY <1>0, <1>2, <1>3 DEF ExecInv, ExecTypeOK
  <1>8. Budget(c)'
    <2>1. ASSUME NEW i \in Ids
          PROVE  executions'[i] + late'[i] + Outstanding(c, i)' <= MaxRetries + 1
      <3>1. executions[i] + late[i] + Outstanding(c, i) <= MaxRetries + 1
        BY DEF ExecInv, Budget
      <3> QED  BY <1>0, <1>5, <1>6, <3>1, MaxRetriesAssumption
    <2>2. executions'[id[c]] + late'[id[c]] + Outstanding(c, id[c])' <= Attempts(c)
      <3>1. executions[id[c]] + late[id[c]] + Outstanding(c, id[c]) <= Attempts(c)
        BY <1>1 DEF ExecInv, Budget, Waiting
      <3>2. Attempts(c) \in Nat
        BY MaxRetriesAssumption DEF Attempts, Types, TypeOK
      <3> QED  BY <1>0, <1>2, <1>5, <1>6, <3>1, <3>2
    <2> QED  BY <1>0, <1>5, <2>1, <2>2 DEF Budget
  <1>9. Answered(c)'
    <2>1. executions'[id[c]] >= 1
      BY <1>2, <1>3 DEF ExecInv, ExecTypeOK
    <2> QED  BY <1>0, <1>1, <2>1 DEF ExecInv, Answered, Waiting
  <1>10. executions[id[c]] <= MaxRetries
    <2>1. executions[id[c]] + late[id[c]] + 1 <= MaxRetries + 1
      BY <1>2, <1>5 DEF ExecInv, Budget
    <2> QED  BY <1>2, <1>6, <2>1, MaxRetriesAssumption
  <1> QED  BY <1>2, <1>3, <1>7, <1>8, <1>9, <1>10 DEF ExecInv

\* It executes a copy that was given up, or never will.
LEMMA ExecuteLateStep ==
    ASSUME Types, NEW c, Callers = {c}, ClientInv(c), ExecInv(c), NEW i \in Ids, ExecuteLate(i)
    PROVE  /\ ExecInv(c)'
           /\ late[i] > 0 /\ executions[i] <= MaxRetries
           /\ \A j \in Ids : late'[j] <= late[j] /\ late[j] \in Nat /\ late'[j] \in Nat
  <1>0. UNCHANGED <<mSockets, pc, id, retries, reply, stream>>
    BY DEF ExecuteLate, vars, callers
  <1>1. Attempts(c)' = Attempts(c) /\ \A j \in Ids : Outstanding(c, j)' = Outstanding(c, j)
    BY <1>0 DEF Attempts, Outstanding, Waiting, Live
  <1>2. ExecTypeOK' /\ late[i] > 0
    BY DEF ExecInv, ExecTypeOK, ExecuteLate
  <1>3. ASSUME NEW j \in Ids
        PROVE  /\ executions[j] \in Nat /\ late[j] \in Nat /\ Outstanding(c, j) \in Nat
               /\ executions'[j] \in Nat /\ late'[j] \in Nat
               /\ late'[j] <= late[j] /\ executions'[j] >= executions[j]
               /\ executions'[j] + late'[j] <= executions[j] + late[j]
    <2>1. executions[j] \in Nat /\ late[j] \in Nat /\ Outstanding(c, j) \in Nat
      BY DEF ExecInv, ExecTypeOK, Outstanding
    <2>2. late'[j] = IF j = i THEN late[j] - 1 ELSE late[j]
      BY DEF ExecInv, ExecTypeOK, ExecuteLate
    <2>3. \/ executions'[j] = IF j = i THEN executions[j] + 1 ELSE executions[j]
          \/ executions'[j] = executions[j]
      BY DEF ExecInv, ExecTypeOK, ExecuteLate
    <2> QED  BY <1>2, <2>1, <2>2, <2>3
  <1>4. Budget(c)'
    <2>1. ASSUME NEW j \in Ids
          PROVE  executions'[j] + late'[j] + Outstanding(c, j)' <= MaxRetries + 1
      <3>1. executions[j] + late[j] + Outstanding(c, j) <= MaxRetries + 1
        BY DEF ExecInv, Budget
      <3> QED  BY <1>1, <1>3, <3>1, MaxRetriesAssumption
    <2>2. ASSUME pc[c] # "idle"
          PROVE  executions'[id[c]] + late'[id[c]] + Outstanding(c, id[c])' <= Attempts(c)
      <3>1. /\ executions[id[c]] + late[id[c]] + Outstanding(c, id[c]) <= Attempts(c)
            /\ id[c] \in Ids
        BY <2>2 DEF ExecInv, Budget, Types
      <3>2. Attempts(c) \in Nat
        BY MaxRetriesAssumption DEF Attempts, Types, TypeOK
      <3>3. /\ Outstanding(c, id[c])' = Outstanding(c, id[c])
            /\ executions'[id[c]] + late'[id[c]] <= executions[id[c]] + late[id[c]]
            /\ Outstanding(c, id[c]) \in Nat /\ executions'[id[c]] \in Nat
            /\ late'[id[c]] \in Nat /\ executions[id[c]] \in Nat /\ late[id[c]] \in Nat
        BY <1>0, <1>1, <1>3, <3>1
      <3> QED  BY <3>1, <3>2, <3>3
    <2> QED  BY <1>0, <1>1, <2>1, <2>2 DEF Budget
  <1>5. Answered(c)'
    <2>1. id[c] \in Ids /\ executions[id[c]] >= 1 => executions'[id[c]] >= 1
      BY <1>3
    <2>2. pc[c] # "idle" => id[c] \in Ids
      BY DEF Types
    <2>3. pc[c] = "idle" => reply[c] = NoId /\ (Live(c) =>
             LET x == stream[mSockets[1].fd] IN x.serving = NoId /\ x.replies = <<>>)
      BY ExchangeCases, LinkParts DEF ExecInv, Answered
    <2>4. CASE pc[c] = "idle"
      BY <1>0, <2>3, <2>4 DEF ExecInv, Answered, Live
    <2>5. CASE pc[c] # "idle"
      BY <1>0, <2>1, <2>2, <2>5 DEF ExecInv, Answered, Live
    <2> QED  BY <2>4, <2>5
  <1>6. executions[i] <= MaxRetries
    <2>1. executions[i] + late[i] + Outstanding(c, i) <= MaxRetries + 1
      BY DEF ExecInv, Budget
    <2> QED  BY <1>2, <1>3, <2>1, MaxRetriesAssumption
  <1> QED  BY <1>2, <1>3, <1>4, <1>5, <1>6 DEF ExecInv

LEMMA ExecInvStep ==
    ASSUME Types, Types', NEW c, Callers = {c}, ClientInv(c), ClientInv(c)', ExecInv(c),
           [ExecNext]_execVars
    PROVE  ExecInv(c)'
  <1>1. CASE UNCHANGED execVars
    BY <1>1
       DEF execVars, vars, callers, ExecInv, ExecTypeOK, Budget, Answered, Outstanding, Waiting,
           Attempts, Live
  <1>2. CASE Make(c)
    BY <1>2, MakeStep
  <1>3. CASE Other(c) /\ Follow
    <2>1. ExecTypeOK'
      BY <1>3 DEF ExecInv, ExecTypeOK, Follow
    <2>2. Budget(c)' /\ Answered(c)'
      BY <1>3, BudgetStep, AnsweredStep DEF ExecInv, Follow
    <2> QED  BY <2>1, <2>2 DEF ExecInv
  <1>4. CASE \E f \in Fds : Execute(f)
    BY <1>4, ExecuteStep
  <1>5. CASE \E i \in Ids : ExecuteLate(i)
    BY <1>5, ExecuteLateStep
  <1> QED  BY <1>1, <1>2, <1>3, <1>4, <1>5 DEF ExecNext, Other

LEMMA ExecInvInit ==
    ASSUME NEW c, Callers = {c}, ExecInit
    PROVE  ExecInv(c)
  <1>1. c \in Callers /\ pc[c] = "idle" /\ id[c] = NoId /\ reply[c] = NoId /\ ~Live(c)
    BY NumSocketsAssumption DEF ExecInit, Init, Live, Sockets
  <1>2. ExecTypeOK
    BY DEF ExecInit, ExecTypeOK
  <1>3. Budget(c)
    BY <1>1, MaxRetriesAssumption DEF ExecInit, Budget, Outstanding, Waiting
  <1>4. Answered(c)
    BY <1>1 DEF Answered
  <1> QED  BY <1>2, <1>3, <1>4 DEF ExecInv

LEMMA ExecSafety ==
    ASSUME NEW c, Callers = {c}
    PROVE  ExecSpec => [](Types /\ ClientInv(c) /\ ExecInv(c))
  <1>1. ExecInit => Types /\ ClientInv(c) /\ ExecInv(c)
    BY InvInit, TypesInit, ExecInvInit DEF ExecInit
  <1>2. Types /\ ClientInv(c) /\ ExecInv(c) /\ [ExecNext]_execVars
          => (Types /\ ClientInv(c) /\ ExecInv(c))'
    BY ClientStep, TypesStep, ExecSteps, ExecInvStep
  <1> QED  BY <1>1, <1>2, PTL DEF ExecSpec

LEMMA ExecInvImplies ==
    ASSUME Types, NEW c, Callers = {c}, ExecInv(c)
    PROVE  ExecutedAtMost /\ AnsweredOnce
  <1>1. ExecutedAtMost
    <2>1. ASSUME NEW i \in Ids
          PROVE  executions[i] <= MaxRetries + 1
      <3>1. executions[i] + late[i] + Outstanding(c, i) <= MaxRetries + 1
        BY DEF ExecInv, Budget
      <3>2. executions[i] \in Nat /\ late[i] \in Nat /\ Outstanding(c, i) \in Nat
        BY DEF ExecInv, ExecTypeOK, Outstanding
      <3> QED  BY <3>1, <3>2, MaxRetriesAssumption
    <2> QED  BY <2>1 DEF ExecutedAtMost
  <1>2. AnsweredOnce
    <2>1. ASSUME pc[c] = "return", reply[c] = id[c]
          PROVE  executions[id[c]] >= 1 /\ executions[id[c]] + late[id[c]] <= retries[c] + 1
      <3>1. /\ executions[id[c]] >= 1 /\ id[c] \in Ids
            /\ executions[id[c]] + late[id[c]] + Outstanding(c, id[c]) <= retries[c] + 1
        BY <2>1 DEF ExecInv, Answered, Budget, Attempts, Types
      <3>2. /\ Outstanding(c, id[c]) = 0 /\ executions[id[c]] \in Nat /\ late[id[c]] \in Nat
        BY <2>1, <3>1 DEF Outstanding, Waiting, ExecInv, ExecTypeOK
      <3> QED  BY <3>1, <3>2
    <2> QED  BY <2>1 DEF AnsweredOnce
  <1> QED  BY <1>1, <1>2

\* However a request is lost, timed out or sent again, the server executes it at most
\* once for each time it may be sent, also when doRequest has long returned.
THEOREM ExecutionsBounded ==
    ASSUME Alone
    PROVE  ExecSpec => []ExecutedAtMost
  <1>1. PICK c : Callers = {c}
    BY DEF Alone
  <1>2. Types /\ ClientInv(c) /\ ExecInv(c) => ExecutedAtMost
    BY <1>1, ExecInvImplies
  <1>3. ExecSpec => [](Types /\ ClientInv(c) /\ ExecInv(c))
    BY <1>1, ExecSafety
  <1> QED  BY <1>2, <1>3, PTL

\* A request that got its reply was executed; when it was sent only once, exactly once,
\* and no copy of it is left that could be executed again.
THEOREM AnsweredExecutedOnce ==
    ASSUME Alone
    PROVE  ExecSpec => []AnsweredOnce
  <1>1. PICK c : Callers = {c}
    BY DEF Alone
  <1>2. Types /\ ClientInv(c) /\ ExecInv(c) => AnsweredOnce
    BY <1>1, ExecInvImplies
  <1>3. ExecSpec => [](Types /\ ClientInv(c) /\ ExecInv(c))
    BY <1>1, ExecSafety
  <1> QED  BY <1>2, <1>3, PTL

-----------------------------------------------------------------------------
(* A call is a call of RemoteCall.                                             *)
LEMMA CopiesAfter ==
    ASSUME NEW c, ClientInv(c)', NEW g \in Fds, stream'[g].requests # <<>>
    PROVE  stream'[g].requests = <<id'[c]>>
  <1>1. Live(c)' /\ g = mSockets'[1].fd
    <2>1. stream'[g] # Unused
      BY DEF Unused
    <2> QED  BY <2>1 DEF ClientInv, OnlyConnection
  <1>2. stream'[g] = Link("open", <<id'[c]>>, NoId, <<>>)
    <2>1. CASE pc'[c] \in {"select", "status"}
      BY <1>1, <2>1, LinkParts DEF ClientInv, Exchange
    <2>2. CASE pc'[c] = "rest"
      BY <1>1, <2>2, LinkParts DEF ClientInv, Exchange
    <2>3. CASE pc'[c] \notin {"select", "status", "rest"}
      BY <1>1, <2>3, LinkParts DEF ClientInv, Exchange
    <2> QED  BY <2>1, <2>2, <2>3
  <1> QED  BY <1>2, LinkFields

LEMMA TheCallerIs ==
    ASSUME NEW c, Callers = {c}
    PROVE  TheCaller = c
  BY DEF TheCaller

\* What the server may still execute: the call in progress, and what was given up.
LEMMA KnownAfter ==
    ASSUME NEW c, Callers = {c}, ClientInv(c)'
    PROVE  \A i \in knownBar' : i \in Ids /\ (i = id'[c] \/ late'[i] > 0)
  <1> SUFFICES ASSUME NEW i \in knownBar'
               PROVE  i \in Ids /\ (i = id'[c] \/ late'[i] > 0)
    OBVIOUS
  <1>1. /\ i \in Ids
        /\ i = id'[c] \/ late'[i] > 0 \/ \E f \in Fds : i \in ToSet(stream'[f].requests)
    BY TheCallerIs DEF knownBar
  <1>2. ASSUME NEW f \in Fds, i \in ToSet(stream'[f].requests)
        PROVE  i = id'[c]
    <2>1. stream'[f].requests = <<id'[c]>>
      <3>1. stream'[f].requests # <<>>
        BY <1>2, CopiesOf
      <3> QED  BY <3>1, CopiesAfter
    <2>2. ToSet(stream'[f].requests) = {id'[c]}
      BY <2>1, CopiesOf
    <2> QED  BY <1>2, <2>2
  <1> QED  BY <1>1, <1>2

LEMMA ForgetsStep ==
    ASSUME Types, Types', NEW c, Callers = {c}, ClientInv(c), ClientInv(c)', ExecInv(c),
           ExecInv(c)', Other(c), Follow
    PROVE  Remote!Forgets
  <1>0. TheCaller = c
    BY TheCallerIs
  <1>1. ASSUME NEW i \in knownBar'
        PROVE  i \in knownBar
    <2>1. i \in Ids /\ (i = id'[c] \/ late'[i] > 0)
      BY <1>1, KnownAfter
    <2>2. CASE i = id'[c]
      <3>1. pc'[c] # "idle"
        BY <2>1, <2>2, NoIdAssumption DEF ExecInv, Answered
      <3>2. id'[c] = id[c]
        BY <3>1, AttemptsStep
      <3> QED  BY <1>0, <2>1, <2>2, <3>2 DEF knownBar
    <2>3. CASE late'[i] > 0
      <3>1. late[i] > 0 \/ \E f \in Fds : i \in ToSet(stream[f].requests)
        BY <2>1, <2>3, CopyStep DEF ExecInv
      <3> QED  BY <2>1, <3>1 DEF knownBar
    <2> QED  BY <2>1, <2>2, <2>3
  <1>2. id'[c] # NoId => id'[c] \in knownBar'
    BY <1>0 DEF knownBar, Types, TypeOK
  <1> QED  BY <1>0, <1>1, <1>2 DEF Remote!Forgets

\* A step of the call begins, ends, or returns it, or leaves it in progress.
LEMMA CallStep ==
    ASSUME Types, Types', NEW c, Callers = {c}, ClientInv(c), ClientInv(c)', ExecInv(c),
           ExecInv(c)', Other(c), Follow
    PROVE  Remote!Next
  <1>0. TheCaller = c /\ executions' = executions /\ Remote!Forgets
    BY TheCallerIs, ForgetsStep DEF Follow
  <1>1. /\ pc \in [Callers -> {"idle", "pick", "unlock", "connect", "connecting", "write",
                               "select", "status", "rest", "return"}]
        /\ ok \in [Callers -> BOOLEAN] /\ ok' \in [Callers -> BOOLEAN]
    BY DEF Types, TypeOK
  <1>2. CASE pc'[c] = "idle"
    <2>1. CASE pc[c] = "return"
      <3>1. resultBar # "none" /\ resultBar' = "none" /\ id'[c] = NoId
        BY <1>0, <1>2, <2>1 DEF resultBar, ExecInv, Answered
      <3> QED  BY <1>0, <3>1 DEF Remote!Next, Remote!Return
    <2>2. CASE pc[c] # "return"
      <3>1. pc[c] = "idle"
        BY <1>1, <1>2, <2>2
           DEF Other, Calling, Pick, Unlock, Connect, Connected, Write, Select, ReadStatus,
               ReadRest, Return, Goes, Returns, CloseAndRetry, Completes, Ends, callers
      <3>2. id'[c] = id[c] /\ resultBar' = resultBar
        BY <1>0, <1>2, <3>1 DEF resultBar, ExecInv, Answered
      <3> QED  BY <1>0, <3>2 DEF Remote!Next, Remote!Forget
    <2> QED  BY <2>1, <2>2
  <1>3. CASE pc'[c] # "idle"
    <2>0. id'[c] = id[c] /\ id[c] \in Ids /\ id[c] # NoId
      BY <1>3, AttemptsStep, NoIdAssumption DEF Types
    <2>1. CASE pc[c] = "return"
      <3>1. UNCHANGED <<pc, ok>>
        BY <1>1, <1>3, <2>1
           DEF Other, Calling, Pick, Unlock, Connect, Connected, Write, Select, ReadStatus,
               ReadRest, Return, Goes, Completes, Ends, callers
      <3>2. resultBar' = resultBar
        BY <1>0, <3>1 DEF resultBar
      <3> QED  BY <1>0, <2>0, <3>2 DEF Remote!Next, Remote!Forget
    <2>2. CASE pc[c] # "return" /\ pc'[c] # "return"
      <3>1. resultBar' = resultBar
        BY <1>0, <2>2 DEF resultBar
      <3> QED  BY <1>0, <2>0, <3>1 DEF Remote!Next, Remote!Forget
    <2>3. CASE pc[c] # "return" /\ pc'[c] = "return" /\ ok'[c]
      <3>1. resultBar = "none" /\ resultBar' = "success"
        BY <1>0, <2>3 DEF resultBar
      <3>2. executions[id[c]] >= 1
        BY <1>0, <2>0, <2>3 DEF ClientInv, Accounted, ExecInv, Answered
      <3> QED  BY <1>0, <2>0, <3>1, <3>2 DEF Remote!Next, Remote!Succeed
    <2>4. CASE pc[c] # "return" /\ pc'[c] = "return" /\ ~ok'[c]
      <3>1. resultBar = "none" /\ resultBar' = "failure"
        BY <1>0, <2>4 DEF resultBar
      <3> QED  BY <1>0, <2>0, <3>1 DEF Remote!Next, Remote!Fail
    <2> QED  BY <2>1, <2>2, <2>3, <2>4
  <1> QED  BY <1>2, <1>3

LEMMA RemoteStep ==
    ASSUME Types, Types', NEW c, Callers = {c}, ClientInv(c), ClientInv(c)', ExecInv(c),
           ExecInv(c)', [ExecNext]_execVars
    PROVE  [Remote!Next]_(Remote!vars)
  <1>0. TheCaller = c
    BY TheCallerIs
  <1>1. CASE UNCHANGED execVars
    BY <1>1 DEF execVars, vars, callers, Remote!vars, resultBar, knownBar
  <1>2. CASE Make(c)
    <2>1. id'[c] \in Ids /\ late[id'[c]] = 0
      BY <1>2, MakeStep
    <2>2. /\ pc[c] = "idle" /\ pc'[c] = "pick" /\ late' = late /\ stream' = stream
          /\ executions' = [executions EXCEPT ![id'[c]] = 0] /\ id'[c] \notin InUse
      BY <1>2 DEF Types, TypeOK, Make, Request, Goes
    <2>3. id[c] = NoId
      BY <2>2 DEF ExecInv, Answered
    <2>4. id'[c] \notin knownBar
      <3>1. \A f \in Fds : id'[c] \notin ToSet(stream[f].requests)
        BY <2>2 DEF InUse, Carried
      <3> QED  BY <1>0, <2>1, <2>3, <3>1, NoIdAssumption DEF knownBar
    <2>5. knownBar' = knownBar \union {id'[c]}
      BY <1>0, <2>1, <2>2, <2>3, NoIdAssumption DEF knownBar
    <2>6. resultBar' = resultBar
      BY <1>0, <2>2 DEF resultBar
    <2> QED
      BY <1>0, <2>1, <2>2, <2>3, <2>4, <2>5, <2>6 DEF Remote!Next, Remote!Begin
  <1>3. CASE Other(c) /\ Follow
    BY <1>3, CallStep
  <1>4. ASSUME NEW f \in Fds, Execute(f)
        PROVE  Remote!Next
    <2>1. /\ id[c] \in Ids /\ executions[id[c]] <= MaxRetries
          /\ executions' = [executions EXCEPT ![id[c]] = @ + 1]
      BY <1>4, ExecuteStep
    <2>2. UNCHANGED <<pc, id, ok, late>>
      BY <1>4 DEF Execute, Begins, callers
    <2>3. id[c] \in knownBar /\ id[c] \in knownBar'
      BY <1>0, <2>1, <2>2 DEF knownBar
    <2>4. knownBar' \subseteq knownBar
      <3>1. \A i \in knownBar' : i \in Ids /\ (i = id[c] \/ late[i] > 0)
        BY <2>2, KnownAfter
      <3> QED  BY <2>3, <3>1 DEF knownBar
    <2>5. resultBar' = resultBar
      BY <1>0, <2>2 DEF resultBar
    <2> QED
      BY <1>0, <2>1, <2>2, <2>3, <2>4, <2>5 DEF Remote!Next, Remote!Execute, Remote!Forgets
  <1>5. ASSUME NEW i \in Ids, ExecuteLate(i)
        PROVE  Remote!Next
    <2>1. /\ late[i] > 0 /\ executions[i] <= MaxRetries
          /\ \A j \in Ids : late'[j] <= late[j] /\ late[j] \in Nat /\ late'[j] \in Nat
      BY <1>5, ExecuteLateStep
    <2>2. UNCHANGED <<pc, id, ok, stream>>
      BY <1>5 DEF ExecuteLate, vars, callers
    <2>3. i \in knownBar
      BY <2>1 DEF knownBar
    <2>4. knownBar' \subseteq knownBar
      <3>1. \A j \in Ids : late'[j] > 0 => late[j] > 0
        BY <2>1
      <3> QED  BY <2>2, <3>1 DEF knownBar
    <2>5. id'[c] # NoId => id'[c] \in knownBar'
      BY <1>0 DEF knownBar, Types, TypeOK
    <2>6. resultBar' = resultBar
      BY <1>0, <2>2 DEF resultBar
    <2>7. Remote!Forgets
      BY <1>0, <2>4, <2>5 DEF Remote!Forgets
    <2>8. CASE executions' = [executions EXCEPT ![i] = @ + 1]
      BY <1>0, <2>1, <2>2, <2>3, <2>6, <2>7, <2>8 DEF Remote!Next, Remote!Execute
    <2>9. CASE executions' = executions
      BY <1>0, <2>2, <2>6, <2>7, <2>9 DEF Remote!Next, Remote!Forget
    <2> QED  BY <1>5, <2>8, <2>9 DEF ExecuteLate
  <1> QED  BY <1>1, <1>2, <1>3, <1>4, <1>5 DEF ExecNext, Other

LEMMA RemoteInit ==
    ASSUME NEW c, Callers = {c}, ExecInit
    PROVE  Remote!Init
  <1>0. TheCaller = c
    BY TheCallerIs
  <1>1. id[c] = NoId /\ pc[c] = "idle" /\ executions = [i \in Ids |-> 0]
    BY DEF ExecInit, Init
  <1>2. knownBar = {}
    <2>1. \A f \in Fds : ToSet(stream[f].requests) = {}
      BY CopiesOf DEF ExecInit, Init, Unused
    <2>2. \A i \in Ids : late[i] = 0
      BY DEF ExecInit
    <2> QED  BY <1>0, <1>1, <2>1, <2>2, NoIdAssumption DEF knownBar
  <1> QED  BY <1>0, <1>1, <1>2 DEF Remote!Init, resultBar

\* A call that succeeds was executed by the server, none is executed more often than it
\* may be sent, and only one that was given up, or the one in progress, may still be.
THEOREM ClientImplementsRemoteCall ==
    ASSUME Alone
    PROVE  ExecSpec => ImplementsRemoteCall
  <1>1. PICK c : Callers = {c}
    BY DEF Alone
  <1> DEFINE Inv == Types /\ ClientInv(c) /\ ExecInv(c)
  <1>2. ExecInit => Remote!Init
    BY <1>1, RemoteInit
  <1>3. Inv /\ Inv' /\ [ExecNext]_execVars => [Remote!Next]_(Remote!vars)
    BY <1>1, RemoteStep
  <1>4. ExecSpec => []Inv
    BY <1>1, ExecSafety
  <1> QED  BY <1>2, <1>3, <1>4, PTL DEF ExecSpec, ImplementsRemoteCall, Remote!Spec
=============================================================================
