-------------------------- MODULE TCPClientProofs ---------------------------
(***************************************************************************)
(* Proofs about TCPClient, for every number of calls, reconnects and       *)
(* chunks, every size of the socket's buffer and every set of kinds of     *)
(* call.                                                                   *)
(***************************************************************************)
EXTENDS TCPClient, TLAPS

-----------------------------------------------------------------------------
Ids == Nat \X Nat

Requests == [id : Ids, kind : Kinds \cup {"hello", "garbage"}]

Frames == [id : Ids, st : Statuses, part : Nat]

Places == {"idle", "write", "read", "retry", "dial", "hello", "helloRead"}

WireTypes ==
  /\ pc \in Places /\ call \in Nat /\ kind \in Kinds
  /\ attempt \in Nat /\ writes \in Nat /\ body \in Seq(Ids \X Nat)
  /\ conn \in {"open", "closed"} /\ peer \in {"up", "down"}
  /\ skew \in BOOLEAN /\ torn \in BOOLEAN /\ authed \in BOOLEAN
  /\ clean0 \in BOOLEAN
  /\ toServer \in Seq(Requests) /\ toClient \in Seq(Frames)
  /\ serving \in [id : Ids, kind : Kinds \cup {"garbage"}, part : Nat]
  /\ streaming \in Ids /\ applied \in Nat

\* Nothing is left of the connection before, and HELLO is still to be accepted.
Blank ==
  /\ ~skew /\ ~torn /\ serving = NotServing /\ streaming = NoReq
  /\ toServer = <<>> /\ toClient = <<>>

\* The answer to HELLO, or what is there before it.
Greeting ==
  /\ ~skew /\ ~torn /\ serving = NotServing /\ streaming = NoReq
  /\ Len(toServer) + Len(toClient) <= 1
  /\ toServer # <<>> => Head(toServer) = [id |-> NoReq, kind |-> "hello"]
  /\ toClient # <<>> /\ Head(toClient).st = "ok" => authed

(***************************************************************************)
(* The state of the connection at each place of the call.  Outside of      *)
(* connect an open connection is one whose HELLO was accepted, whatever    *)
(* errors ended the calls and the reconnects before.                       *)
(***************************************************************************)
ConnControl ==
  /\ conn = "closed" => Blank /\ peer = "down"
  /\ pc = "dial" => conn = "closed"
  /\ pc \in {"hello", "helloRead", "read"} => conn = "open"
  /\ pc = "hello" => Blank
  /\ pc = "helloRead" => Greeting
  /\ pc \notin {"dial", "hello", "helloRead"} /\ conn = "open" => authed

\* Requests are numbered by call; only HELLO and garbage have no number.
Numbered(c) ==
  {r \in Requests : IF r.kind \in Kinds THEN r.id[1] \in 1..c ELSE r.id = NoReq}

RequestIds ==
  /\ pc # "idle" => call >= 1
  /\ call = 0 => toServer = <<>>
  /\ \A i \in 1..Len(toServer) : toServer[i] \in Numbered(call)
  /\ serving.id = NoReq \/ serving.kind = "garbage" => serving = NotServing

Own == <<call, writes>>

(***************************************************************************)
(* A call that found the connection clean waits for its answer.  Either    *)
(* the server has not read the request, or it is answering it, or it has   *)
(* answered; whatever is on the way is in order and answers this request.  *)
(***************************************************************************)
OwnRequest ==
  /\ ~skew /\ ~torn
  /\ \/ toServer = <<>>
     \/ /\ toServer = <<[id |-> Own, kind |-> kind]>>
        /\ toClient = <<>> /\ body = <<>>
        /\ serving = NotServing /\ streaming = NoReq
  /\ serving = NotServing \/ (serving.id = Own /\ serving.kind = kind)
  /\ kind = "stream" => serving = NotServing
  /\ streaming = NoReq \/ (streaming = Own /\ kind = "stream")
  /\ \A i \in 1..Len(toClient) : toClient[i].id = Own
  /\ kind # "stream" /\ (serving # NotServing \/ toClient # <<>>) => applied >= 1

\* Send is answered by one frame.
OneFrame == toClient = <<>> \/ (Len(toClient) = 1 /\ serving = NotServing)

\* SendChunked by chunks that continue those it has appended, up to the last.
ChunksInOrder ==
  /\ \A i \in 1..Len(body) : body[i] = <<Own, i>>
  /\ serving # NotServing => serving.part = Len(body) + Len(toClient)
  /\ \A i \in 1..Len(toClient) : toClient[i].part = Len(body) + i
  /\ \A i \in 1..Len(toClient) :
       toClient[i].st \in {"ok", "err"} => i = Len(toClient) /\ serving = NotServing

OwnExchange ==
  /\ OwnRequest
  /\ kind = "send" => OneFrame
  /\ kind = "chunked" => ChunksInOrder

CleanCall ==
  clean0 => /\ pc = "write" => CleanForNext
            /\ pc = "read" => OwnExchange

(***************************************************************************)
(* One write for each attempt, and one request of the call on its way at   *)
(* most: a reconnect drops the connection that carried the one before.     *)
(***************************************************************************)
Retries ==
  kind # "stream" =>
    /\ attempt <= MaxReconnect /\ writes <= attempt + 1 /\ applied <= writes
    /\ pc \in {"write", "dial", "hello", "helloRead"} => writes <= attempt
    /\ InFlight # {} => pc # "write" /\ applied + 1 <= writes
    /\ \A i, j \in InFlight : i = j

-----------------------------------------------------------------------------
(***************************************************************************)
(* The steps of the model, without those that the groups of Next hide.     *)
(***************************************************************************)
CallSteps ==
  \/ Begin \/ EndContext \/ WriteRefused \/ Write \/ WriteClosed \/ WriteFail
  \/ ReadFail \/ ReadFrame \/ ReadGarbage \/ GiveUp \/ Exhausted

ConnectSteps ==
  \/ Reconnect \/ Dial \/ DialFail \/ Hello \/ HelloFail \/ HelloRejected
  \/ HelloAccepted

\* Every step is one of a call, of its reconnects, or of the server.
LEMMA NextCases ==
  ASSUME [Next]_vars
  PROVE  CallSteps \/ ConnectSteps \/ ServerStep \/ UNCHANGED vars
  BY DEF Next, ClientStep, DialStep, Finished, CallSteps, ConnectSteps

\* Frames are added at the end of a queue.
LEMMA QueueAppend ==
  ASSUME NEW S, NEW q \in Seq(S), NEW e \in S
  PROVE  /\ Append(q, e) \in Seq(S) /\ Append(q, e) # <<>>
         /\ Len(q) \in Nat /\ Len(Append(q, e)) = Len(q) + 1
         /\ \A i \in 1..Len(q) : Append(q, e)[i] = q[i]
         /\ Append(q, e)[Len(q) + 1] = e
  OBVIOUS

\* They are taken from its head.
LEMMA QueueTail ==
  ASSUME NEW S, NEW q \in Seq(S), q # <<>>
  PROVE  /\ Head(q) \in S /\ Head(q) = q[1] /\ 1 \in 1..Len(q)
         /\ Tail(q) \in Seq(S)
         /\ Len(q) \in Nat /\ Len(Tail(q)) = Len(q) - 1
         /\ \A i \in 1..Len(Tail(q)) : i + 1 \in 1..Len(q) /\ Tail(q)[i] = q[i + 1]
  OBVIOUS

\* A frame like those in the queue leaves them all alike.
LEMMA AllAppend ==
  ASSUME NEW S, NEW q \in Seq(S), NEW e \in S, NEW G, e \in G,
         \A i \in 1..Len(q) : q[i] \in G
  PROVE  \A i \in 1..Len(Append(q, e)) : Append(q, e)[i] \in G
<1> TAKE i \in 1..Len(Append(q, e))
<1>1. i \in 1..Len(q) \/ i = Len(q) + 1
  BY QueueAppend
<1> QED BY <1>1, QueueAppend

\* A queue without frames.
LEMMA QueueEmpty ==
  ASSUME NEW S, NEW q \in Seq(S)
  PROVE  /\ Len(q) \in Nat /\ (q = <<>> <=> Len(q) = 0)
         /\ <<>> \in Seq(S) /\ Len(<<>>) = 0
  OBVIOUS

\* What a call does with a frame ends it, leaves it reading or, after an error of
\* a handler, reconnects.
LEMMA HandleFacts ==
  ASSUME WireTypes, NEW f \in Frames, HandleFrame(f)
  PROVE  /\ UNCHANGED <<call, kind, ctx, attempt, writes, clean0>>
         /\ body' \in Seq(Ids \X Nat)
         /\ pc' \in {pc, "idle", "retry"}
<1>1. CASE kind = "send" /\ HandleSend(f)
  BY <1>1 DEF HandleSend, Return, WireTypes
<1>2. CASE kind = "chunked" /\ HandleChunk(f)
  <2>1. Append(body, <<f.id, f.part>>) \in Seq(Ids \X Nat)
    BY DEF WireTypes, Frames
  <2> QED BY <1>2, <2>1, Zenon DEF HandleChunk, Return, WireTypes
<1>3. CASE kind = "stream" /\ HandleEvent(f)
  BY <1>3 DEF HandleEvent, Return, ConnClosedError, WireTypes, callVars
<1> QED BY <1>1, <1>2, <1>3 DEF HandleFrame

\* What a call writes is a request.
LEMMA RequestFacts ==
  ASSUME WireTypes PROVE Request \in Requests /\ NextWrite \in Nat
  BY SMTT(30) DEF WireTypes, Request, NextWrite, Requests, Ids, NoReq

\* The steps of a call keep the types.
LEMMA TypesCall == ASSUME WireTypes, CallSteps PROVE WireTypes'
<1> USE TCPAssumption DEF WireTypes, Places, socketVars, serverVars, callVars
<1>1. CASE Begin
  <2>1. CleanForNext \in BOOLEAN
    BY Zenon DEF CleanForNext, Clean
  <2> QED BY <1>1, <2>1 DEF Begin
<1>2. CASE EndContext \/ WriteRefused \/ WriteClosed
  BY <1>2, SMTT(30) DEF EndContext, WriteRefused, WriteClosed, Return, ConnClosedError
<1>3. CASE Write
  <2>1. Request \in Requests /\ NextWrite \in Nat
    BY RequestFacts
  <2>2. toServer' \in Seq(Requests)
    BY <1>3, <2>1, QueueAppend DEF Write, WriteFrame
  <2> QED BY <1>3, <2>1, <2>2 DEF Write, WriteFrame
<1>4. CASE WriteFail
  <2>1. torn' \in BOOLEAN
    BY <1>4, Zenon DEF WriteFail
  <2> QED BY <1>4, <2>1 DEF WriteFail, ConnClosedError
<1>5. CASE ReadFail
  <2>1. skew' \in BOOLEAN
    BY <1>5, Zenon DEF ReadFail
  <2> QED BY <1>5, <2>1 DEF ReadFail, ConnClosedError
<1>6. CASE ReadFrame
  <2>1. Head(toClient) \in Frames /\ Tail(toClient) \in Seq(Frames)
    BY <1>6, QueueTail DEF ReadFrame, TakeFrame
  <2>2. /\ UNCHANGED <<call, kind, attempt, writes, clean0>>
        /\ body' \in Seq(Ids \X Nat) /\ pc' \in {pc, "idle", "retry"}
    BY <1>6, <2>1, HandleFacts DEF ReadFrame, TakeFrame
  <2>3. skew' \in BOOLEAN
    BY <1>6, Zenon DEF ReadFrame, TakeFrame
  <2> QED BY <1>6, <2>1, <2>2, <2>3, Zenon DEF ReadFrame, TakeFrame
<1>7. CASE ReadGarbage
  <2>1. PICK s \in Statuses : HandleFrame(Frame(NoReq, s, 0))
    BY <1>7 DEF ReadGarbage
  <2>2. Frame(NoReq, s, 0) \in Frames /\ Tail(toClient) \in Seq(Frames)
    BY <1>7, QueueTail, Zenon DEF ReadGarbage, Frame, Frames, NoReq, Ids
  <2>3. /\ UNCHANGED <<call, kind, attempt, writes, clean0>>
        /\ body' \in Seq(Ids \X Nat) /\ pc' \in {pc, "idle", "retry"}
    BY <2>1, <2>2, HandleFacts
  <2> QED BY <1>7, <2>2, <2>3 DEF ReadGarbage
<1>8. CASE GiveUp \/ Exhausted
  BY <1>8, Zenon DEF GiveUp, Exhausted, Return
<1> QED BY <1>1, <1>2, <1>3, <1>4, <1>5, <1>6, <1>7, <1>8 DEF CallSteps

\* The steps of a reconnect keep the types.
LEMMA TypesConnect == ASSUME WireTypes, ConnectSteps PROVE WireTypes'
<1> USE TCPAssumption
    DEF WireTypes, Places, socketVars, serverVars, callVars, NotServing, NoReq, Ids
<1>1. CASE Reconnect
  <2>1. /\ skew' \in BOOLEAN /\ torn' \in BOOLEAN /\ authed' \in BOOLEAN
        /\ UNCHANGED clean0
    BY <1>1, Zenon DEF Reconnect, CloseAndDial
  <2>2. applied' \in Nat /\ attempt' \in Nat
    BY <1>1 DEF Reconnect, CloseAndDial
  <2> QED BY <1>1, <2>1, <2>2 DEF Reconnect, CloseAndDial
<1>2. CASE Dial \/ DialFail
  BY <1>2, Zenon DEF Dial, DialFail
<1>3. CASE Hello
  <2>1. [id |-> NoReq, kind |-> "hello"] \in Requests
    BY DEF Requests
  <2>2. toServer' \in Seq(Requests)
    BY <1>3, <2>1, QueueAppend DEF Hello
  <2> QED BY <1>3, <2>2 DEF Hello
<1>4. CASE HelloFail \/ HelloRejected
  <2>1. DropConnection
    BY <1>4 DEF HelloFail, HelloRejected
  <2>2. skew' \in BOOLEAN /\ torn' \in BOOLEAN /\ authed' \in BOOLEAN
    BY <2>1, Zenon DEF DropConnection
  <2> QED BY <2>1, <2>2 DEF DropConnection
<1>5. CASE HelloAccepted
  BY <1>5, QueueTail DEF HelloAccepted, Accepted
<1> QED BY <1>1, <1>2, <1>3, <1>4, <1>5 DEF ConnectSteps

\* What the server writes is a frame, at the end of what is on its way.
LEMMA PushFacts ==
  ASSUME WireTypes, NEW f \in Frames, Push(f)
  PROVE  peer = "up" /\ toClient' = Append(toClient, f) /\ toClient' \in Seq(Frames)
  BY QueueAppend, Zenon DEF Push, WireTypes

\* The steps of the server keep the types.
LEMMA TypesServer == ASSUME WireTypes, ServerStep PROVE WireTypes'
<1> USE TCPAssumption
    DEF WireTypes, Places, callVars, serverVars, NotServing, NoReq, Ids
<1>0. \A r \in Ids, s \in Statuses, k \in Nat : Frame(r, s, k) \in Frames
  BY DEF Frame, Frames
<1>1. CASE ServerHello
  <2>1. authed' \in BOOLEAN
    BY <1>1, Zenon DEF ServerHello
  <2>2. toClient' \in Seq(Frames)
    BY <1>1, <1>0, PushFacts DEF ServerHello, Statuses
  <2> QED BY <1>1, <2>1, <2>2, QueueTail DEF ServerHello
<1>2. CASE ServerGarbage
  <2>1. toClient' \in Seq(Frames)
    BY <1>2, <1>0, PushFacts DEF ServerGarbage, Statuses
  <2> QED BY <1>2, <2>1, QueueTail DEF ServerGarbage
<1>3. CASE ServerTake
  <2>1. Head(toServer) \in Requests /\ Tail(toServer) \in Seq(Requests)
    BY <1>3, QueueTail DEF ServerTake
  <2> QED BY <1>3, <2>1, SMTT(30) DEF ServerTake, Requests
<1>4. CASE ServerAnswer
  <2>1. toClient' \in Seq(Frames)
    BY <1>4, <1>0, PushFacts DEF ServerAnswer, Statuses
  <2> QED BY <1>4, <2>1 DEF ServerAnswer
<1>5. CASE ServerChunk \/ ServerLastChunk
  <2>1. serving.id \in Ids /\ serving.part + 1 \in Nat
    OBVIOUS
  <2>2. toClient' \in Seq(Frames)
    BY <1>5, <1>0, <2>1, PushFacts, Zenon DEF ServerChunk, ServerLastChunk, Statuses
  <2>3. serving' \in [id : Ids, kind : Kinds \cup {"garbage"}, part : Nat]
    <3>1. CASE serving' = [serving EXCEPT !.part = @ + 1]
      BY <2>1, <3>1, Zenon
    <3>2. CASE serving' = NotServing
      BY <3>2
    <3> QED BY <1>5, <3>1, <3>2, Zenon DEF ServerChunk, ServerLastChunk
  <2>4. UNCHANGED <<pc, callVars, conn, skew, torn, toServer, peer, authed,
                    streaming, applied>>
    BY <1>5 DEF ServerChunk, ServerLastChunk
  <2> QED BY <2>2, <2>3, <2>4
<1>6. CASE ServerEvent
  <2>1. toClient' \in Seq(Frames)
    BY <1>6, <1>0, PushFacts DEF ServerEvent, Statuses
  <2> QED BY <1>6, <2>1 DEF ServerEvent
<1>7. CASE ServerClose
  BY <1>7 DEF ServerClose
<1> QED BY <1>1, <1>2, <1>3, <1>4, <1>5, <1>6, <1>7 DEF ServerStep

\* The types hold throughout.
LEMMA TypesStep == ASSUME WireTypes, [Next]_vars PROVE WireTypes'
<1>1. CASE UNCHANGED vars
  BY <1>1 DEF WireTypes, vars, callVars, socketVars, serverVars
<1> QED BY <1>1, TypesCall, TypesConnect, TypesServer, NextCases

-----------------------------------------------------------------------------
\* The server touches nothing of the client.
LEMMA ServerKeeps ==
  ASSUME ServerStep
  PROVE  UNCHANGED <<pc, callVars, conn, skew, torn>>
  BY Zenon DEF ServerStep, ServerHello, ServerGarbage, ServerTake, ServerAnswer,
         ServerChunk, ServerLastChunk, ServerEvent, ServerClose, serverVars

\* What a call does leaves the connection authenticated.
LEMMA ControlCall ==
  ASSUME WireTypes, ConnControl, CallSteps PROVE ConnControl'
<1> USE DEF ConnControl, WireTypes, socketVars, serverVars, Blank
<1>1. CASE Begin \/ EndContext \/ WriteRefused \/ WriteClosed \/ GiveUp \/ Exhausted
  <2>1. UNCHANGED <<socketVars, peer, authed, serving, streaming>>
    BY <1>1, Zenon DEF Begin, EndContext, WriteRefused, WriteClosed, GiveUp, Exhausted
  <2>2. \/ pc' = pc
        \/ /\ pc \in {"idle", "write", "retry"}
           /\ pc' \in {"idle", "write", "retry"}
    BY <1>1 DEF Begin, EndContext, WriteRefused, WriteClosed, GiveUp, Exhausted,
                Return, ConnClosedError
  <2> QED BY <2>1, <2>2, Zenon DEF Greeting
<1>2. CASE Write \/ WriteFail
  BY <1>2, Zenon DEF Write, WriteFrame, WriteFail, ConnClosedError
<1>3. CASE ReadFail
  BY <1>3 DEF ReadFail, ConnClosedError
<1>4. CASE ReadFrame
  <2>1. pc' \in {pc, "idle", "retry"}
    BY <1>4, QueueTail, HandleFacts DEF ReadFrame, TakeFrame
  <2> QED BY <1>4, <2>1 DEF ReadFrame, TakeFrame
<1>5. CASE ReadGarbage
  <2>1. PICK s \in Statuses : HandleFrame(Frame(NoReq, s, 0))
    BY <1>5 DEF ReadGarbage
  <2>2. Frame(NoReq, s, 0) \in Frames
    BY DEF Frame, Frames, NoReq, Ids
  <2>3. pc' \in {pc, "idle", "retry"}
    BY <2>1, <2>2, HandleFacts, Zenon
  <2> QED BY <1>5, <2>3 DEF ReadGarbage
<1> QED BY <1>1, <1>2, <1>3, <1>4, <1>5 DEF CallSteps

\* A reconnect ends with a connection that is authenticated, or closed.
LEMMA ControlConnect ==
  ASSUME WireTypes, ConnControl, ConnectSteps PROVE ConnControl'
<1> USE DEF ConnControl, WireTypes, socketVars, serverVars, Blank
<1>1. CASE Reconnect
  BY <1>1 DEF Reconnect, CloseAndDial
<1>2. CASE Dial \/ DialFail
  BY <1>2 DEF Dial, DialFail
<1>3. CASE Hello
  <2>1. [id |-> NoReq, kind |-> "hello"] \in Requests
    BY DEF Requests, NoReq, Ids
  <2>2. Greeting'
    BY <1>3, <2>1, QueueAppend, QueueEmpty DEF Hello, Greeting
  <2> QED BY <1>3, <2>2 DEF Hello
<1>4. CASE HelloFail \/ HelloRejected
  <2>1. DropConnection
    BY <1>4 DEF HelloFail, HelloRejected
  <2> QED BY <2>1 DEF DropConnection
<1>5. CASE HelloAccepted
  BY <1>5 DEF HelloAccepted, Accepted, Greeting
<1> QED BY <1>1, <1>2, <1>3, <1>4, <1>5 DEF ConnectSteps

\* During the handshake there is nothing on the connection beside HELLO.
LEMMA HelloAlone ==
  ASSUME WireTypes, Greeting, toServer # <<>>
  PROVE  toClient = <<>> /\ Len(toServer) = 1
<1>1. Len(toServer) + Len(toClient) <= 1
  BY DEF Greeting
<1>2. /\ Len(toServer) \in Nat /\ Len(toServer) # 0
      /\ Len(toClient) \in Nat /\ (Len(toClient) = 0 => toClient = <<>>)
  BY QueueEmpty DEF WireTypes
<1>3. \A a, b \in Nat : a + b <= 1 /\ a # 0 => a = 1 /\ b = 0
  BY SMTT(30)
<1> QED BY <1>1, <1>2, <1>3, Zenon

\* The server answers HELLO before it sees anything else.
LEMMA ControlServer ==
  ASSUME WireTypes, ConnControl, ServerStep PROVE ConnControl'
<1> USE DEF ConnControl, WireTypes, Blank
<1>1. UNCHANGED <<pc, conn, skew, torn>>
  BY ServerKeeps
<1>2. CASE ServerHello
  <2>1. peer = "up" /\ UNCHANGED <<peer, serving, streaming>>
    BY <1>2 DEF ServerHello, Push
  <2>2. authed => authed'
    BY <1>2, Zenon DEF ServerHello
  <2>3. pc # "hello" /\ conn = "open"
    BY <1>2, <2>1 DEF ServerHello
  <2>4. ASSUME pc = "helloRead" PROVE Greeting'
    <3>1. Greeting
      BY <2>4
    <3>2. toClient = <<>> /\ Len(toServer) = 1
      BY <1>2, <3>1, HelloAlone DEF ServerHello
    <3>3. toServer' = <<>>
      BY <1>2, <3>2, QueueTail, QueueEmpty DEF ServerHello
    <3>4. \A s \in {"ok", "err"} : Frame(NoReq, s, 0) \in Frames
      BY Zenon DEF Frame, Frames, Statuses, NoReq, Ids
    <3>5. PICK s \in {"ok", "err"} :
             Push(Frame(NoReq, s, 0)) /\ (s = "ok" => authed')
      BY <1>2 DEF ServerHello
    <3>6. /\ Len(toClient') = 1 /\ Head(toClient') = Frame(NoReq, s, 0)
      BY <3>2, <3>4, <3>5, PushFacts, QueueAppend, QueueEmpty
    <3>7. Len(toServer') = 0
      BY <3>3, QueueEmpty
    <3> QED BY <1>1, <2>1, <3>1, <3>3, <3>5, <3>6, <3>7 DEF Greeting, Frame
  <2> QED BY <1>1, <2>1, <2>2, <2>3, <2>4
<1>3. CASE ServerGarbage
  <2>1. peer = "up" /\ UNCHANGED <<peer, serving, streaming, authed>>
    BY <1>3 DEF ServerGarbage, Push, serverVars
  <2>2. pc \notin {"hello", "helloRead"} /\ conn = "open"
    BY <1>3, <2>1 DEF ServerGarbage, Greeting
  <2> QED BY <1>1, <2>1, <2>2
<1>4. CASE ServerTake
  <2>1. peer = "up" /\ UNCHANGED <<peer, authed>>
    BY <1>4, Zenon DEF ServerTake
  <2>2. pc \notin {"hello", "helloRead"} /\ conn = "open"
    BY <1>4, <2>1, TCPAssumption DEF ServerTake, Greeting
  <2> QED BY <1>1, <2>1, <2>2
<1>5. CASE ServerAnswer \/ ServerChunk \/ ServerLastChunk \/ ServerEvent
  <2>1. peer = "up" /\ UNCHANGED <<peer, authed>>
    BY <1>5 DEF ServerAnswer, ServerChunk, ServerLastChunk, ServerEvent, Push,
                serverVars
  <2>2. serving # NotServing \/ streaming # NoReq
    BY <1>5 DEF ServerAnswer, ServerChunk, ServerLastChunk, ServerEvent, NotServing
  <2>3. pc \notin {"hello", "helloRead"} /\ conn = "open"
    BY <2>1, <2>2 DEF Greeting
  <2> QED BY <1>1, <2>1, <2>3
<1>6. CASE ServerClose
  <2>1. Greeting => Greeting'
    BY <1>6, <1>1, QueueEmpty DEF ServerClose, Greeting
  <2> QED BY <1>6, <1>1, <2>1 DEF ServerClose
<1> QED BY <1>2, <1>3, <1>4, <1>5, <1>6 DEF ServerStep

\* The connection is in the state its place says, throughout.
LEMMA ControlStep ==
  ASSUME WireTypes, ConnControl, [Next]_vars PROVE ConnControl'
<1>1. CASE UNCHANGED vars
  BY <1>1 DEF ConnControl, Greeting, Blank, vars, callVars, socketVars, serverVars
<1> QED BY <1>1, ControlCall, ControlConnect, ControlServer, NextCases

\* A connection fresh from NewTCPClient is typed and authenticated.
LEMMA ControlInit == ASSUME Init PROVE WireTypes /\ ConnControl
<1>1. NotServing \in [id : Ids, kind : Kinds \cup {"garbage"}, part : Nat]
  BY DEF NotServing, NoReq, Ids
<1>2. /\ skew \in BOOLEAN /\ torn \in BOOLEAN /\ authed \in BOOLEAN
      /\ clean0 \in BOOLEAN
  BY Zenon DEF Init
<1>3. streaming \in Ids /\ serving \in [id : Ids, kind : Kinds \cup {"garbage"}, part : Nat]
  BY <1>1 DEF Init, NoReq, Ids
<1>4. WireTypes
  BY <1>2, <1>3 DEF Init, WireTypes, Places
<1>5. ConnControl
  BY DEF Init, ConnControl
<1> QED BY <1>4, <1>5

\* Both hold in every reachable state.
LEMMA ControlHolds == Spec => [](WireTypes /\ ConnControl)
<1>1. WireTypes /\ ConnControl /\ [Next]_vars => (WireTypes /\ ConnControl)'
  BY TypesStep, ControlStep
<1> QED BY <1>1, ControlInit, PTL DEF Spec

(***************************************************************************)
(* No command reaches the server on a connection whose HELLO it has not    *)
(* accepted, whatever reconnects failed before (tcp_client.go, connect).   *)
(***************************************************************************)
THEOREM CommandsAreAuthenticated == Spec => []AuthenticatedFirst
<1>1. ASSUME WireTypes, ConnControl PROVE AuthenticatedFirst
  <2> SUFFICES ASSUME NEW i \in 1..Len(toServer), toServer[i].kind \in Kinds
               PROVE  authed
    BY DEF AuthenticatedFirst
  <2>1. toServer # <<>> /\ Len(toServer) \in Nat
    BY <1>1, QueueEmpty DEF WireTypes
  <2>2. conn = "open" /\ pc \notin {"dial", "hello"}
    BY <1>1, <2>1 DEF WireTypes, ConnControl, Blank
  <2>3. pc # "helloRead"
    <3> SUFFICES ASSUME pc = "helloRead" PROVE FALSE
      OBVIOUS
    <3>1. Greeting
      BY <1>1 DEF ConnControl
    <3>2. i = 1
      BY <1>1, <2>1, <3>1, QueueEmpty DEF Greeting, WireTypes
    <3> QED BY <1>1, <2>1, <3>1, <3>2, QueueTail, TCPAssumption DEF Greeting, WireTypes
  <2> QED BY <1>1, <2>2, <2>3 DEF ConnControl
<1> QED BY <1>1, ControlHolds, PTL

-----------------------------------------------------------------------------
\* What a call does with a frame it has read leaves its number alone.
LEMMA ReadKeeps ==
  ASSUME WireTypes, ReadFrame \/ ReadGarbage
  PROVE  /\ UNCHANGED <<call, kind, attempt, writes, clean0, toServer>>
         /\ pc = "read" /\ pc' \in {"read", "idle", "retry"} /\ UNCHANGED serverVars
<1>1. CASE ReadFrame
  <2>1. Head(toClient) \in Frames /\ HandleFrame(Head(toClient))
    BY <1>1, QueueTail DEF ReadFrame, TakeFrame, WireTypes
  <2> QED BY <1>1, <2>1, HandleFacts DEF ReadFrame, TakeFrame
<1>2. CASE ReadGarbage
  <2>1. PICK s \in Statuses : HandleFrame(Frame(NoReq, s, 0))
    BY <1>2 DEF ReadGarbage
  <2>2. Frame(NoReq, s, 0) \in Frames
    BY Zenon DEF Frame, Frames, NoReq, Ids
  <2> QED BY <1>2, <2>1, <2>2, HandleFacts DEF ReadGarbage
<1> QED BY <1>1, <1>2

\* Requests carry the number of their call.
LEMMA RequestCall ==
  ASSUME WireTypes, RequestIds, CallSteps PROVE RequestIds'
<1> USE DEF RequestIds, WireTypes, socketVars, serverVars, callVars
<1>1. CASE Begin
  <2>1. call' = call + 1 /\ UNCHANGED <<toServer, serving>>
    BY <1>1 DEF Begin
  <2>2. Numbered(call) \subseteq Numbered(call + 1)
    BY DEF Numbered
  <2>3. \A i \in 1..Len(toServer') : toServer'[i] \in Numbered(call')
    BY <2>1, <2>2, Zenon
  <2> QED BY <2>1, <2>3 DEF NotServing
<1>2. CASE Write
  <2>1. Request \in Requests /\ Len(toServer) \in Nat
    BY RequestFacts, QueueEmpty
  <2>2. /\ call >= 1 /\ UNCHANGED <<call, serving>>
        /\ toServer' \in {toServer, Append(toServer, Request)}
    BY <1>2 DEF Write, WriteFrame
  <2>3. Request \in Numbered(call)
    <3>1. CASE torn
      BY <2>1, <3>1, TCPAssumption, Zenon DEF Request, Numbered
    <3>2. CASE ~torn
      BY <2>1, <2>2, <3>2 DEF Request, Numbered
    <3> QED BY <3>1, <3>2, Zenon
  <2>4. \A i \in 1..Len(toServer') : toServer'[i] \in Numbered(call)
    <3>1. CASE toServer' = toServer
      BY <3>1
    <3>2. CASE toServer' = Append(toServer, Request)
      BY <2>1, <2>3, <3>2, AllAppend
    <3> QED BY <2>2, <3>1, <3>2, Zenon
  <2> QED BY <2>2, <2>4 DEF NotServing
<1>3. CASE EndContext \/ WriteRefused \/ WriteClosed \/ WriteFail \/ ReadFail
           \/ GiveUp \/ Exhausted
  <2>1. UNCHANGED <<call, toServer, serving>> /\ pc # "idle"
    BY <1>3, Zenon DEF EndContext, WriteRefused, WriteClosed, WriteFail, ReadFail, GiveUp,
                Exhausted, Return, ConnClosedError
  <2> QED BY <2>1, Zenon DEF NotServing
<1>4. CASE ReadFrame \/ ReadGarbage
  BY <1>4, ReadKeeps, Zenon DEF NotServing
<1> QED BY <1>1, <1>2, <1>3, <1>4 DEF CallSteps

\* HELLO has no number.
LEMMA RequestConnect ==
  ASSUME WireTypes, RequestIds, ConnectSteps PROVE RequestIds'
<1> USE DEF RequestIds, WireTypes, socketVars, serverVars, callVars
<1>0. /\ pc # "idle" /\ UNCHANGED call
  BY DEF ConnectSteps, Reconnect, CloseAndDial, Dial, DialFail, Hello, HelloFail,
         HelloRejected, HelloAccepted, Accepted, DropConnection
<1>1. CASE Reconnect \/ HelloFail \/ HelloRejected
  <2>1. toServer' = <<>> /\ serving' = NotServing
    BY <1>1, Zenon DEF Reconnect, CloseAndDial, HelloFail, HelloRejected, DropConnection
  <2> QED BY <1>0, <2>1, SMTT(30) DEF NotServing
<1>2. CASE Dial \/ DialFail \/ HelloAccepted
  <2>1. UNCHANGED <<toServer, serving>>
    BY <1>2, Zenon DEF Dial, DialFail, HelloAccepted, Accepted
  <2> QED BY <1>0, <2>1, Zenon DEF NotServing
<1>3. CASE Hello
  <2>1. [id |-> NoReq, kind |-> "hello"] \in Requests /\ Len(toServer) \in Nat
    BY QueueEmpty, Zenon DEF Requests, NoReq, Ids
  <2>2. /\ UNCHANGED serving
        /\ toServer' \in {toServer, Append(toServer, [id |-> NoReq, kind |-> "hello"])}
    BY <1>3, Zenon DEF Hello
  <2>3. [id |-> NoReq, kind |-> "hello"] \in Numbered(call)
    BY <2>1, TCPAssumption DEF Numbered
  <2>4. \A i \in 1..Len(toServer') : toServer'[i] \in Numbered(call)
    <3>1. CASE toServer' = toServer
      BY <3>1
    <3>2. CASE toServer' = Append(toServer, [id |-> NoReq, kind |-> "hello"])
      BY <2>1, <2>3, <3>2, AllAppend, Zenon
    <3> QED BY <2>2, <3>1, <3>2, Zenon
  <2> QED BY <1>0, <2>2, <2>4 DEF NotServing
<1> QED BY <1>1, <1>2, <1>3, Zenon DEF ConnectSteps

\* The server serves what is numbered.
LEMMA RequestServer ==
  ASSUME WireTypes, RequestIds, ServerStep PROVE RequestIds'
<1> USE DEF RequestIds, WireTypes, serverVars, callVars
<1>0. UNCHANGED <<pc, call>>
  BY ServerKeeps
<1>1. ASSUME toServer # <<>>, toServer' = Tail(toServer)
      PROVE  /\ \A i \in 1..Len(toServer') : toServer'[i] \in Numbered(call)
             /\ call # 0
  BY <1>1, QueueTail, Zenon
<1>2. CASE ServerHello \/ ServerGarbage
  <2>1. toServer # <<>> /\ toServer' = Tail(toServer) /\ UNCHANGED serving
    BY <1>2, Zenon DEF ServerHello, ServerGarbage
  <2> QED BY <1>0, <1>1, <2>1 DEF NotServing
<1>3. CASE ServerTake
  <2>1. toServer # <<>> /\ toServer' = Tail(toServer)
    BY <1>3, Zenon DEF ServerTake
  <2>2. Head(toServer).kind \in Kinds /\ Head(toServer).id # NoReq
    BY <1>3, <2>1, QueueTail, SMTT(30) DEF ServerTake, NoReq, Numbered
  <2>3. serving.id' = NoReq \/ serving.kind' = "garbage" => serving' = NotServing
    BY <1>3, <2>2, TCPAssumption, SMTT(30) DEF ServerTake, NotServing
  <2> QED BY <1>0, <1>1, <2>1, <2>3 DEF NotServing
<1>4. CASE ServerAnswer \/ ServerLastChunk
  BY <1>0, <1>4 DEF ServerAnswer, ServerLastChunk, NotServing
<1>5. CASE ServerChunk
  BY <1>0, <1>5, SMTT(30) DEF ServerChunk, NotServing
<1>6. CASE ServerEvent \/ ServerClose
  BY <1>0, <1>6, SMTT(30) DEF ServerEvent, ServerClose, NotServing
<1> QED BY <1>2, <1>3, <1>4, <1>5, <1>6, Zenon DEF ServerStep

\* The numbering holds throughout.
LEMMA RequestStep ==
  ASSUME WireTypes, RequestIds, [Next]_vars PROVE RequestIds'
<1>1. CASE UNCHANGED vars
  BY <1>1 DEF RequestIds, NotServing, vars, callVars, socketVars, serverVars
<1> QED BY <1>1, RequestCall, RequestConnect, RequestServer, NextCases

-----------------------------------------------------------------------------
\* The last frame leaves the queue empty.
LEMMA QueueLast ==
  ASSUME NEW S, NEW q \in Seq(S), Len(q) = 1 PROVE Tail(q) = <<>> /\ q # <<>>
<1>1. q # <<>>
  BY QueueEmpty, SMTT(30)
<1>2. Tail(q) \in Seq(S) /\ Len(Tail(q)) = 0
  BY <1>1, QueueTail
<1> QED BY <1>1, <1>2, QueueEmpty, Zenon

\* A queue of one frame.
LEMMA QueueOne == ASSUME NEW x PROVE Head(<<x>>) = x /\ Tail(<<x>>) = <<>>
  OBVIOUS

\* Only a close can happen to a connection that is clean.
LEMMA CleanStable ==
  ASSUME RequestIds, CleanForNext, ServerStep PROVE CleanForNext'
<1>1. UNCHANGED <<conn, skew, torn>>
  BY ServerKeeps
<1>2. CASE conn = "closed"
  BY <1>1, <1>2 DEF CleanForNext
<1>3. CASE Clean
  <2>1. serving = NotServing /\ toServer = <<>> /\ streaming = NoReq
    BY <1>3 DEF Clean, RequestIds
  <2>2. ServerClose
    BY <2>1 DEF ServerStep, ServerHello, ServerGarbage, ServerTake, ServerAnswer,
                ServerChunk, ServerLastChunk, ServerEvent, NotServing
  <2> QED BY <1>1, <1>3, <2>2 DEF ServerClose, Clean, CleanForNext, NotServing
<1> QED BY <1>2, <1>3 DEF CleanForNext

\* The server's answers are those to the request.
LEMMA OwnServer ==
  ASSUME WireTypes, OwnExchange, ServerStep PROVE OwnExchange'
<1> USE DEF OwnExchange
<1>0. UNCHANGED <<pc, call, kind, writes, body, skew, torn>> /\ Own' = Own
  BY ServerKeeps DEF callVars, Own
<1>1. /\ toServer # <<>> => Head(toServer) = [id |-> Own, kind |-> kind]
      /\ toServer # <<>> => Tail(toServer) = <<>>
  BY QueueOne, Zenon DEF OwnRequest
<1>2. /\ Own \in Ids /\ Own[1] = call /\ kind \in {"send", "chunked", "stream"}
      /\ Len(toClient) \in Nat /\ Len(body) \in Nat
  BY TCPAssumption, QueueEmpty, Zenon DEF WireTypes, Own, Ids
<1>3. CASE ServerHello \/ ServerGarbage
  BY <1>1, <1>2, <1>3 DEF ServerHello, ServerGarbage
<1>4. CASE ServerTake
  <2>1. /\ toServer # <<>> /\ toServer' = <<>> /\ UNCHANGED toClient
        /\ toClient = <<>> /\ body = <<>>
        /\ serving = NotServing /\ streaming = NoReq
    BY <1>1, <1>4 DEF ServerTake, OwnRequest
  <2>2. CASE kind = "stream"
    <3>1. streaming' = Own /\ UNCHANGED serving
      BY <1>1, <1>4, <2>1, <2>2 DEF ServerTake
    <3> QED BY <1>0, <2>1, <2>2, <3>1, Zenon DEF OwnRequest, NotServing
  <2>3. CASE kind # "stream"
    <3>1. /\ serving' = [id |-> Own, kind |-> kind, part |-> 0]
          /\ UNCHANGED streaming /\ applied' = applied + 1
      BY <1>1, <1>2, <1>4, <2>1, <2>3 DEF ServerTake
    <3>2. applied' >= 1
      BY <3>1, SMTT(30) DEF WireTypes
    <3>3. OwnRequest'
      BY <1>0, <2>1, <2>3, <3>1, <3>2, Zenon DEF OwnRequest, NotServing
    <3>4. OneFrame' /\ ChunksInOrder'
      BY <1>0, <2>1, <3>1 DEF OneFrame, ChunksInOrder, NotServing
    <3> QED BY <3>3, <3>4, Zenon
  <2> QED BY <2>2, <2>3, Zenon
<1>5. CASE ServerClose
  <2>1. OwnRequest'
    BY <1>0, <1>5, SMTT(30) DEF ServerClose, OwnRequest, NotServing
  <2>2. OneFrame => OneFrame'
    BY <1>5, Zenon DEF ServerClose, OneFrame, NotServing
  <2>3. ChunksInOrder => ChunksInOrder'
    BY <1>0, <1>5, Zenon DEF ServerClose, ChunksInOrder, NotServing
  <2> QED BY <1>0, <2>1, <2>2, <2>3, Zenon
<1>6. CASE ServerAnswer
  <2>1. /\ serving # NotServing /\ serving.id = Own /\ kind = "send"
        /\ toServer = <<>>
    BY <1>6 DEF ServerAnswer, OwnRequest, NotServing
  <2>2. PICK s \in {"ok", "err", "big"} : Push(Frame(Own, s, 0))
    BY <1>6, <2>1 DEF ServerAnswer
  <2>3. Frame(Own, s, 0) \in Frames
    BY <1>2 DEF Frame, Frames, Statuses
  <2>4. toClient' = Append(toClient, Frame(Own, s, 0)) /\ toClient = <<>>
    BY <2>1, <2>2 DEF Push, OneFrame
  <2>5. Len(toClient') = 1 /\ toClient'[1].id = Own
    BY <2>4, SMTT(30) DEF Frame
  <2>6. OwnRequest'
    BY <1>0, <1>6, <2>1, <2>5, SMTT(30) DEF ServerAnswer, OwnRequest, NotServing
  <2> QED BY <1>0, <1>6, <2>1, <2>5, <2>6, Zenon DEF ServerAnswer, OneFrame
<1>7. CASE ServerEvent
  <2>1. streaming = Own /\ kind = "stream" /\ toServer = <<>>
    BY <1>7 DEF ServerEvent, OwnRequest
  <2>2. PICK s \in {"ok", "err"} : Push(Frame(Own, s, 0))
    BY <1>7, <2>1 DEF ServerEvent
  <2>3. Frame(Own, s, 0) \in Frames /\ Frame(Own, s, 0).id = Own
    BY <1>2 DEF Frame, Frames, Statuses
  <2>4. toClient' = Append(toClient, Frame(Own, s, 0))
    BY <2>2, Zenon DEF Push
  <2>5. \A i \in 1..Len(toClient') : toClient'[i].id = Own
    <3> TAKE i \in 1..Len(toClient')
    <3>1. i \in 1..Len(toClient) \/ i = Len(toClient) + 1
      BY <2>3, <2>4, QueueAppend, SMTT(30) DEF WireTypes
    <3> QED BY <2>3, <2>4, <3>1, QueueAppend DEF WireTypes, OwnRequest
  <2> QED BY <1>0, <1>7, <2>1, <2>5, SMTT(30) DEF ServerEvent, OwnRequest, serverVars, NotServing
<1>8. CASE ServerChunk \/ ServerLastChunk
  <2>1. /\ serving # NotServing /\ serving.id = Own /\ kind = "chunked"
        /\ toServer = <<>> /\ applied >= 1
        /\ serving.part = Len(body) + Len(toClient)
    BY <1>8 DEF ServerChunk, ServerLastChunk, OwnRequest, ChunksInOrder, NotServing
  <2>2. PICK s \in {"nxt", "odd", "ok", "err"} :
          /\ Push(Frame(Own, s, serving.part + 1))
          /\ s \in {"ok", "err"} => serving' = NotServing
          /\ \/ serving' = NotServing
             \/ serving' = [serving EXCEPT !.part = @ + 1]
    BY <1>8, <2>1, Zenon DEF ServerChunk, ServerLastChunk
  <2> DEFINE f == Frame(Own, s, serving.part + 1)
  <2>3. /\ f \in Frames /\ f.id = Own /\ f.st = s
        /\ f.part = Len(body) + (Len(toClient) + 1)
    BY <1>2, <2>1 DEF Frame, Frames, Statuses, WireTypes
  <2>4. toClient' = Append(toClient, f)
    BY <2>2 DEF Push
  <2>5. UNCHANGED <<toServer, streaming, applied>>
    BY <1>8 DEF ServerChunk, ServerLastChunk
  <2> HIDE DEF f
  <2>6. /\ Len(toClient') = Len(toClient) + 1
        /\ toClient'[Len(toClient) + 1] = f /\ toClient' # <<>>
        /\ \A i \in 1..Len(toClient) : toClient'[i] = toClient[i]
    BY <2>3, <2>4, QueueAppend, SMTT(30) DEF WireTypes
  <2>7. \A i \in 1..Len(toClient') : i \in 1..Len(toClient) \/ i = Len(toClient) + 1
    BY <1>2, <2>6
  <2>8. /\ serving' = NotServing \/ (serving'.id = Own /\ serving'.kind = kind)
        /\ serving' # NotServing => serving'.part = Len(body) + Len(toClient')
    BY <1>2, <2>1, <2>2, <2>6 DEF OwnRequest, WireTypes
  <2>9. \A i \in 1..Len(toClient') : toClient'[i].id = Own
    BY <2>3, <2>6, <2>7, Zenon DEF OwnRequest
  <2>10. OwnRequest'
    BY <1>0, <2>1, <2>5, <2>8, <2>9, Zenon DEF OwnRequest
  <2>11. ASSUME NEW i \in 1..Len(toClient)
         PROVE  toClient[i].st \notin {"ok", "err"} /\ toClient[i].part = Len(body) + i
    BY <2>1, Zenon DEF ChunksInOrder
  <2>12. /\ \A i \in 1..Len(toClient') : toClient'[i].part = Len(body) + i
         /\ \A i \in 1..Len(toClient') :
              toClient'[i].st \in {"ok", "err"} =>
                i = Len(toClient') /\ serving' = NotServing
    BY <2>2, <2>3, <2>6, <2>7, <2>11, Zenon
  <2>13. ChunksInOrder'
    BY <1>0, <2>1, <2>8, <2>12, Zenon DEF ChunksInOrder
  <2> QED BY <1>0, <2>1, <2>10, <2>13
<1> QED BY <1>3, <1>4, <1>5, <1>6, <1>7, <1>8 DEF ServerStep

\* The frame a call reads answers its request, and it follows in order.
LEMMA OwnHead ==
  ASSUME WireTypes, OwnExchange, ReadFrame
  PROVE  /\ Head(toClient) \in Frames /\ Head(toClient).id = Own
         /\ HandleFrame(Head(toClient))
         /\ UNCHANGED <<call, kind, writes, clean0, torn, toServer, serverVars>>
         /\ toServer = <<>>
         /\ pc = "read" /\ toClient # <<>> /\ Own' = Own
         /\ kind = "chunked" => Head(toClient).part = Len(body) + 1
         /\ Head(toClient).st # "big" => toClient' = Tail(toClient) /\ ~skew'
<1>1. toClient # <<>> /\ HandleFrame(Head(toClient)) /\ pc = "read"
  BY DEF ReadFrame, TakeFrame
<1>2. Head(toClient) \in Frames /\ Head(toClient) = toClient[1] /\ 1 \in 1..Len(toClient)
  BY <1>1, QueueTail, Zenon DEF WireTypes
<1>3. Head(toClient).id = Own
  BY <1>2 DEF OwnExchange, OwnRequest
<1>4. UNCHANGED <<call, kind, writes, clean0, torn, toServer, serverVars>>
  BY <1>1, <1>2, HandleFacts, Zenon DEF ReadFrame, TakeFrame
<1>5. kind = "chunked" => Head(toClient).part = Len(body) + 1
  BY <1>2, Zenon DEF OwnExchange, ChunksInOrder
<1>6. toServer = <<>> /\ ~skew
  BY <1>1 DEF OwnExchange, OwnRequest
<1>7. Head(toClient).st # "big" => toClient' = Tail(toClient) /\ ~skew'
  BY <1>6 DEF ReadFrame, TakeFrame
<1> QED BY <1>1, <1>2, <1>3, <1>4, <1>5, <1>6, <1>7 DEF Own

\* A call that reads on has taken a chunk or an event, and waits for the next.
LEMMA OwnRead ==
  ASSUME WireTypes, OwnExchange, ReadFrame, pc' = "read" PROVE OwnExchange'
<1> DEFINE f == Head(toClient)
<1>0. /\ f \in Frames /\ f.id = Own /\ HandleFrame(f)
      /\ UNCHANGED <<call, kind, writes, torn, toServer, serverVars>>
      /\ toServer = <<>> /\ toClient # <<>> /\ Own' = Own
      /\ kind = "chunked" => f.part = Len(body) + 1
      /\ f.st # "big" => toClient' = Tail(toClient) /\ ~skew'
  BY OwnHead, Zenon
<1> HIDE DEF f
<1>1. /\ Len(Tail(toClient)) = Len(toClient) - 1 /\ Len(toClient) \in Nat
      /\ \A i \in 1..Len(Tail(toClient)) :
           i + 1 \in 1..Len(toClient) /\ Tail(toClient)[i] = toClient[i + 1]
      /\ Len(body) \in Nat
  BY <1>0, QueueTail, QueueEmpty, Zenon DEF WireTypes
<1>2. kind # "send"
  BY <1>0 DEF HandleFrame, HandleSend, Return
<1>3. CASE kind = "chunked"
  <2>1. f.st = "nxt" /\ body' = Append(body, <<Own, Len(body) + 1>>)
    BY <1>0, <1>3 DEF HandleFrame, HandleChunk, Return
  <2>2. toClient' = Tail(toClient) /\ ~skew'
    BY <1>0, <2>1
  <2>3. <<Own, Len(body) + 1>> \in Ids \X Nat
    BY <1>1, SMTT(30) DEF Own, Ids, WireTypes
  <2>4. /\ Len(body') = Len(body) + 1
        /\ \A i \in 1..Len(body) : body'[i] = body[i]
        /\ body'[Len(body) + 1] = <<Own, Len(body) + 1>>
    BY <2>1, <2>3, QueueAppend DEF WireTypes
  <2>5. \A i \in 1..Len(body') : body'[i] = <<Own, i>>
    <3> TAKE i \in 1..Len(body')
    <3>1. i \in 1..Len(body) \/ i = Len(body) + 1
      BY <1>1, <2>4
    <3>2. \A j \in 1..Len(body) : body[j] = <<Own, j>>
      BY <1>3 DEF OwnExchange, ChunksInOrder
    <3> QED BY <2>4, <3>1, <3>2
  <2>0. ChunksInOrder
    BY <1>3, Zenon DEF OwnExchange
  <2>6. serving # NotServing => serving.part = Len(body') + Len(toClient')
    <3>1. \A a, b \in Nat : (a + 1) + (b - 1) = a + b
      OBVIOUS
    <3>2. Len(body') + Len(toClient') = Len(body) + Len(toClient)
      BY <1>1, <2>2, <2>4, <3>1, Zenon
    <3> QED BY <2>0, <3>2 DEF ChunksInOrder
  <2>7. ASSUME NEW i \in 1..Len(toClient')
        PROVE  /\ toClient'[i].part = Len(body') + i
               /\ toClient'[i].st \in {"ok", "err"} =>
                    i = Len(toClient') /\ serving = NotServing
    <3>1. i + 1 \in 1..Len(toClient) /\ toClient'[i] = toClient[i + 1] /\ i \in Int
      BY <1>1, <2>2, SMTT(30)
    <3>2. /\ toClient'[i].part = Len(body) + (i + 1)
          /\ toClient'[i].st \in {"ok", "err"} =>
               i + 1 = Len(toClient) /\ serving = NotServing
      BY <2>0, <3>1 DEF ChunksInOrder
    <3>3. Len(toClient') = Len(toClient) - 1
      BY <1>1, <2>2, Zenon
    <3> QED BY <1>1, <2>4, <3>1, <3>2, <3>3, SMTT(30)
  <2>8. ChunksInOrder'
    BY <1>0, <2>5, <2>6, <2>7, Zenon DEF ChunksInOrder, serverVars, NotServing
  <2>9. \A i \in 1..Len(toClient') : toClient'[i].id = Own
    BY <1>1, <2>2, Zenon DEF OwnExchange, OwnRequest
  <2>10. OwnRequest'
    BY <1>0, <2>2, <2>9 DEF OwnExchange, OwnRequest, serverVars, NotServing
  <2> QED BY <1>0, <1>3, <2>8, <2>10 DEF OwnExchange
<1>4. CASE kind = "stream"
  <2>1. f.st = "ok"
    BY <1>0, <1>4 DEF HandleFrame, HandleEvent, Return, ConnClosedError
  <2>2. toClient' = Tail(toClient) /\ ~skew'
    BY <1>0, <2>1, Zenon
  <2>3. \A i \in 1..Len(toClient') : toClient'[i].id = Own
    BY <1>1, <2>2 DEF OwnExchange, OwnRequest
  <2>4. OwnRequest'
    BY <1>0, <1>4, <2>2, <2>3, Zenon DEF OwnExchange, OwnRequest, serverVars, NotServing
  <2> QED BY <1>0, <1>4, <2>4, Zenon DEF OwnExchange
<1> QED BY <1>0, <1>2, <1>3, <1>4, Zenon DEF HandleFrame

\* What such a call returns, and what it leaves behind.
Answered ==
  /\ result.id = Own
  /\ \A i \in 1..Len(result.body) : result.body[i] = <<result.id, i>>
  /\ CleanForNext
  /\ kind # "stream" => applied >= 1

\* The last frame of an answer ends the exchange.
LEMMA OwnReturn ==
  ASSUME WireTypes, OwnExchange, ReadFrame,
         pc' = "idle", result'.how = "answered"
  PROVE  Answered'
<1> DEFINE f == Head(toClient)
<1>0. /\ f \in Frames /\ f.id = Own /\ HandleFrame(f) /\ f = toClient[1]
      /\ UNCHANGED <<call, kind, writes, torn, toServer, serverVars>>
      /\ toServer = <<>> /\ toClient # <<>> /\ Own' = Own /\ pc = "read"
      /\ kind = "chunked" => f.part = Len(body) + 1
      /\ f.st # "big" => toClient' = Tail(toClient) /\ ~skew'
      /\ 1 \in 1..Len(toClient)
  BY OwnHead, QueueTail DEF WireTypes
<1> HIDE DEF f
<1>1. Len(body) \in Nat /\ <<>> \in Seq(Ids \X Nat) /\ Len(<<>>) = 0
  BY QueueEmpty, Zenon DEF WireTypes
<1>2. ASSUME Len(toClient) = 1, serving = NotServing, f.st # "big", kind # "stream"
      PROVE  CleanForNext' /\ applied' >= 1
  <2>1. toClient' = <<>> /\ ~skew'
    BY <1>0, <1>2, QueueLast, Zenon DEF WireTypes
  <2>2. streaming = NoReq /\ ~torn /\ applied >= 1
    BY <1>0, <1>2, Zenon DEF OwnExchange, OwnRequest
  <2> QED BY <1>0, <1>2, <2>1, <2>2, Zenon DEF CleanForNext, Clean, serverVars, NotServing
<1>3. CASE kind = "send"
  <2>1. f.st # "big" /\ result' = [how |-> "answered", id |-> f.id, body |-> <<>>]
    BY <1>0, <1>3, SMTT(30) DEF HandleFrame, HandleSend, Return
  <2>2. Len(toClient) = 1 /\ serving = NotServing
    BY <1>0, <1>3, Zenon DEF OwnExchange, OneFrame
  <2> QED BY <1>0, <1>1, <1>2, <1>3, <2>1, <2>2, SMTT(30) DEF Answered
<1>4. CASE kind = "chunked"
  <2>0. ChunksInOrder
    BY <1>4 DEF OwnExchange
  <2> DEFINE chunks == Append(body, <<Own, Len(body) + 1>>)
  <2>1. /\ f.st \in {"ok", "err"} /\ result'.id = Own
        /\ result'.body \in {<<>>, chunks}
    BY <1>0, <1>4, SMTT(30) DEF HandleFrame, HandleChunk, Return
  <2>2. Len(toClient) = 1 /\ serving = NotServing
    BY <1>0, <2>0, <2>1, Zenon DEF ChunksInOrder
  <2>3. <<Own, Len(body) + 1>> \in Ids \X Nat
    BY <1>1, SMTT(30) DEF Own, Ids, WireTypes
  <2>4. /\ Len(chunks) = Len(body) + 1
        /\ \A i \in 1..Len(body) : chunks[i] = body[i]
        /\ chunks[Len(body) + 1] = <<Own, Len(body) + 1>>
    BY <2>3, QueueAppend DEF WireTypes
  <2> HIDE DEF chunks
  <2>5. \A i \in 1..Len(chunks) : chunks[i] = <<Own, i>>
    <3> TAKE i \in 1..Len(chunks)
    <3>1. i \in 1..Len(body) \/ i = Len(body) + 1
      BY <1>1, <2>4, SMTT(30)
    <3> QED BY <2>0, <2>4, <3>1 DEF ChunksInOrder
  <2>6. \A i \in 1..Len(result'.body) : result'.body[i] = <<result'.id, i>>
    <3>1. CASE result'.body = <<>>
      BY <1>1, <3>1
    <3>2. CASE result'.body = chunks
      BY <2>1, <2>5, <3>2, Zenon
    <3> QED BY <2>1, <3>1, <3>2
  <2> QED BY <1>0, <1>2, <1>4, <2>1, <2>2, <2>6 DEF Answered
<1>5. CASE kind = "stream"
  BY <1>0, <1>5 DEF HandleFrame, HandleEvent, Return, ConnClosedError
<1> QED BY <1>0, <1>3, <1>4, <1>5, Zenon DEF HandleFrame

AnswersOwn == pc = "idle" /\ result.how = "answered" /\ clean0 => Answered

\* The steps of a call.
LEMMA CleanSteps ==
  ASSUME WireTypes, ConnControl, RequestIds, CleanCall, CallSteps
  PROVE  CleanCall' /\ AnswersOwn'
<1>1. CASE Begin
  <2>1. /\ clean0' = CleanForNext /\ pc' = "write"
        /\ UNCHANGED <<socketVars, serving, streaming>>
    BY <1>1, Zenon DEF Begin
  <2>2. CleanForNext' = CleanForNext
    BY <2>1 DEF CleanForNext, Clean, socketVars, NoReq
  <2> QED BY <2>1, <2>2 DEF CleanCall, AnswersOwn
<1>2. CASE EndContext
  <2>1. /\ UNCHANGED <<pc, call, kind, writes, body, clean0, socketVars, serverVars>>
        /\ pc # "idle"
    BY <1>2 DEF EndContext
  <2>2. Own' = Own /\ NotServing' = NotServing
    BY <2>1, Zenon DEF Own, NotServing
  <2>3. (CleanForNext => CleanForNext') /\ (OwnExchange => OwnExchange')
    BY <2>1, <2>2, Zenon DEF CleanForNext, Clean, OwnExchange, OwnRequest, OneFrame,
                      ChunksInOrder, socketVars, serverVars
  <2> QED BY <2>1, <2>3 DEF CleanCall, AnswersOwn
<1>3. CASE WriteRefused \/ GiveUp \/ Exhausted
  BY <1>3 DEF WriteRefused, GiveUp, Exhausted, Return, CleanCall, AnswersOwn
<1>4. CASE WriteClosed \/ WriteFail \/ ReadFail
  BY <1>4, Zenon DEF WriteClosed, WriteFail, ReadFail, ConnClosedError, CleanCall, AnswersOwn
<1>5. CASE Write
  <2>1. pc = "write" /\ pc' = "read" /\ conn = "open" /\ UNCHANGED <<kind, clean0>>
    BY <1>5 DEF Write, WriteFrame
  <2>2. ASSUME clean0 PROVE OwnExchange'
    <3>1. Clean /\ serving = NotServing
      BY <2>1, <2>2, Zenon DEF CleanCall, CleanForNext, Clean, RequestIds
    <3>2. Request = [id |-> Own', kind |-> kind]
      BY <1>5, <3>1, Zenon DEF Write, WriteFrame, Request, Own, Clean
    <3>3. toServer' = <<>> \/ toServer' = <<[id |-> Own', kind |-> kind']>>
      BY <1>5, <2>1, <3>1, <3>2 DEF Write, WriteFrame, Clean
    <3>4. body' = <<>> /\ UNCHANGED <<skew, torn, toClient, serving, streaming>>
      BY <1>5, Zenon DEF Write, WriteFrame, serverVars
    <3>5. OwnRequest'
      BY <3>1, <3>3, <3>4, SMTT(30) DEF OwnRequest, Clean, NotServing
    <3>6. OneFrame' /\ ChunksInOrder'
      BY <3>1, <3>4 DEF OneFrame, ChunksInOrder, Clean, NotServing
    <3> QED BY <3>5, <3>6 DEF OwnExchange
  <2> QED BY <2>1, <2>2 DEF CleanCall, AnswersOwn
<1>6. CASE ReadFrame
  <2>1. pc = "read" /\ pc' \in {"read", "idle", "retry"} /\ UNCHANGED clean0
    BY <1>6, ReadKeeps
  <2>2. clean0 => OwnExchange
    BY <2>1 DEF CleanCall
  <2> QED BY <1>6, <2>1, <2>2, OwnRead, OwnReturn DEF CleanCall, AnswersOwn
<1>7. CASE ReadGarbage
  <2>1. skew /\ UNCHANGED clean0 /\ pc = "read"
    BY <1>7, ReadKeeps, Zenon DEF ReadGarbage
  <2>2. ~clean0
    BY <2>1 DEF CleanCall, OwnExchange, OwnRequest
  <2> QED BY <2>1, <2>2, Zenon DEF CleanCall, AnswersOwn
<1> QED BY <1>1, <1>2, <1>3, <1>4, <1>5, <1>6, <1>7 DEF CallSteps

\* A reconnect ends with a clean connection.
LEMMA CleanConnect ==
  ASSUME WireTypes, ConnControl, ConnectSteps PROVE CleanCall' /\ AnswersOwn'
<1>1. CASE HelloAccepted
  <2>1. /\ pc = "helloRead" /\ pc' = "write" /\ toClient # <<>>
        /\ toClient' = Tail(toClient)
        /\ UNCHANGED <<skew, torn, toServer, serverVars>>
    BY <1>1 DEF HelloAccepted, Accepted
  <2>2. Greeting
    BY <2>1 DEF ConnControl
  <2>3. toServer = <<>> /\ Len(toClient) = 1
    <3>1. toServer # <<>> => toClient = <<>>
      BY <2>2, HelloAlone, Zenon
    <3>2. Len(toServer) = 0 /\ Len(toClient) \in Nat /\ Len(toClient) # 0
      BY <2>1, <3>1, QueueEmpty DEF WireTypes
    <3>3. \A n \in Nat : 0 + n <= 1 /\ n # 0 => n = 1
      OBVIOUS
    <3>4. Len(toServer) + Len(toClient) <= 1
      BY <2>2 DEF Greeting
    <3> QED BY <2>1, <3>1, <3>2, <3>3, <3>4, Zenon
  <2>4. toClient' = <<>>
    BY <2>1, <2>3, QueueLast, Zenon DEF WireTypes
  <2>5. Clean'
    BY <2>1, <2>2, <2>3, <2>4 DEF Clean, Greeting, serverVars, NotServing
  <2> QED BY <2>1, <2>5, Zenon DEF CleanCall, AnswersOwn, CleanForNext
<1>2. CASE ~HelloAccepted
  <2>1. pc' \notin {"idle", "write", "read"}
    BY <1>2, Zenon DEF ConnectSteps, Reconnect, CloseAndDial, Dial, DialFail, Hello,
                HelloFail, HelloRejected, DropConnection
  <2> QED BY <2>1, Zenon DEF CleanCall, AnswersOwn
<1> QED BY <1>1, <1>2

\* The steps of the server.
LEMMA CleanServer ==
  ASSUME WireTypes, RequestIds, CleanCall, AnswersOwn, ServerStep
  PROVE  CleanCall' /\ AnswersOwn'
<1>1. UNCHANGED <<pc, callVars>> /\ Own' = Own
  BY ServerKeeps, Zenon DEF Own, callVars
<1>2. applied \in Nat /\ applied' \in {applied, applied + 1}
  BY DEF ServerStep, ServerHello, ServerGarbage, ServerTake, ServerAnswer,
         ServerChunk, ServerLastChunk, ServerEvent, ServerClose, serverVars, WireTypes
<1>3. CleanForNext => CleanForNext'
  BY CleanStable
<1>4. OwnExchange => OwnExchange'
  BY OwnServer, Zenon
<1>5. Answered => Answered'
  <2>1. applied >= 1 => applied' >= 1
    BY <1>2
  <2> QED BY <1>1, <1>3, <2>1 DEF Answered, callVars
<1> QED BY <1>1, <1>3, <1>4, <1>5 DEF CleanCall, AnswersOwn, callVars

\* A call that found the connection clean is alone on it throughout.
LEMMA CleanStep ==
  ASSUME WireTypes, ConnControl, RequestIds, CleanCall, AnswersOwn, [Next]_vars
  PROVE  CleanCall' /\ AnswersOwn'
<1>1. CASE UNCHANGED vars
  <2>1. UNCHANGED <<pc, call, kind, writes, body, clean0, result, conn, skew, torn,
                    toServer, toClient, serving, streaming, applied>>
    BY <1>1 DEF vars, callVars, socketVars, serverVars
  <2>2. Own' = Own /\ NotServing' = NotServing
    BY <2>1, Zenon DEF Own, NotServing
  <2>3. (CleanForNext => CleanForNext') /\ (OwnExchange => OwnExchange')
    BY <2>1, <2>2, Zenon DEF CleanForNext, Clean, OwnExchange, OwnRequest, OneFrame,
                      ChunksInOrder
  <2>4. Answered => Answered'
    BY <2>1, <2>2, <2>3 DEF Answered
  <2> QED BY <2>1, <2>3, <2>4, Zenon DEF CleanCall, AnswersOwn
<1> QED BY <1>1, CleanSteps, CleanConnect, CleanServer, NextCases

(***************************************************************************)
(* The invariant behind what a call may expect of its connection.          *)
(***************************************************************************)
CallInv == WireTypes /\ ConnControl /\ RequestIds /\ CleanCall /\ AnswersOwn

\* It holds of a fresh connection.
LEMMA CallInvInit == ASSUME Init PROVE CallInv
<1>1. RequestIds
  BY SMTT(30) DEF Init, RequestIds
<1>2. CleanCall /\ AnswersOwn
  BY DEF Init, CleanCall, AnswersOwn
<1> QED BY <1>1, <1>2, ControlInit, Zenon DEF CallInv

\* It holds in every reachable state.
LEMMA CallInvariant == Spec => []CallInv
<1>1. CallInv /\ [Next]_vars => CallInv'
  BY TypesStep, ControlStep, RequestStep, CleanStep DEF CallInv
<1> QED BY <1>1, CallInvInit, PTL DEF Spec

(***************************************************************************)
(* A call that found its connection clean and is answered returns the      *)
(* answer to the last request it wrote, all its chunks in order, and       *)
(* leaves nothing behind for the next (tcp_client.go, Send; inspect.go,    *)
(* SendChunked).                                                           *)
(***************************************************************************)
THEOREM AnswersAreOwn == Spec => []OwnAnswer
<1>1. CallInv => OwnAnswer
  BY Zenon DEF CallInv, AnswersOwn, Answered, OwnAnswer, Own
<1> QED BY <1>1, CallInvariant, PTL

(***************************************************************************)
(* All that is on its way to such a call, while it reads, answers its      *)
(* latest request: no event of an earlier subscription, no late answer to  *)
(* an attempt before the reconnect (tcp_client.go, Stream and Reconnect).  *)
(***************************************************************************)
THEOREM FramesAreOwn == Spec => []OnlyOwnFrames
<1>1. CallInv => OnlyOwnFrames
  BY DEF CallInv, CleanCall, OwnExchange, OwnRequest, OnlyOwnFrames, Own
<1> QED BY <1>1, CallInvariant, PTL

-----------------------------------------------------------------------------
\* A step that neither writes nor counts keeps the count of requests.
LEMMA RetriesKept ==
  ASSUME WireTypes, Retries, pc' \notin {"write", "dial", "hello", "helloRead"},
         UNCHANGED <<call, kind, attempt, writes, applied>>,
         UNCHANGED toServer \/ toServer' = <<>>
  PROVE  Retries'
<1>1. InFlight' \in {InFlight, {}}
  BY QueueEmpty, SMTT(30) DEF InFlight, WireTypes
<1> QED BY <1>1, Zenon DEF Retries

\* One write for each attempt.
LEMMA RetriesCall ==
  ASSUME WireTypes, RequestIds, Retries, CallSteps PROVE Retries'
<1>1. CASE Begin
  <2>1. /\ call' = call + 1 /\ attempt' = 0 /\ writes' = 0 /\ applied' = 0
        /\ UNCHANGED toServer /\ pc' = "write"
    BY <1>1 DEF Begin, socketVars
  <2>2. InFlight' = {}
    <3> SUFFICES ASSUME NEW i \in 1..Len(toServer), toServer[i].id[1] = call + 1
                 PROVE  FALSE
      BY <2>1, Zenon DEF InFlight
    <3>1. toServer[i] \in Numbered(call) /\ call \in Nat
      BY Zenon DEF RequestIds, WireTypes
    <3> QED BY <3>1, SMTT(30) DEF Numbered, NoReq
  <2> QED BY <2>1, <2>2, TCPAssumption DEF Retries
<1>2. CASE Write
  <2> SUFFICES ASSUME kind # "stream" PROVE Retries'
    BY <1>2, Zenon DEF Write, WriteFrame, Retries
  <2>1. /\ pc = "write" /\ pc' = "read" /\ writes' = writes + 1
        /\ UNCHANGED <<call, kind, attempt, applied>>
        /\ toServer' \in {toServer, Append(toServer, Request)}
    BY <1>2 DEF Write, WriteFrame, NextWrite, serverVars
  <2>2. InFlight = {} /\ writes <= attempt /\ attempt <= MaxReconnect
        /\ applied <= writes
    BY <2>1 DEF Retries
  <2>3. InFlight' \subseteq {Len(toServer) + 1}
    <3>1. CASE toServer' = toServer
      BY <2>1, <2>2, <3>1, Zenon DEF InFlight
    <3>2. CASE toServer' = Append(toServer, Request)
      <4> SUFFICES ASSUME NEW i \in 1..Len(toServer'), toServer'[i].id[1] = call
                   PROVE  i = Len(toServer) + 1
        BY <2>1, Zenon DEF InFlight
      <4>1. i \in 1..Len(toServer) \/ i = Len(toServer) + 1
        BY <3>2, RequestFacts, QueueAppend, SMTT(30) DEF WireTypes
      <4>2. ~(i \in 1..Len(toServer))
        <5> SUFFICES ASSUME i \in 1..Len(toServer) PROVE FALSE
          BY Zenon
        <5>1. toServer'[i] = toServer[i]
          BY <3>2, RequestFacts, QueueAppend, SMTT(30) DEF WireTypes
        <5>2. i \in InFlight
          BY <5>1, Zenon DEF InFlight
        <5> QED BY <2>2, <5>2
      <4> QED BY <4>1, <4>2
    <3> QED BY <2>1, <3>1, <3>2, Zenon
  <2>4. /\ attempt \in Nat /\ writes \in Nat /\ applied \in Nat
    BY Zenon DEF WireTypes
  <2> QED BY <2>1, <2>2, <2>3, <2>4, SMTT(30) DEF Retries
<1>3. CASE EndContext
  <2>1. UNCHANGED <<pc, call, kind, attempt, writes, toServer, applied>>
    BY <1>3, Zenon DEF EndContext, socketVars, serverVars
  <2>2. InFlight' = InFlight
    BY <2>1 DEF InFlight
  <2> QED BY <2>1, <2>2, Zenon DEF Retries
<1>4. CASE WriteRefused \/ GiveUp \/ Exhausted \/ WriteClosed \/ WriteFail \/ ReadFail
  <2>1. /\ UNCHANGED <<call, kind, attempt, writes, toServer, applied>>
        /\ pc' \in {"idle", "retry"}
    BY <1>4, Zenon DEF WriteRefused, GiveUp, Exhausted, WriteClosed, WriteFail, ReadFail,
                Return, ConnClosedError, callVars, socketVars, serverVars
  <2> QED BY <2>1, RetriesKept, Zenon
<1>5. CASE ReadFrame \/ ReadGarbage
  BY <1>5, ReadKeeps, RetriesKept DEF serverVars
<1> QED BY <1>1, <1>2, <1>3, <1>4, <1>5 DEF CallSteps

\* A reconnect is one more attempt, and drops the request of the last.
LEMMA RetriesConnect ==
  ASSUME WireTypes, ConnControl, RequestIds, Retries, ConnectSteps PROVE Retries'
<1> USE DEF WireTypes
<1>0. UNCHANGED <<call, kind, writes>>
  BY Zenon DEF ConnectSteps, Reconnect, CloseAndDial, Dial, DialFail, Hello, HelloFail,
         HelloRejected, HelloAccepted, Accepted, DropConnection, callVars
<1> SUFFICES ASSUME kind # "stream" PROVE Retries'
  BY <1>0, Zenon DEF Retries
<1>1. CASE Reconnect
  <2>1. /\ attempt < MaxReconnect /\ attempt' = attempt + 1 /\ toServer' = <<>>
        /\ applied' \in {applied} \cup (IF InFlight # {} THEN {applied + 1} ELSE {})
    BY <1>1, Zenon DEF Reconnect, CloseAndDial
  <2>2. applied' <= writes
    BY <2>1, Zenon DEF Retries
  <2>3. InFlight' = {}
    BY <2>1 DEF InFlight
  <2>4. writes <= attempt + 1
    BY Zenon DEF Retries
  <2>5. attempt' <= MaxReconnect /\ writes' <= attempt' /\ writes' <= attempt' + 1
    BY <1>0, <2>1, <2>4, TCPAssumption, SMTT(30)
  <2> QED BY <1>0, <2>2, <2>3, <2>5, Zenon DEF Retries
<1>2. CASE DialFail \/ HelloFail \/ HelloRejected
  <2>1. /\ pc' = "retry" /\ UNCHANGED <<attempt, applied>>
        /\ UNCHANGED toServer \/ toServer' = <<>>
    BY <1>2, Zenon DEF DialFail, HelloFail, HelloRejected, DropConnection, callVars,
                socketVars, serverVars
  <2> QED BY <1>0, <2>1, RetriesKept, Zenon
<1>3. CASE Dial
  <2>1. pc = "dial" /\ pc' = "hello" /\ UNCHANGED <<attempt, applied, toServer>>
    BY <1>3, Zenon DEF Dial, callVars
  <2>2. InFlight' = InFlight
    BY <1>0, <2>1, Zenon DEF InFlight
  <2> QED BY <1>0, <2>1, <2>2, Zenon DEF Retries
<1>4. ASSUME pc \in {"hello", "helloRead"}, NEW i \in 1..Len(toServer)
      PROVE  toServer[i] = [id |-> NoReq, kind |-> "hello"]
  <2>1. toServer # <<>>
    BY <1>4, QueueEmpty, SMTT(30)
  <2>2. Greeting
    BY <1>4, <2>1, Zenon DEF ConnControl, Blank
  <2>3. Len(toServer) = 1 /\ Head(toServer) = [id |-> NoReq, kind |-> "hello"]
    BY <2>1, <2>2, HelloAlone DEF Greeting
  <2>4. Head(toServer) = toServer[1] /\ i = 1
    BY <1>4, <2>1, <2>3, QueueTail, SMTT(30)
  <2> QED BY <2>3, <2>4, Zenon
<1>5. CASE Hello
  <2>1. /\ pc = "hello" /\ pc' = "helloRead" /\ UNCHANGED <<attempt, applied>>
        /\ toServer = <<>> /\ call >= 1
        /\ toServer' \in {toServer, Append(toServer, [id |-> NoReq, kind |-> "hello"])}
    BY <1>5, Zenon DEF Hello, callVars, serverVars, ConnControl, Blank, RequestIds
  <2>2. InFlight' = {}
    BY <1>0, <2>1, SMTT(30) DEF InFlight, NoReq
  <2> QED BY <1>0, <2>1, <2>2, Zenon DEF Retries
<1>6. CASE HelloAccepted
  <2>1. /\ pc = "helloRead" /\ pc' = "write"
        /\ UNCHANGED <<attempt, applied, toServer>> /\ call >= 1
    BY <1>6, Zenon DEF HelloAccepted, Accepted, serverVars, RequestIds
  <2>2. InFlight' = {}
    BY <1>0, <1>4, <2>1, SMTT(30) DEF InFlight, NoReq
  <2> QED BY <1>0, <2>1, <2>2, Zenon DEF Retries
<1> QED BY <1>1, <1>2, <1>3, <1>5, <1>6, Zenon DEF ConnectSteps

\* The server applies a request it has read once.
LEMMA RetriesServer ==
  ASSUME WireTypes, Retries, ServerStep PROVE Retries'
<1> USE DEF WireTypes
<1>0. UNCHANGED <<pc, call, kind, attempt, writes>>
  BY ServerKeeps, Zenon DEF callVars
<1> SUFFICES ASSUME kind # "stream" PROVE Retries'
  BY <1>0, Zenon DEF Retries
<1>1. ASSUME toServer # <<>>, toServer' = Tail(toServer)
      PROVE  \A i \in InFlight' : i + 1 \in InFlight /\ i \in Nat /\ i + 1 # 1
  BY <1>0, <1>1, QueueTail, SMTT(30) DEF InFlight
<1>2. CASE ServerHello \/ ServerGarbage
  <2>1. toServer # <<>> /\ toServer' = Tail(toServer) /\ UNCHANGED applied
    BY <1>2, Zenon DEF ServerHello, ServerGarbage, serverVars
  <2> QED BY <1>0, <1>1, <2>1, SMTT(30) DEF Retries
<1>3. CASE ServerTake
  <2>1. toServer # <<>> /\ toServer' = Tail(toServer)
    BY <1>3, Zenon DEF ServerTake
  <2>2. CASE Head(toServer).id[1] = call
    <3>1. 1 \in InFlight
      BY <2>1, <2>2, QueueTail, Zenon DEF InFlight
    <3>2. InFlight' = {}
      BY <1>1, <2>1, <3>1, Zenon DEF Retries
    <3>3. applied' \in {applied, applied + 1}
      BY <1>3 DEF ServerTake
    <3>4. applied' <= writes
      BY <3>1, <3>3, Zenon DEF Retries
    <3> QED BY <1>0, <3>2, <3>4, Zenon DEF Retries
  <2>3. CASE Head(toServer).id[1] # call
    <3>1. UNCHANGED applied
      BY <1>3, <2>3, Zenon DEF ServerTake
    <3> QED BY <1>0, <1>1, <2>1, <3>1, SMTT(30) DEF Retries
  <2> QED BY <2>2, <2>3, Zenon
<1>4. CASE ServerAnswer \/ ServerChunk \/ ServerLastChunk \/ ServerEvent \/ ServerClose
  <2>1. UNCHANGED applied /\ (UNCHANGED toServer \/ toServer' = <<>>)
    BY <1>4, Zenon DEF ServerAnswer, ServerChunk, ServerLastChunk, ServerEvent, ServerClose,
                serverVars
  <2>2. InFlight' \in {InFlight, {}}
    BY <1>0, <2>1, SMTT(30) DEF InFlight
  <2> QED BY <1>0, <2>1, <2>2 DEF Retries
<1> QED BY <1>2, <1>3, <1>4, Zenon DEF ServerStep

\* The bounds hold throughout.
LEMMA RetriesStep ==
  ASSUME WireTypes, ConnControl, RequestIds, Retries, [Next]_vars PROVE Retries'
<1>1. CASE UNCHANGED vars
  <2>1. UNCHANGED <<pc, call, kind, attempt, writes, toServer, applied>>
    BY <1>1 DEF vars, callVars, socketVars, serverVars
  <2>2. InFlight' = InFlight
    BY <2>1, Zenon DEF InFlight
  <2> QED BY <2>1, <2>2, Zenon DEF Retries
<1> QED BY <1>1, RetriesCall, RetriesConnect, RetriesServer, NextCases

(***************************************************************************)
(* Whatever fails, a request reaches the server at most once for each      *)
(* write, a call writes once more than it reconnects and reconnects at     *)
(* most MaxReconnect times; the request of a call that is answered did     *)
(* reach it (client.go, sendWithReconnect).                                *)
(***************************************************************************)
THEOREM RetriesAreBounded == Spec => []AppliedPerAttempt
<1>1. Init => Retries
  BY TCPAssumption DEF Init, Retries, InFlight
<1>2. CallInv /\ Retries /\ [Next]_vars => Retries'
  BY RetriesStep, Zenon DEF CallInv
<1>3. CallInv /\ Retries => AppliedPerAttempt
  BY DEF CallInv, AnswersOwn, Answered, Retries, AppliedPerAttempt
<1> QED BY <1>1, <1>2, <1>3, CallInvariant, PTL DEF Spec
=============================================================================
