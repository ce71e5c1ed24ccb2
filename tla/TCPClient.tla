----------------------------- MODULE TCPClient ------------------------------
(***************************************************************************)
(* One pooled TCPClient (tcp_client.go) through a series of calls: Send,   *)
(* SendChunked or Stream on the connection, under the reconnect loops of   *)
(* sendWithReconnect and Client.stream (client.go) and                     *)
(* sendChunkedWithReconnect (inspect.go).  ConnPool shows that calls use a *)
(* connection one after the other, so calls here are numbered.             *)
(*                                                                         *)
(* The socket and the server are the environment: frames may be delayed,   *)
(* the server may close at any time, and any read or write may hit its     *)
(* deadline.  A frame is abstracted to the request it answers, its status  *)
(* and, in a chunked answer, its position.                                 *)
(***************************************************************************)
EXTENDS Integers, Sequences

CONSTANTS
  Kinds,         \* the kinds of call made: "send", "chunked", "stream"
  MaxReconnect,  \* maxReconnectAttempts
  MaxCalls,      \* bound: calls made on the connection
  MaxChunks,     \* bound: frames of a chunked answer
  MaxBody,       \* bound: frames appended to one body, a stray frame included
  SocketBuffer   \* bound: frames in flight towards the client

ASSUME TCPAssumption ==
  /\ Kinds \subseteq {"send", "chunked", "stream"}
  /\ MaxReconnect \in Nat \ {0}
  /\ MaxCalls \in Nat
  /\ MaxChunks \in Nat \ {0}
  /\ MaxBody \in Nat \ {0}
  /\ SocketBuffer \in Nat \ {0}

VARIABLES
  pc,         \* where the call is
  call,       \* number of the current or last call
  kind,       \* its kind
  ctx,        \* its context: "live", "expired" (deadline), "cancelled"
  attempt,    \* attempt, the counter of the reconnect loop
  writes,     \* how often the call has written its request
  body,       \* body, the chunks SendChunked has appended
  clean0,     \* history: the connection was clean when the call began
  result,     \* history: what the last call returned
  conn,       \* the client's socket: "open" or "closed"
  skew,       \* the client's read position is inside a frame
  torn,       \* the client has written part of a frame
  toServer,   \* frames the client has written and the server not read
  toClient,   \* frames the server has written and the client not read
  peer,       \* the server's end: "up" or "down"
  authed,     \* the server has accepted HELLO on this connection
  serving,    \* the request the server is answering
  streaming,  \* the request whose events the server pushes
  applied     \* history: how often the unary request reached the server

callVars == <<call, kind, ctx, attempt, writes, body, clean0, result>>
socketVars == <<conn, skew, torn, toServer, toClient>>
serverVars == <<peer, authed, serving, streaming, applied>>
vars == <<pc, callVars, socketVars, serverVars>>

NoReq == <<0, 0>>

Statuses == {"ok", "nxt", "err", "odd", "big"}

Frame(i, s, k) == [id |-> i, st |-> s, part |-> k]

(***************************************************************************)
(* Nothing of an earlier call is left on the connection.                   *)
(***************************************************************************)
Clean ==
  /\ ~skew /\ ~torn
  /\ toServer = <<>> /\ toClient = <<>>
  /\ serving.id = NoReq /\ streaming = NoReq

\* A closed connection is replaced before the next request is written.
CleanForNext == conn = "closed" \/ Clean

NotServing == [id |-> NoReq, kind |-> "garbage", part |-> 0]

\* After NewTCPClient: connected, and HELLO answered.
Init ==
  /\ pc = "idle" /\ call = 0 /\ kind \in Kinds /\ ctx = "live"
  /\ attempt = 0 /\ writes = 0 /\ body = <<>> /\ clean0 = TRUE
  /\ result = [how |-> "none", id |-> NoReq, body |-> <<>>]
  /\ conn = "open" /\ skew = FALSE /\ torn = FALSE
  /\ toServer = <<>> /\ toClient = <<>>
  /\ peer = "up" /\ authed = TRUE
  /\ serving = NotServing /\ streaming = NoReq /\ applied = 0

-----------------------------------------------------------------------------
\* GetConnection returned this connection and the call starts to use it.
Begin ==
  /\ pc = "idle" /\ call < MaxCalls
  /\ \E k \in Kinds : kind' = k
  /\ pc' = "write" /\ call' = call + 1 /\ ctx' = "live"
  /\ attempt' = 0 /\ writes' = 0 /\ body' = <<>>
  /\ clean0' = CleanForNext
  /\ applied' = 0
  /\ UNCHANGED <<result, socketVars, peer, authed, serving, streaming>>

\* The caller's context ends.
EndContext ==
  /\ pc # "idle" /\ ctx = "live"
  /\ ctx' \in {"expired", "cancelled"}
  /\ UNCHANGED <<pc, call, kind, attempt, writes, body, clean0, result,
                 socketVars, serverVars>>

\* The call returns; the connection goes back to the pool as it is.
Return(how, id, chunks) ==
  /\ pc' = "idle"
  /\ result' = [how |-> how, id |-> id, body |-> chunks]
  /\ UNCHANGED <<call, kind, ctx, attempt, writes, body, clean0>>

\* An error that normalizeConnectionError turns into ErrConnClosed.
ConnClosedError == pc' = "retry" /\ UNCHANGED callVars

-----------------------------------------------------------------------------
(***************************************************************************)
(* Send, Stream and SendChunked: SetDeadline and writeFrame.               *)
(***************************************************************************)
\* A stream rewrites its request without limit; 1 and 2 tell it apart.
NextWrite == IF kind = "stream" THEN (writes % 2) + 1 ELSE writes + 1

Request == IF torn THEN [id |-> NoReq, kind |-> "garbage"]
                   ELSE [id |-> <<call, NextWrite>>, kind |-> kind]

\* The request is longer than maxMessageSize.
WriteRefused ==
  /\ pc = "write"
  /\ Return("failed", NoReq, <<>>)
  /\ UNCHANGED <<socketVars, serverVars>>

WriteFrame ==
  /\ pc = "write" /\ conn = "open" /\ ctx # "expired"
  /\ toServer' = IF peer = "up" THEN Append(toServer, Request) ELSE toServer
  /\ pc' = "read"
  /\ writes' = NextWrite
  /\ UNCHANGED <<call, kind, ctx, attempt, clean0, result,
                 conn, skew, torn, toClient, serverVars>>

\* Faulty variant: the body survives from the attempt before.
WriteKeepingBody == WriteFrame /\ UNCHANGED body

Write == WriteFrame /\ body' = <<>>

\* SetDeadline fails on a closed socket; nothing is written.
WriteClosed ==
  /\ pc = "write" /\ conn = "closed"
  /\ ConnClosedError
  /\ UNCHANGED <<socketVars, serverVars>>

\* The write fails, possibly after part of the frame.
WriteFail ==
  /\ pc = "write" /\ conn = "open"
  /\ torn' \in {torn, TRUE}
  /\ ConnClosedError
  /\ UNCHANGED <<conn, skew, toServer, toClient, serverVars>>

(***************************************************************************)
(* readFrameInto.  Its error is a timeout or the end of the connection; it *)
(* may come after part of a frame has been consumed.                       *)
(***************************************************************************)
ReadFail ==
  /\ pc = "read"
  /\ skew' \in {skew, skew \/ toClient # <<>>}
  /\ ConnClosedError
  /\ UNCHANGED <<conn, torn, toServer, toClient, serverVars>>

\* What each kind of call does with a frame it has read.
HandleSend(f) ==
  IF f.st = "big" THEN Return("failed", f.id, <<>>)
                  ELSE Return("answered", f.id, <<>>)

HandleChunk(f) ==
  LET chunks == Append(body, <<f.id, f.part>>) IN
  CASE f.st = "nxt" -> /\ Len(body) < MaxBody
                       /\ body' = chunks
                       /\ UNCHANGED <<pc, call, kind, ctx, attempt, writes,
                                      clean0, result>>
    [] f.st = "ok"  -> Return("answered", f.id, chunks)
    [] f.st = "err" -> Return("answered", f.id, <<>>)
    [] OTHER        -> Return("failed", f.id, <<>>)

\* The handler may accept an event or end the stream with an error, which
\* Client.stream replaces by the context's own when that has ended.  An error of
\* the handler that wraps ErrConnClosed is taken for one of the connection.
HandleEvent(f) ==
  \/ f.st = "ok" /\ UNCHANGED <<pc, callVars>>
  \/ f.st = "ok" /\ ConnClosedError
  \/ f.st = "ok" /\ Return(IF ctx = "live" THEN "stopped" ELSE "ctx", f.id, <<>>)
  \/ f.st # "ok" /\ Return(IF ctx = "live" THEN "failed" ELSE "ctx", f.id, <<>>)

HandleFrame(f) ==
  \/ kind = "send" /\ HandleSend(f)
  \/ kind = "chunked" /\ HandleChunk(f)
  \/ kind = "stream" /\ HandleEvent(f)

\* A frame larger than maxMessageSize is refused with its payload unread.
TakeFrame ==
  /\ pc = "read" /\ conn = "open" /\ ~skew /\ toClient # <<>>
  /\ HandleFrame(Head(toClient))
  /\ IF Head(toClient).st = "big"
     THEN skew' = TRUE /\ UNCHANGED toClient
     ELSE toClient' = Tail(toClient) /\ UNCHANGED skew
  /\ UNCHANGED <<conn, torn, toServer, serverVars>>

\* Faulty variant: the deadline of the context is left out.
ReadFrameNoDeadline == TakeFrame

ReadFrame == ctx # "expired" /\ TakeFrame

\* Inside a frame the next header is payload: any size, any content.
ReadGarbage ==
  /\ pc = "read" /\ conn = "open" /\ ctx # "expired"
  /\ skew /\ toClient # <<>>
  /\ \E s \in Statuses : HandleFrame(Frame(NoReq, s, 0))
  /\ toClient' = Tail(toClient)
  /\ UNCHANGED <<conn, skew, torn, toServer, serverVars>>

-----------------------------------------------------------------------------
(***************************************************************************)
(* The reconnect loops.  attempt counts the Reconnects of one call, or of  *)
(* one interruption of a stream.                                           *)
(***************************************************************************)
GiveUp ==
  /\ pc = "retry" /\ attempt < MaxReconnect /\ ctx # "live"
  /\ Return("ctx", NoReq, <<>>)
  /\ UNCHANGED <<socketVars, serverVars>>

Exhausted ==
  /\ pc = "retry" /\ attempt = MaxReconnect
  /\ Return("exhausted", NoReq, <<>>)
  /\ UNCHANGED <<socketVars, serverVars>>

\* What the server had not read of this call may still reach it.
InFlight ==
  {i \in 1..Len(toServer) : toServer[i].id[1] = call /\ kind # "stream"}

\* TCPClient.Reconnect: close the old connection, whatever state it is in.
CloseAndDial ==
  /\ attempt' = attempt + 1
  /\ pc' = "dial" /\ conn' = "closed"
  /\ skew' = FALSE /\ torn' = FALSE /\ toServer' = <<>> /\ toClient' = <<>>
  /\ peer' = "down" /\ authed' = FALSE
  /\ serving' = NotServing /\ streaming' = NoReq
  /\ applied' \in {applied} \cup (IF InFlight # {} THEN {applied + 1} ELSE {})
  /\ UNCHANGED <<call, kind, ctx, writes, body, clean0, result>>

\* Faulty variant: the request is sent again on the same connection.
ReconnectNot ==
  /\ pc = "retry" /\ attempt < MaxReconnect /\ ctx = "live"
  /\ attempt' = attempt + 1 /\ pc' = "write"
  /\ UNCHANGED <<call, kind, ctx, writes, body, clean0, result,
                 socketVars, serverVars>>

\* Faulty variant: only the deadline of the context is looked at.
ReconnectCancelled ==
  pc = "retry" /\ attempt < MaxReconnect /\ ctx # "expired" /\ CloseAndDial

Reconnect ==
  pc = "retry" /\ attempt < MaxReconnect /\ ctx = "live" /\ CloseAndDial

Dial ==
  /\ pc = "dial"
  /\ pc' = "hello" /\ conn' = "open" /\ peer' = "up"
  /\ UNCHANGED <<callVars, skew, torn, toServer, toClient, authed, serving,
                 streaming, applied>>

DialFail ==
  /\ pc = "dial"
  /\ pc' = "retry"
  /\ UNCHANGED <<callVars, socketVars, serverVars>>

\* hello: the handshake has a context of its own, not the caller's.
Hello ==
  /\ pc = "hello"
  /\ toServer' = IF peer = "up"
                 THEN Append(toServer, [id |-> NoReq, kind |-> "hello"])
                 ELSE toServer
  /\ pc' = "helloRead"
  /\ UNCHANGED <<callVars, conn, skew, torn, toClient, serverVars>>

\* connect closes the new connection when hello fails.
DropConnection ==
  /\ conn' = "closed" /\ pc' = "retry"
  /\ skew' = FALSE /\ torn' = FALSE /\ toServer' = <<>> /\ toClient' = <<>>
  /\ peer' = "down" /\ authed' = FALSE
  /\ serving' = NotServing /\ streaming' = NoReq
  /\ UNCHANGED <<callVars, applied>>

\* Faulty variant: connect leaves the connection open when hello fails.
HelloFailOpen ==
  /\ pc \in {"hello", "helloRead"}
  /\ pc' = "retry"
  /\ UNCHANGED <<callVars, socketVars, serverVars>>

HelloFail ==
  /\ pc \in {"hello", "helloRead"}
  /\ DropConnection

HelloRejected ==
  /\ pc = "helloRead" /\ toClient # <<>> /\ Head(toClient).st # "ok"
  /\ DropConnection

Accepted ==
  /\ pc = "helloRead" /\ toClient # <<>> /\ Head(toClient).st = "ok"
  /\ toClient' = Tail(toClient)
  /\ pc' = "write"
  /\ UNCHANGED <<call, kind, ctx, writes, body, clean0, result,
                 conn, skew, torn, toServer, serverVars>>

\* Faulty variant: every successful reconnect renews the allowance.
HelloAcceptedAfresh == Accepted /\ attempt' = 0

HelloAccepted ==
  Accepted /\ attempt' = IF kind = "stream" THEN 0 ELSE attempt

-----------------------------------------------------------------------------
(***************************************************************************)
(* The server (external), as the client and its tests use it: requests are *)
(* answered in order, one frame per command, "nxt" frames then "ok" for a  *)
(* chunked answer, "ok" frames without end for a stream.                   *)
(***************************************************************************)
Push(f) ==
  /\ peer = "up" /\ Len(toClient) < SocketBuffer
  /\ toClient' = Append(toClient, f)

ServerHello ==
  /\ serving.id = NoReq /\ toServer # <<>> /\ Head(toServer).kind = "hello"
  /\ \/ Push(Frame(NoReq, "ok", 0)) /\ authed' = TRUE
     \/ Push(Frame(NoReq, "err", 0)) /\ UNCHANGED authed
  /\ toServer' = Tail(toServer)
  /\ UNCHANGED <<pc, callVars, conn, skew, torn, peer, serving, streaming, applied>>

ServerGarbage ==
  /\ serving.id = NoReq /\ toServer # <<>> /\ Head(toServer).kind = "garbage"
  /\ Push(Frame(NoReq, "err", 0))
  /\ toServer' = Tail(toServer)
  /\ UNCHANGED <<pc, callVars, conn, skew, torn, serverVars>>

ServerTake ==
  /\ peer = "up" /\ serving.id = NoReq /\ toServer # <<>>
  /\ LET r == Head(toServer) IN
       /\ r.kind \in Kinds
       /\ applied' = IF r.id[1] = call /\ r.kind # "stream"
                      THEN applied + 1 ELSE applied
       /\ IF r.kind = "stream"
          THEN streaming' = r.id /\ UNCHANGED serving
          ELSE serving' = [id |-> r.id, kind |-> r.kind, part |-> 0]
               /\ UNCHANGED streaming
  /\ toServer' = Tail(toServer)
  /\ UNCHANGED <<pc, callVars, conn, skew, torn, toClient, peer, authed>>

ServerAnswer ==
  /\ serving.kind = "send"
  /\ \E s \in {"ok", "err", "big"} : Push(Frame(serving.id, s, 0))
  /\ serving' = NotServing
  /\ UNCHANGED <<pc, callVars, conn, skew, torn, toServer, peer, authed,
                 streaming, applied>>

ServerChunk ==
  /\ serving.kind = "chunked" /\ serving.part + 1 < MaxChunks
  /\ \E s \in {"nxt", "odd"} : Push(Frame(serving.id, s, serving.part + 1))
  /\ serving' = [serving EXCEPT !.part = @ + 1]
  /\ UNCHANGED <<pc, callVars, conn, skew, torn, toServer, peer, authed,
                 streaming, applied>>

ServerLastChunk ==
  /\ serving.kind = "chunked"
  /\ \E s \in {"ok", "err"} : Push(Frame(serving.id, s, serving.part + 1))
  /\ serving' = NotServing
  /\ UNCHANGED <<pc, callVars, conn, skew, torn, toServer, peer, authed,
                 streaming, applied>>

ServerEvent ==
  /\ streaming # NoReq
  /\ \E s \in {"ok", "err"} : Push(Frame(streaming, s, 0))
  /\ UNCHANGED <<pc, callVars, conn, skew, torn, toServer, serverVars>>

\* The server closes the connection, or the network loses it.
ServerClose ==
  /\ peer = "up"
  /\ peer' = "down"
  /\ toServer' = <<>> /\ serving' = NotServing /\ streaming' = NoReq
  /\ UNCHANGED <<pc, callVars, conn, skew, torn, toClient, authed, applied>>

-----------------------------------------------------------------------------
\* Every call has been made and the connection lies idle.
Finished == pc = "idle" /\ call = MaxCalls /\ UNCHANGED vars

ClientStep ==
  \/ WriteRefused \/ Write \/ WriteClosed \/ WriteFail
  \/ ReadFail \/ ReadFrame \/ ReadGarbage
  \/ GiveUp \/ Exhausted \/ Reconnect
  \/ Hello \/ HelloFail \/ HelloRejected \/ HelloAccepted

DialStep == Dial \/ DialFail

ServerStep ==
  \/ ServerHello \/ ServerGarbage \/ ServerTake \/ ServerAnswer
  \/ ServerChunk \/ ServerLastChunk \/ ServerEvent \/ ServerClose

Next == Begin \/ EndContext \/ ClientStep \/ DialStep \/ ServerStep \/ Finished

Spec == Init /\ [][Next]_vars

(***************************************************************************)
(* The calling goroutine runs, and every read and write has a deadline, so *)
(* each of its steps ends whatever the server does.  A dial has none, and  *)
(* nothing is assumed of it.                                               *)
(***************************************************************************)
FairSpec == Spec /\ WF_vars(ClientStep)

-----------------------------------------------------------------------------
(***************************************************************************)
(* The server is never sent a command on a connection whose HELLO it has   *)
(* not accepted: not after a failed reconnect, nor by the next call on a   *)
(* connection a failed reconnect left in the pool (README.md:57-58).       *)
(***************************************************************************)
AuthenticatedFirst ==
  \A i \in 1..Len(toServer) : toServer[i].kind \in Kinds => authed

(***************************************************************************)
(* On a connection that was clean when the call began, an answered call    *)
(* returns the answer to the last request it wrote, never the late answer  *)
(* to an earlier attempt; SendChunked returns every chunk of it, in order, *)
(* and none of an interrupted attempt.  Nothing is left on the connection  *)
(* for the next call to read.                                              *)
(***************************************************************************)
OwnAnswer ==
  pc = "idle" /\ result.how = "answered" /\ clean0 =>
    /\ result.id = <<call, writes>>
    /\ \A i \in 1..Len(result.body) : result.body[i] = <<result.id, i>>
    /\ CleanForNext

(***************************************************************************)
(* The same without regard to the state the previous call left behind: no  *)
(* call returns the answer to the request of another.                      *)
(***************************************************************************)
AnswersMatch ==
  pc = "idle" /\ result.how = "answered" => result.id[1] \in {0, call}

(***************************************************************************)
(* While a call that found the connection clean is reading, all frames on  *)
(* their way to it answer its latest request: a stream that reconnected    *)
(* hands no event of its earlier subscription to the handler.              *)
(***************************************************************************)
OnlyOwnFrames ==
  pc = "read" /\ clean0 =>
    \A i \in 1..Len(toClient) : toClient[i].id = <<call, writes>>

(***************************************************************************)
(* Retries are bounded: the server gets a request at most once for each    *)
(* write, writes are one more than reconnects, and an answered call's      *)
(* request did get there.                                                  *)
(***************************************************************************)
AppliedPerAttempt ==
  kind # "stream" =>
    /\ applied <= writes /\ writes <= attempt + 1 /\ attempt <= MaxReconnect
    /\ pc = "idle" /\ result.how = "answered" /\ clean0 => applied >= 1

\* No dial lasts for ever: dial() sets no timeout, under TLS the peer decides.
DialsEnd == []<>(pc # "dial")

(***************************************************************************)
(* Send and SendChunked return, whatever the server does, as long as the   *)
(* chunks of an answer are finitely many; a stream returns once its        *)
(* context's deadline has passed, even while the server keeps pushing      *)
(* events.  Both unless a dial lasts for ever.                             *)
(***************************************************************************)
CallsReturn ==
  DialsEnd => (pc # "idle" /\ (kind # "stream" \/ ctx = "expired")) ~> pc = "idle"

(***************************************************************************)
(* A stream whose context is cancelled returns once its connection is cut, *)
(* even if the server would accept every reconnect.  Nothing else ends it: *)
(* Stream does not look at the context while events keep coming.           *)
(***************************************************************************)
StreamEndsWhenCut ==
  DialsEnd /\ []<>(peer = "down") =>
    (kind = "stream" /\ ctx = "cancelled") ~> pc = "idle"
=============================================================================
