------------------------------ MODULE Connect -------------------------------
(***************************************************************************)
(* How a TCPClient gets and keeps a connection: the options (options.go),  *)
(* NewTCPClient, connect, hello, Reconnect and SetMaxMessageSizeUnsafe     *)
(* (tcp_client.go) with the size of the pooled read buffers                *)
(* (bytes_pool.go), and the loop of sendWithReconnect (client.go) that     *)
(* reconnects.  The server behind the address may be restarted with other  *)
(* settings while the client lives.                                        *)
(*                                                                         *)
(* A size is one of the numbers of module Response, which are ordered.     *)
(* Interleavings of frames and late answers are the subject of TCPClient.  *)
(***************************************************************************)
EXTENDS Response

CONSTANTS
  OptionLists,    \* the lists of options NewTCPClient is called with
  Servers,        \* the settings the server may run with
  RequestSizes,   \* the sizes of the requests callers send
  HelloSize,      \* bound: size of HELLO, and of the answer to it
  MaxReconnect,   \* maxReconnectAttempts
  MaxRestarts     \* bound: restarts of the server

Down == [tls |-> FALSE, tokens |-> {}, hello |-> <<>>]

\* A string that is not set.
Unset == ""

Files == {Unset, "good", "bad"}

Options ==
  [kind : {"nil"}] \cup [kind : {"token"}, token : STRING]
  \cup [kind : {"tls"},
        config : [CAFile : Files, CertFile : Files, KeyFile : Files,
                  ServerName : STRING, SkipVerify : BOOLEAN, MinVersion : STRING]]
  \cup [kind : {"tlsConfig"}, set : BOOLEAN]

ASSUME ConnectAssumption ==
  /\ OptionLists \subseteq Seq(Options)
  /\ RequestSizes \subseteq Numbers /\ HelloSize \in Numbers
  /\ MaxReconnect \in Nat \ {0} /\ MaxRestarts \in Nat
  /\ Down \notin Servers /\ \A s \in Servers : s.hello \in Seq(STRING)

-----------------------------------------------------------------------------
(***************************************************************************)
(* options.go.  A file is Unset, "good" or "bad".  An option is a record;  *)
(* with kind "nil" it is a nil Option.                                     *)
(***************************************************************************)
Empty(c) ==
  /\ c.CAFile = Unset /\ c.CertFile = Unset /\ c.KeyFile = Unset
  /\ c.ServerName = Unset /\ c.MinVersion = Unset /\ ~c.SkipVerify

NilTLS == [tls |-> FALSE, err |-> "none"]

TLSError(e) == [tls |-> FALSE, err |-> e]

tlsMinVersion(value) == IF value \in {Unset, "1.2", "1.3"} THEN "none" ELSE "minVersion"

\* Reading the file fails, or it holds no certificate.
certPool(path) == IF path = "good" THEN "none" ELSE "caFile"

\* Faulty variant: half a key pair is left out instead of refused.
buildHalfPair(c) ==
  CASE Empty(c) -> NilTLS
    [] ~Empty(c) /\ tlsMinVersion(c.MinVersion) # "none" -> TLSError("minVersion")
    [] OTHER -> [tls |-> TRUE, err |-> "none"]

build(c) ==
  IF Empty(c) THEN NilTLS
  ELSE IF tlsMinVersion(c.MinVersion) # "none" THEN TLSError("minVersion")
  ELSE IF c.CAFile # Unset /\ certPool(c.CAFile) # "none" THEN TLSError("caFile")
  ELSE IF (c.CertFile = Unset) # (c.KeyFile = Unset) THEN TLSError("keyPair")
  ELSE IF "bad" \in {c.CertFile, c.KeyFile} THEN TLSError("load")
  ELSE [tls |-> TRUE, err |-> "none"]

NoSettings == [token |-> Unset, tls |-> FALSE, err |-> "none"]

Apply(o, settings) ==
  CASE o.kind = "nil" -> settings
    [] o.kind = "token" -> [settings EXCEPT !.token = o.token]
    [] o.kind = "tls" -> LET b == build(o.config)
                         IN IF b.err = "none" THEN [settings EXCEPT !.tls = b.tls]
                            ELSE [NoSettings EXCEPT !.err = b.err]
    [] o.kind = "tlsConfig" -> [settings EXCEPT !.tls = o.set]

-----------------------------------------------------------------------------
VARIABLES
  opts,            \* the options NewTCPClient was called with
  applied,         \* how many of them applyOptions has applied
  settings,        \* what it has made of these
  pc,              \* where the client is
  maxMessageSize,  \* c.maxMessageSize
  bufferSize,      \* the size of the slices in c.bufferPool
  conn,            \* c.connection: "none", "open" or "closed"
  session,         \* the settings of the server at the other end, or Down
  server,          \* the settings the server now runs with, or Down
  request,         \* size of the caller's request
  attempt,         \* attempt, in the loop of sendWithReconnect
  lastErr,         \* lastErr, in the loop of sendWithReconnect
  result,          \* what NewTCPClient or the last call returned
  announced,       \* history: the limit of the last accepted HELLO
  refusal,         \* history: the code the last HELLO was refused with, or "none"
  dialled,         \* history: transports the client has dialled with
  panicked,        \* buffer[:messageSize] was out of range
  restarts         \* number of restarts

clientVars == <<opts, applied, settings, maxMessageSize, bufferSize>>
callVars == <<request, attempt, lastErr, result>>
historyVars == <<announced, refusal, dialled, panicked>>
serverVars == <<server, restarts>>
vars == <<pc, clientVars, conn, session, callVars, historyVars, serverVars>>

Init ==
  /\ opts \in OptionLists /\ applied = 0 /\ settings = NoSettings /\ pc = "new"
  /\ maxMessageSize = Number("4096") /\ bufferSize = Number("4096")
  /\ conn = "none" /\ session = Down
  /\ server \in Servers \cup {Down} /\ restarts = 0
  /\ request = Zero /\ attempt = 0 /\ lastErr = "none" /\ result = "none"
  /\ announced = Number("4096") /\ refusal = "none"
  /\ dialled = {} /\ panicked = FALSE

Goto(l) == pc' = l

(***************************************************************************)
(* The server's side of HELLO.  An accepted token is answered with what    *)
(* the server's settings say.  Without a token HELLO may be accepted, and  *)
(* then commands are refused, or it is refused as the commands would be.   *)
(* A wrong token fails; after too many failures it is not even looked at.  *)
(***************************************************************************)
Refusal(code) == <<"err", "|", code, "|", "refused">>

HelloFrames(s, token) ==
  IF token \in s.tokens THEN {s.hello}
  ELSE IF token = Unset THEN {s.hello, Refusal("3000")}
  ELSE {Refusal("3002"), Refusal("3003")}

Frames ==
  {s.hello : s \in Servers} \cup {Refusal("3000"), Refusal("3002"), Refusal("3003")}

\* What hello reads in a frame.
Answers == [frame \in Frames |-> parseHelloResponse(frame)]

\* The limit a server announces.
Limit(s) == Answers[s.hello].value.maxMessageSize

\* The code of a frame err|code|..., as the server wrote it.
RefusalCode(frame) ==
  IF Len(frame) > 3 /\ <<frame[1], frame[2], frame[4]>> = <<"err", "|", "|">>
  THEN frame[3] ELSE "none"

-----------------------------------------------------------------------------
\* NewTCPClient: applyOptions takes one option after the other.
applyOptions ==
  /\ pc = "new" /\ applied < Len(opts)
  /\ applied' = applied + 1
  /\ settings' = Apply(opts[applied + 1], settings)
  /\ IF settings'.err = "none" THEN UNCHANGED <<pc, result>>
     ELSE Goto("failed") /\ result' = settings'.err
  /\ UNCHANGED <<opts, maxMessageSize, bufferSize, conn, session, request,
                 attempt, lastErr, historyVars, serverVars>>

\* NewTCPClient makes the client and calls connect.
NewTCPClient ==
  /\ pc = "new" /\ applied = Len(opts)
  /\ Goto("dial")
  /\ UNCHANGED <<clientVars, conn, session, callVars, historyVars, serverVars>>

\* connect returns an error: NewTCPClient fails, Reconnect is tried again.
ConnectError(e) ==
  /\ IF attempt = 0 THEN Goto("failed") /\ result' = e /\ UNCHANGED lastErr
     ELSE Goto("retry") /\ lastErr' = e /\ UNCHANGED result
  /\ UNCHANGED <<clientVars, request, attempt>>

dial ==
  /\ pc = "dial"
  /\ server # Down /\ (settings.tls => server.tls)
  /\ conn' = "open" /\ session' = server
  /\ dialled' = dialled \cup {IF settings.tls THEN "tls" ELSE "plain"}
  /\ Goto("hello")
  /\ refusal' = "none"
  /\ UNCHANGED <<clientVars, callVars, announced, panicked, serverVars>>

dialError ==
  /\ pc = "dial"
  /\ server = Down \/ (settings.tls /\ ~server.tls)
  /\ dialled' = dialled \cup {IF settings.tls THEN "tls" ELSE "plain"}
  /\ ConnectError("dial")
  /\ refusal' = "none"
  /\ UNCHANGED <<conn, session, announced, panicked, serverVars>>

\* connect closes the connection when hello fails.
HelloError(e) ==
  /\ ConnectError(e)
  /\ conn' = "closed" /\ session' = Down
  /\ UNCHANGED <<announced, dialled, panicked, serverVars>>

\* HELLO is sent, and its answer read, with the limit of the connection before.
HelloTooLong ==
  /\ pc = "hello" /\ HelloSize > maxMessageSize
  /\ HelloError("size") /\ UNCHANGED refusal

\* The connection ends before the answer, or the server expects TLS.
HelloLost ==
  /\ pc = "hello" /\ HelloSize <= maxMessageSize
  /\ session = Down \/ (session.tls /\ ~settings.tls)
  /\ HelloError("closed") /\ UNCHANGED refusal

Answering ==
  /\ pc = "hello" /\ HelloSize <= maxMessageSize
  /\ session # Down /\ (session.tls => settings.tls)

ProtocolVersion == One

\* Faulty variant: every error of the server is an authentication failure.
HelloVerdictAuth(info) ==
  IF info.status = "error" THEN "auth"
  ELSE IF info.status # "success" THEN info.status
  ELSE IF info.value.version = ProtocolVersion THEN "none" ELSE "version"

\* hello: the error for an answer, or "none".  The error is ErrAuthFailed
\* ("auth") or a ProtocolError, of which the code is kept.
HelloVerdict(info) ==
  CASE info.status = "error" ->
         IF info.value.Code = Number("3002") THEN "auth" ELSE Numerals[info.value.Code]
    [] info.status = "success" ->
         IF info.value.version = ProtocolVersion THEN "none" ELSE "version"
    [] OTHER -> info.status

\* Faulty variant: the limit is taken over before the version is checked.
HelloRefusedEarly ==
  /\ Answering
  /\ \E frame \in HelloFrames(session, settings.token) :
       LET info == Answers[frame]
           verdict == HelloVerdict(info)
       IN /\ verdict # "none"
          /\ IF attempt = 0 THEN Goto("failed") /\ result' = verdict /\ UNCHANGED lastErr
             ELSE Goto("retry") /\ lastErr' = verdict /\ UNCHANGED result
          /\ maxMessageSize' = IF info.status = "success" THEN info.value.maxMessageSize
                               ELSE maxMessageSize
          /\ refusal' = RefusalCode(frame)
  /\ conn' = "closed" /\ session' = Down
  /\ UNCHANGED <<opts, applied, settings, bufferSize, request, attempt, announced,
                 dialled, panicked, serverVars>>

HelloRefused ==
  /\ Answering
  /\ \E frame \in HelloFrames(session, settings.token) :
       LET verdict == HelloVerdict(Answers[frame])
       IN verdict # "none" /\ HelloError(verdict) /\ refusal' = RefusalCode(frame)

\* Faulty variant: the buffers of the constructor are kept.
SetMaxMessageSizeKeepingPool(size) ==
  maxMessageSize' = size /\ UNCHANGED bufferSize

\* Faulty variant: the limit only ever grows.
SetMaxMessageSizeGrowing(size) ==
  LET larger == IF size > maxMessageSize THEN size ELSE maxMessageSize
  IN maxMessageSize' = larger /\ bufferSize' = larger

SetMaxMessageSizeUnsafe(size) == maxMessageSize' = size /\ bufferSize' = size

\* hello succeeds; sendWithReconnect then sends the request again.
HelloAccepted ==
  /\ Answering
  /\ \E frame \in HelloFrames(session, settings.token) :
       LET info == Answers[frame]
       IN /\ HelloVerdict(info) = "none"
          /\ SetMaxMessageSizeUnsafe(info.value.maxMessageSize)
          /\ announced' = info.value.maxMessageSize
  /\ Goto(IF attempt = 0 THEN "idle" ELSE "send")
  /\ UNCHANGED <<opts, applied, settings, conn, session, callVars, refusal,
                 dialled, panicked, serverVars>>

-----------------------------------------------------------------------------
(***************************************************************************)
(* sendWithReconnect.  Its result is "ok" or the cause of its error.       *)
(***************************************************************************)
Call(size) ==
  /\ pc = "idle"
  /\ request' = size /\ attempt' = 0 /\ lastErr' = "none" /\ result' = "none"
  /\ Goto("send")
  /\ UNCHANGED <<clientVars, conn, session, historyVars, serverVars>>

Return(r) ==
  /\ result' = r /\ Goto("idle")
  /\ UNCHANGED <<clientVars, conn, session, request, attempt, lastErr, serverVars>>

\* Send: the request exceeds the limit; not an ErrConnClosed.
SendTooLong ==
  pc = "send" /\ request > maxMessageSize /\ Return("size") /\ UNCHANGED historyVars

\* Send: the request is written, and the connection is gone by then or not.
SendDelivered ==
  /\ pc = "send" /\ request <= maxMessageSize
  /\ session # Down
  /\ Goto("read")
  /\ UNCHANGED <<clientVars, conn, session, callVars, historyVars, serverVars>>

\* Send, in the write or the read: ErrConnClosed.
SendLost ==
  /\ \/ pc = "send" /\ request <= maxMessageSize
     \/ pc = "read"
  /\ session = Down
  /\ lastErr' = "closed" /\ Goto("retry")
  /\ UNCHANGED <<clientVars, conn, session, request, attempt, result,
                 historyVars, serverVars>>

\* readFrameInto: a frame within the limit is read into buffer[:messageSize].
\* The server refuses the commands of a client that has sent it no token.
SendAnswered(size) ==
  /\ pc = "read" /\ session # Down /\ size <= Limit(session)
  /\ Return(IF size > maxMessageSize THEN "size"
            ELSE IF settings.token \in session.tokens THEN "ok" ELSE "3000")
  /\ panicked' = (size <= maxMessageSize /\ size > bufferSize)
  /\ UNCHANGED <<announced, refusal, dialled>>

Reconnect ==
  /\ pc = "retry" /\ attempt < MaxReconnect
  /\ attempt' = attempt + 1
  /\ conn' = "closed" /\ session' = Down
  /\ Goto("dial")
  /\ UNCHANGED <<clientVars, request, lastErr, result, historyVars, serverVars>>

\* ctx.Err() at the head of the loop.
Cancelled ==
  pc = "retry" /\ attempt < MaxReconnect /\ Return("context") /\ UNCHANGED historyVars

Exhausted ==
  pc = "retry" /\ attempt = MaxReconnect /\ Return(lastErr) /\ UNCHANGED historyVars

\* The server restarts or stops; connections to it are cut.
Restart(s) ==
  /\ restarts < MaxRestarts
  /\ server' = s /\ session' = Down /\ restarts' = restarts + 1
  /\ UNCHANGED <<pc, clientVars, conn, callVars, historyVars>>

ClientStep ==
  \/ applyOptions \/ NewTCPClient \/ dial \/ dialError
  \/ HelloTooLong \/ HelloLost \/ HelloRefused \/ HelloAccepted
  \/ SendTooLong \/ SendDelivered \/ SendLost
  \/ \E size \in RequestSizes : SendAnswered(size)
  \/ Reconnect \/ Cancelled \/ Exhausted

Next ==
  \/ ClientStep
  \/ \E size \in RequestSizes : Call(size)
  \/ \E s \in Servers \cup {Down} : Restart(s)

Spec == Init /\ [][Next]_vars

\* The client's code runs on; callers and the server are under no obligation.
FairSpec == Spec /\ WF_vars(ClientStep)

-----------------------------------------------------------------------------
\* A request reaches a server only if it is within the limit that server
\* announced, though the limit changes with every restart (Send, hello).
WithinServerLimit ==
  pc = "read" /\ session # Down => request <= Limit(session)

\* A frame that passes the check against maxMessageSize always fits the pooled
\* buffer it is read into: SetMaxMessageSizeUnsafe changes both.
BufferFits == ~panicked

UsableTLS(c) ==
  /\ c.MinVersion \in {Unset, "1.2", "1.3"} /\ c.CAFile # "bad"
  /\ <<c.CertFile, c.KeyFile>> \in {<<Unset, Unset>>, <<"good", "good">>}

\* The last of the first k options that is of one of these kinds, if any is.
LastOption(kinds, k) ==
  {n \in 1..k : opts[n].kind \in kinds
                /\ \A m \in (n + 1)..k : opts[m].kind \notin kinds}

AsksTLS(o) == IF o.kind = "tls" THEN ~Empty(o.config) ELSE o.set

\* With an unusable TLSConfig among the options nothing is ever dialled.
\* Otherwise every connection of the client's life uses the transport and the
\* token of the last option that speaks of them (applyOptions, dial, hello).
OptionsDecide ==
  LET usable == \A n \in 1..Len(opts) :
                  opts[n].kind = "tls" => UsableTLS(opts[n].config)
      transport == LastOption({"tls", "tlsConfig"}, Len(opts))
      token == LastOption({"token"}, Len(opts))
      tls == \E n \in transport : AsksTLS(opts[n])
  IN /\ dialled \subseteq IF ~usable THEN {} ELSE {IF tls THEN "tls" ELSE "plain"}
     /\ dialled # {} =>
          /\ token = {} => settings.token = Unset
          /\ \A n \in token : settings.token = opts[n].token

\* The codes parseError accepts, and the error hello makes of one: ErrAuthFailed
\* for 3002, and for any other a ProtocolError with that code.
ErrorCodes == {Numerals[v] : v \in 1..MaxErrorCode}
Reported(code) == IF code = "3002" THEN "auth" ELSE code

\* NewTCPClient and calls return ErrAuthFailed only if the last HELLO was
\* refused with code 3002.  Whatever code it was refused with, that is what they
\* return, however many reconnects lie between, unless the call's context ended
\* first or its request was too long to be sent (hello, sendWithReconnect).
AuthFailureReported ==
  pc \in {"failed", "idle"} =>
    /\ result = "auth" => refusal = "3002"
    /\ refusal \in ErrorCodes => result \in {Reported(refusal), "context", "size"}

\* The server is up and takes this client as it is configured.
Accepting ==
  /\ server # Down /\ server.tls = settings.tls /\ settings.token \in server.tokens
  /\ HelloVerdict(Answers[server.hello]) = "none"

\* Whatever a client has been through, if in the end the server accepts it, the
\* limits agreed on leave room for HELLO, and calls within them, with a context
\* that lives, go on being sent, then its connection is restored
\* (sendWithReconnect, Reconnect, hello).
Recovers ==
  /\ <>[](Accepting /\ announced >= HelloSize /\ result # "context")
  /\ []<>(pc = "send" /\ request <= announced)
  => <>[](pc = "idle" => conn = "open" /\ session = server)
=============================================================================
