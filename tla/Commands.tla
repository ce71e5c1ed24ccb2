------------------------------ MODULE Commands ------------------------------
(***************************************************************************)
(* The methods of Client (client.go, inspect.go): each takes a buffer from *)
(* the pool all goroutines share (bytes_buffer_pool.go), writes its        *)
(* command into it, sends the buffer's bytes, again after every reconnect, *)
(* parses what comes back and returns the buffer.  How a connection is     *)
(* obtained is module ConnPool, how it is used module TCPClient; here both *)
(* may fail.                                                               *)
(*                                                                         *)
(* A command is a sequence of tokens, like a frame in module Response.     *)
(***************************************************************************)
EXTENDS Response

CONSTANTS
  Callers,   \* goroutines that call methods of Client
  Buffers,   \* identities of *bytes.Buffer values
  NoBuffer,
  Calls,     \* Calls[p]: the calls p may make
  Texts,     \* keys, names and prefixes
  Counts,    \* numeric arguments; all of them are uint32
  Answered   \* bound: callers that get answers; the others only use buffers

ASSUME CommandsAssumption ==
  /\ NoBuffer \notin Buffers /\ Counts \subseteq {v \in Numbers : BitLength[v] <= 32}
  /\ \A p \in Callers : \A c \in Calls[p] : c.command \in Seq(STRING)

-----------------------------------------------------------------------------
(***************************************************************************)
(* The writers: what they append to the buffer.                            *)
(***************************************************************************)
\* Words separated by single spaces.
Spaced(words) ==
  FlattenSeq([n \in 1..Len(words) |->
                IF n = 1 THEN words[n] ELSE <<" ">> \o words[n]])

N(v) == FormatUint(v)

writeCommand(command, key, capping) == Spaced(<<<<command>>, key, N(capping)>>)

\* The space behind the command is written even when no key follows.
writeMultiCommand(command, keys) ==
  <<command, " ">> \o
  Spaced([n \in 1..Len(keys) |-> Spaced(<<keys[n].Key, N(keys[n].Capping)>>)])

writeRLimitWindowCommand(algorithm, key, window, limit) ==
  Spaced(<<<<"RLIMIT">>, <<algorithm>>, key, N(limit), N(window)>>)

writeRLimitTokenBucketCommand(key, window, capacity, refillAmount) ==
  Spaced(<<<<"RLIMIT">>, <<"TB">>, key, N(capacity), N(refillAmount), N(window)>>)

\* The optional ttl; only the first of the values given counts.
WithTTL(words, ttl) ==
  Spaced(IF ttl = <<>> THEN words ELSE Append(words, N(ttl[1])))

\* Faulty variant: the ttl is not sent.
writeQuotaAcquireCommandForgets(name, amount, clientID, ttl) ==
  Spaced(<<<<"QUOTA">>, <<"ACQ">>, name, N(amount), clientID>>)

writeQuotaAcquireCommand(name, amount, clientID, ttl) ==
  WithTTL(<<<<"QUOTA">>, <<"ACQ">>, name, N(amount), clientID>>, ttl)

writeQuotaAcquireLeaseCommand(name, limit, amount, clientID, ttl) ==
  WithTTL(<<<<"QUOTA">>, <<"ACQL">>, name, N(limit), N(amount), clientID>>, ttl)

writeQuotaAcquireNCommand(name, clientID, ttl) ==
  WithTTL(<<<<"QUOTA">>, <<"ACQN">>, name, clientID>>, ttl)

writeQuotaSetCommand(name, limit) ==
  Spaced(<<<<"QUOTA">>, <<"SET">>, name, N(limit)>>)

writeQuotaSetNCommand(name, limit, clients) ==
  Spaced(<<<<"QUOTA">>, <<"SETN">>, name, N(limit), N(clients)>>)

writeQuotaReleaseCommand(name, clientID) ==
  Spaced(<<<<"QUOTA">>, <<"REL">>, name, clientID>>)

writeQuotaDeleteCommand(name) == Spaced(<<<<"QUOTA">>, <<"DEL">>, name>>)

writeQuotaInfoCommand(name) == Spaced(<<<<"QUOTA">>, <<"INF">>, name>>)

CursorOrInitial(cursor) == IF cursor = <<>> THEN <<"0">> ELSE cursor

writeScanCommand(cursor, count) ==
  Spaced(<<<<"SCAN">>, CursorOrInitial(cursor), N(count)>>)

writePScanCommand(prefix, cursor, count) ==
  Spaced(<<<<"PSCAN">>, prefix, CursorOrInitial(cursor), N(count)>>)

writeInspectCommand(section) ==
  IF section = <<>> THEN <<"INSPECT">> ELSE Spaced(<<<<"INSPECT">>, section>>)

-----------------------------------------------------------------------------
(***************************************************************************)
(* The methods.  A call is its method and arguments, the command it writes *)
(* or passes on, whether that is in a pooled buffer, and the kind of       *)
(* answer it expects.                                                      *)
(***************************************************************************)
Call(method, args, command, kind) ==
  [method |-> method, args |-> args, command |-> command, kind |-> kind,
   buffered |-> TRUE]

Unbuffered(method, command, kind) ==
  [method |-> method, args |-> <<>>, command |-> command, kind |-> kind,
   buffered |-> FALSE]

Incr(k, c) == Call("Incr", <<k, c>>, writeCommand("INCR", k, c), "number")
Get(k, c) == Call("Get", <<k, c>>, writeCommand("GET", k, c), "number")
Watch(k, c) == Call("Watch", <<k, c>>, writeCommand("WATCH", k, c), "number")
Del(k, c) == Call("Del", <<k, c>>, writeCommand("DEL", k, c), "bool")
MDel(keys) == Call("MDel", <<keys>>, writeMultiCommand("MDEL", keys), "bools")

RLimitFixedWindow(k, w, l) ==
  Call("RLimitFixedWindow", <<k, w, l>>,
       writeRLimitWindowCommand("FW", k, w, l), "rate")

RLimitSlidingWindow(k, w, l) ==
  Call("RLimitSlidingWindow", <<k, w, l>>,
       writeRLimitWindowCommand("SW", k, w, l), "rate")

RLimitTokenBucket(k, w, c, r) ==
  Call("RLimitTokenBucket", <<k, w, c, r>>,
       writeRLimitTokenBucketCommand(k, w, c, r), "rate")

QuotaAcquire(n, a, id, ttl) ==
  Call("QuotaAcquire", <<n, a, id, ttl>>,
       writeQuotaAcquireCommand(n, a, id, ttl), "acquire")

QuotaAcquireLease(n, l, a, id, ttl) ==
  Call("QuotaAcquireLease", <<n, l, a, id, ttl>>,
       writeQuotaAcquireLeaseCommand(n, l, a, id, ttl), "acquire")

QuotaAcquireN(n, id, ttl) ==
  Call("QuotaAcquireN", <<n, id, ttl>>,
       writeQuotaAcquireNCommand(n, id, ttl), "acquire")

QuotaSet(n, l) == Call("QuotaSet", <<n, l>>, writeQuotaSetCommand(n, l), "bool")

QuotaSetN(n, l, c) ==
  Call("QuotaSetN", <<n, l, c>>, writeQuotaSetNCommand(n, l, c), "bool")

QuotaRelease(n, id) ==
  Call("QuotaRelease", <<n, id>>, writeQuotaReleaseCommand(n, id), "bool")

QuotaDelete(n) == Call("QuotaDelete", <<n>>, writeQuotaDeleteCommand(n), "bool")
QuotaInfo(n) == Call("QuotaInfo", <<n>>, writeQuotaInfoCommand(n), "info")

\* Scan and PScan take an empty cursor for the initial one.
Scan(cursor, c) ==
  Call("Scan", <<CursorOrInitial(cursor), c>>, writeScanCommand(cursor, c), "scan")

PScan(prefix, cursor, c) ==
  Call("PScan", <<prefix, CursorOrInitial(cursor), c>>,
       writePScanCommand(prefix, cursor, c), "scan")

FlushDB == Unbuffered("FlushDB", <<"FLUSHDB">>, "bool")
Truncate == Unbuffered("Truncate", <<"TRUNCATE">>, "bool")
Stream == Unbuffered("Stream", <<"STREAM">>, "limitEvent")
QStream == Unbuffered("QStream", <<"QSTREAM">>, "quotaEvent")

PStream(prefix) ==
  Call("PStream", <<prefix>>, Spaced(<<<<"PSTREAM">>, prefix>>), "limitEvent")

QPStream(prefix) ==
  Call("QPStream", <<prefix>>, Spaced(<<<<"QPSTREAM">>, prefix>>), "quotaEvent")

Inspect(section) ==
  Call("Inspect", <<section>>, writeInspectCommand(section), "inspect")

CappingKeys == [Key : Texts, Capping : Counts]

TTLs == {<<>>} \cup {<<v>> : v \in Counts}

ClientIDs == {<<"c">>}

\* Every call with arguments from Texts and Counts.
AllCalls ==
  {Incr(k, c) : k \in Texts, c \in Counts} \cup
  {Get(k, c) : k \in Texts, c \in Counts} \cup
  {Watch(k, c) : k \in Texts, c \in Counts} \cup
  {Del(k, c) : k \in Texts, c \in Counts} \cup
  {MDel(keys) : keys \in BoundedSeq(CappingKeys, 2)} \cup
  {RLimitFixedWindow(k, w, l) : k \in Texts, w \in Counts, l \in Counts} \cup
  {RLimitSlidingWindow(k, w, l) : k \in Texts, w \in Counts, l \in Counts} \cup
  {RLimitTokenBucket(k, w, c, r) :
     k \in Texts, w \in Counts, c \in Counts, r \in Counts} \cup
  {QuotaAcquire(n, a, id, ttl) :
     n \in Texts, a \in Counts, id \in ClientIDs, ttl \in TTLs} \cup
  {QuotaAcquireLease(n, l, a, id, ttl) :
     n \in Texts, l \in Counts, a \in Counts, id \in ClientIDs, ttl \in TTLs} \cup
  {QuotaAcquireN(n, id, ttl) : n \in Texts, id \in ClientIDs, ttl \in TTLs} \cup
  {QuotaSet(n, l) : n \in Texts, l \in Counts} \cup
  {QuotaSetN(n, l, c) : n \in Texts, l \in Counts, c \in Counts} \cup
  {QuotaRelease(n, id) : n \in Texts, id \in ClientIDs} \cup
  {QuotaDelete(n) : n \in Texts} \cup
  {QuotaInfo(n) : n \in Texts} \cup
  {Scan(cursor, c) : cursor \in {<<>>, <<"0">>, <<"MQ">>}, c \in Counts} \cup
  {PScan(p, cursor, c) : p \in Texts, cursor \in {<<>>, <<"MQ">>}, c \in Counts} \cup
  {FlushDB, Truncate, Stream, QStream} \cup
  {PStream(p) : p \in Texts} \cup {QPStream(p) : p \in Texts} \cup
  {Inspect(section) : section \in {<<>>, <<"engine">>}}

Streams == {"limitEvent", "quotaEvent"}

-----------------------------------------------------------------------------
(***************************************************************************)
(* What the methods make of a frame.                                       *)
(***************************************************************************)
Parser(kind, frame) ==
  CASE kind \in {"number", "bool"} -> parseResponse(frame)
    [] kind = "bools"      -> parseMultiResponse(frame)
    [] kind = "rate"       -> parseRateLimitResponse(frame)
    [] kind = "acquire"    -> parseQuotaAcquireResponse(frame)
    [] kind = "info"       -> parseQuotaInfoResponse(frame)
    [] kind = "scan"       -> parseScanResponse(frame)
    [] kind = "limitEvent" -> parseLimitEventResponse(frame)
    [] kind = "quotaEvent" -> parseQuotaEventResponse(frame)
    [] kind = "inspect"    -> parseInspectResponse(frame)

valuesToBools(values) == [n \in 1..Len(values) |-> values[n] = One]

\* What the caller gets for a parsed value.
Returned(kind, v) == CASE kind = "bool"  -> v = One
                       [] kind = "bools" -> valuesToBools(v)
                       [] OTHER          -> v

Handle(kind, frame) ==
  LET r == Parser(kind, frame)
  IN IF r.status = "success" THEN Success(Returned(kind, r.value)) ELSE r

-----------------------------------------------------------------------------
(***************************************************************************)
(* The server (external): what it sends for a value, as the tests of the   *)
(* client spell it.                                                        *)
(***************************************************************************)
Joined(fields) ==
  FlattenSeq([n \in 1..Len(fields) |->
                IF n = 1 THEN fields[n] ELSE <<";">> \o fields[n]])

Bit(b) == N(IF b THEN One ELSE Zero)

Fields(kind, v) ==
  CASE kind \in {"number", "bool"} -> <<N(v)>>
    [] kind = "bools"   -> [n \in 1..Len(v) |-> N(v[n])]
    [] kind = "rate"    -> <<Bit(v.Allowed), N(v.Current), N(v.Remaining),
                             N(v.ResetAfter)>>
    [] kind = "acquire" -> <<Bit(v.Acquired), N(v.Allocated), N(v.Used),
                             N(v.Remaining), N(v.ExpiresAfter)>>
    [] kind = "info"    ->
         <<N(v.quota.Limit), N(v.quota.Used), N(v.quota.Remaining)>> \o
         FlattenSeq([n \in 1..Len(v.Clients) |->
                       <<v.Clients[n].ClientID, N(v.Clients[n].Amount),
                         N(v.Clients[n].ExpiresAt)>>])
    [] kind = "scan"    ->
         <<v.Cursor>> \o
         FlattenSeq([n \in 1..Len(v.Keys) |-> <<v.Keys[n].Key, N(v.Keys[n].Window)>>])
    [] kind = "limitEvent" -> <<v.Key, N(v.Window), N(v.Current), N(v.ResetAfter)>>
    [] kind = "quotaEvent" -> <<v.Event, v.Name, v.ClientID, N(v.Amount),
                                N(v.Used), N(v.Remaining), N(v.ExpiresAt)>>
    [] kind = "inspect" -> <<v>>

Encode(kind, v) == <<"ok", "|">> \o Joined(Fields(kind, v))

\* The numbers of a value that are 32 bits wide.
Narrow(kind, v) ==
  CASE kind = "rate"       -> {v.ResetAfter}
    [] kind = "acquire"    -> {v.ExpiresAfter}
    [] kind = "info"       -> {v.Clients[n].ExpiresAt : n \in 1..Len(v.Clients)}
    [] kind = "scan"       -> {v.Keys[n].Window : n \in 1..Len(v.Keys)}
    [] kind = "limitEvent" -> {v.Window, v.ResetAfter}
    [] kind = "quotaEvent" -> {v.ExpiresAt}
    [] OTHER               -> {}

\* Values of each kind: 1 and the largest power of two in Numerals that fits.
Wide == {One, TwoTo32}

Short == {One, TwoTo31}

Values(kind) ==
  CASE kind \in {"number", "bool"} -> {Zero, One, TwoTo32}
    [] kind = "bools"   -> BoundedSeq({Zero, One, TwoTo32}, 2) \ {<<>>}
    [] kind = "rate"    -> [Allowed : BOOLEAN, Current : Wide, Remaining : Wide,
                            ResetAfter : Short]
    [] kind = "acquire" -> [Acquired : BOOLEAN, Allocated : Wide, Used : Wide,
                            Remaining : Wide, ExpiresAfter : Short]
    [] kind = "info"    ->
         [quota : [Limit : Wide, Used : Wide, Remaining : {One}],
          Clients : BoundedSeq([ClientID : Texts, Amount : Wide, ExpiresAt : {TwoTo31}], 2)]
    [] kind = "scan"    ->
         [Cursor : {<<"0">>, <<"MQ">>},
          Keys : BoundedSeq([Key : Texts, Window : Short], 2)]
    [] kind = "limitEvent" -> [Key : Texts, Window : Short, Current : Wide,
                               ResetAfter : Short]
    [] kind = "quotaEvent" -> [Event : {<<"acq">>}, Name : Texts, ClientID : ClientIDs,
                               Amount : Wide, Used : Wide, Remaining : Wide,
                               ExpiresAt : Short]
    [] kind = "inspect" -> {<<"{report}">>}

Kinds == {"number", "bool", "bools", "rate", "acquire", "info", "scan",
          "limitEvent", "quotaEvent", "inspect"}

Sample(kind) == CHOOSE v \in Values(kind) : TRUE

\* Frames that are off by one field, its delimiter or its status.
Odd == {<<>>, <<"x">>, <<"01">>, <<"60">>, N(TwoTo31), N(TwoTo32), N(TwoTo64)}

NearMisses(kind) ==
  LET fields == Fields(kind, Sample(kind))
      n == Len(fields)
  IN {<<"ok", "|">> \o Joined(fs) :
        fs \in {ReplaceAt(fields, i, f) : i \in 1..n, f \in Odd}
               \cup {RemoveAt(fields, i) : i \in 1..n}
               \cup {Append(fields, f) : f \in Odd}}
     \cup {<<s, "|">> \o Joined(fields) : s \in {"nxt", "x"}}
     \cup {<<"ok">> \o Joined(fields), <<"ok">>, <<"|">> \o Joined(fields)}

Messages == {<<>>, <<"m", ";", "m", "|", "m">>}

Codes == {One, MaxErrorCode, MaxErrorCode + 1, Number("65536")}

ErrorFrame(code, message) == <<"err", "|">> \o code \o <<"|">> \o message

Errors ==
  {ErrorFrame(N(v), m) : v \in Codes, m \in Messages}
    \cup {ErrorFrame(<<"x">>, <<"m">>), <<"err", "|">> \o N(MaxErrorCode)}

\* The answer may also be one to a call of another kind (module TCPClient).
Replies(kind) ==
  {Encode(kind, v) : v \in Values(kind)} \cup NearMisses(kind) \cup Errors
    \cup {Encode(k, Sample(k)) : k \in Kinds}

-----------------------------------------------------------------------------
VARIABLES
  pc,       \* where each caller is
  call,     \* the call it makes
  buf,      \* the buffer it holds
  content,  \* the bytes of each buffer
  pool,     \* the buffers in bytesBufferPool
  wire,     \* history: what the call last put on the wire
  reply,    \* the frame that answered it
  result    \* what the method makes of it

vars == <<pc, call, buf, content, pool, wire, reply, result>>

Nothing == [status |-> "none", value |-> <<>>]

Init ==
  /\ pc = [p \in Callers |-> "idle"]
  /\ call = [p \in Callers |-> FlushDB]
  /\ buf = [p \in Callers |-> NoBuffer]
  /\ content = [b \in Buffers |-> <<>>]
  /\ pool = {}
  /\ wire = [p \in Callers |-> <<>>]
  /\ reply = [p \in Callers |-> <<>>]
  /\ result = [p \in Callers |-> Nothing]

Held == {buf[p] : p \in Callers}

\* bytesBufferPool.Get: any pooled buffer, or a new one.
Begin(p) ==
  /\ pc[p] = "idle"
  /\ \E c \in Calls[p] :
       /\ call' = [call EXCEPT ![p] = c]
       /\ IF c.buffered
          THEN /\ \E b \in pool \cup (Buffers \ Held) :
                    buf' = [buf EXCEPT ![p] = b] /\ pool' = pool \ {b}
               /\ pc' = [pc EXCEPT ![p] = "writing"]
          ELSE pc' = [pc EXCEPT ![p] = "ready"] /\ UNCHANGED <<buf, pool>>
  /\ UNCHANGED <<content, wire, reply, result>>

Write(p) ==
  /\ pc[p] = "writing"
  /\ content' = [content EXCEPT ![buf[p]] = @ \o call[p].command]
  /\ pc' = [pc EXCEPT ![p] = "ready"]
  /\ UNCHANGED <<call, buf, pool, wire, reply, result>>

\* GetConnection or the send fails for good.
Fail(p) ==
  /\ pc[p] \in {"ready", "sent"}
  /\ pc' = [pc EXCEPT ![p] = "returning"]
  /\ UNCHANGED <<call, buf, content, pool, wire, reply, result>>

\* conn.Send(ctx, buf.Bytes()), the first time or after a reconnect.
Send(p) ==
  /\ pc[p] \in {"ready", "sent"}
  /\ wire' = [wire EXCEPT ![p] = IF call[p].buffered THEN content[buf[p]]
                                 ELSE call[p].command]
  /\ pc' = [pc EXCEPT ![p] = "sent"]
  /\ UNCHANGED <<call, buf, content, pool, reply, result>>

Answer(p) ==
  /\ pc[p] = "sent" /\ p \in Answered
  /\ \E frame \in Replies(call[p].kind) :
       /\ reply' = [reply EXCEPT ![p] = frame]
       /\ result' = [result EXCEPT ![p] = Handle(call[p].kind, frame)]
  /\ pc' = [pc EXCEPT ![p] = "returning"]
  /\ UNCHANGED <<call, buf, content, pool, wire>>

\* The handler of a stream accepts an event and the stream reads on.
Continue(p) ==
  /\ pc[p] = "returning"
  /\ call[p].kind \in Streams /\ result[p].status = "success"
  /\ pc' = [pc EXCEPT ![p] = "sent"]
  /\ reply' = [reply EXCEPT ![p] = <<>>]
  /\ result' = [result EXCEPT ![p] = Nothing]
  /\ UNCHANGED <<call, buf, content, pool, wire>>

Leave(p) ==
  /\ pc' = [pc EXCEPT ![p] = "idle"]
  /\ buf' = [buf EXCEPT ![p] = NoBuffer]
  /\ wire' = [wire EXCEPT ![p] = <<>>]
  /\ reply' = [reply EXCEPT ![p] = <<>>]
  /\ result' = [result EXCEPT ![p] = Nothing]
  /\ UNCHANGED call

\* Faulty variant: the buffer is not emptied.
PutUnemptied(p) ==
  /\ pc[p] = "returning"
  /\ pool' = IF call[p].buffered THEN pool \cup {buf[p]} ELSE pool
  /\ UNCHANGED content
  /\ Leave(p)

\* The deferred bytesBufferPool.Put: Reset, and back to the pool.
Put(p) ==
  /\ pc[p] = "returning"
  /\ IF call[p].buffered
     THEN /\ pool' = pool \cup {buf[p]}
          /\ content' = [content EXCEPT ![buf[p]] = <<>>]
     ELSE UNCHANGED <<pool, content>>
  /\ Leave(p)

Next ==
  \E p \in Callers :
    Begin(p) \/ Write(p) \/ Fail(p) \/ Send(p) \/ Answer(p) \/ Continue(p) \/ Put(p)

Spec == Init /\ [][Next]_vars

-----------------------------------------------------------------------------
(***************************************************************************)
(* What a call puts on the wire, at first and after every reconnect, is    *)
(* its own command and nothing else, though all calls share their buffers. *)
(***************************************************************************)
OwnCommandSent == \A p \in Callers : pc[p] = "sent" => wire[p] = call[p].command

(***************************************************************************)
(* A command tells the server which method was called with which           *)
(* arguments: no other call writes the same one, whatever optional         *)
(* arguments are left out.                                                 *)
(***************************************************************************)
CommandsTellApart ==
  \A p \in Callers : pc[p] = "writing" =>
    \A c \in AllCalls : c.command = call[p].command => c = call[p]

HasAnswer(p) == pc[p] = "returning" /\ reply[p] # <<>>

(***************************************************************************)
(* The caller gets the values the server sent, each in its own field;      *)
(* 1 is true and every other number is false where a bool is returned.     *)
(***************************************************************************)
AnswerKept ==
  \A p \in Callers : HasAnswer(p) =>
    LET k == call[p].kind
    IN \A v \in Values(k) :
         reply[p] = Encode(k, v) => result[p] = Success(Returned(k, v))

(***************************************************************************)
(* A method succeeds only on a frame that spells the value it returns, in  *)
(* full and in the width of each field: no field is defaulted, dropped or  *)
(* truncated, also when the frame answers a call of another kind.          *)
(***************************************************************************)
NothingInvented ==
  \A p \in Callers : HasAnswer(p) /\ result[p].status = "success" =>
    LET k == call[p].kind
        v == Parser(k, reply[p]).value
    IN /\ result[p].value = Returned(k, v)
       /\ "01" \notin Range(reply[p]) => reply[p] = Encode(k, v)
       /\ \A w \in Narrow(k, v) : BitLength[w] <= 32

(***************************************************************************)
(* A protocol error reaches the caller of every method with its code and   *)
(* its whole message, delimiters included, and nothing else becomes one.   *)
(***************************************************************************)
ErrorsKept ==
  \A p \in Callers : HasAnswer(p) =>
    /\ \A v \in 1..MaxErrorCode, m \in Messages :
         reply[p] = ErrorFrame(N(v), m) =>
           result[p] = [status |-> "error", value |-> [Code |-> v, Message |-> m]]
    /\ result[p].status = "error" =>
         reply[p] = ErrorFrame(N(result[p].value.Code), result[p].value.Message)
=============================================================================
