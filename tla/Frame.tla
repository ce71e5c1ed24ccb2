------------------------------- MODULE Frame --------------------------------
(***************************************************************************)
(* The framing of tcp_client.go, byte by byte: writeFrame and writeAll at  *)
(* one end of a connection, readFrameSize and readFrameInto at the other.  *)
(* The server frames its messages in the same way, so this is either       *)
(* direction.  net.Conn (external) takes and yields bytes in pieces of any *)
(* size, and a Read or a Write may fail at any point: a deadline passes,   *)
(* the peer goes away.  The connection may be used again after an error,   *)
(* as the pool does when the caller's context has ended.                   *)
(***************************************************************************)
EXTENDS Integers, Sequences

CONSTANTS
  Base,            \* number of byte values; 256 in the code
  HeaderSize,      \* frameHeaderSize; 4 in the code
  MaxMessageSize,  \* c.maxMessageSize, and the size of the pooled buffers
  Payloads,        \* the messages that may be sent
  MaxFrames,       \* bound: calls of writeFrame
  MaxFails         \* bound: errors of the connection

Bytes == 0..(Base - 1)

ASSUME FrameAssumption ==
  /\ Base \in Nat \ {0} /\ HeaderSize \in Nat \ {0}
  /\ MaxMessageSize \in Nat /\ Payloads \subseteq Seq(Bytes)

\* Base to the power k.
Power[k \in 0..HeaderSize] == IF k = 0 THEN 1 ELSE Power[k - 1] * Base

maxFramePayloadSize == Power[HeaderSize] - 1

VARIABLES
  wpc,        \* in writeFrame: "idle", "header" or "payload"
  data,       \* data, in writeAll: the bytes still to write
  payload,    \* the argument of writeFrame
  wire,       \* bytes written and not yet read
  header,     \* the header bytes readFrameSize has read
  size,       \* messageSize, or -1 while the header is read
  got,        \* number of bytes of the message read so far
  buffer,     \* the pooled buffer the message is read into
  frames, fails,
  sent, delivered, whole   \* history: see FrameChannel

writer == <<wpc, data, payload>>
reader == <<header, size, got, buffer>>
vars == <<writer, wire, reader, frames, fails, sent, delivered, whole>>

Init ==
  /\ wpc = "idle" /\ data = <<>> /\ payload = <<>> /\ wire = <<>>
  /\ header = <<>> /\ size = -1 /\ got = 0
  /\ buffer = [n \in 1..MaxMessageSize |-> 0]
  /\ frames = 0 /\ fails = 0
  /\ sent = <<>> /\ delivered = <<>> /\ whole = TRUE

-----------------------------------------------------------------------------
\* binary.BigEndian
PutUint32(n) == [i \in 1..HeaderSize |-> (n \div Power[HeaderSize - i]) % Base]

Uint32(h) ==
  LET value[i \in 0..Len(h)] == IF i = 0 THEN 0 ELSE value[i - 1] * Base + h[i]
  IN value[Len(h)]

\* Faulty variant: the size in the header counts the header.
writeFrameSized(p) ==
  /\ wpc = "idle" /\ frames < MaxFrames
  /\ frames' = frames + 1
  /\ IF Len(p) + HeaderSize > maxFramePayloadSize THEN UNCHANGED writer
     ELSE wpc' = "header" /\ data' = PutUint32(Len(p) + HeaderSize) /\ payload' = p
  /\ UNCHANGED <<wire, reader, fails, sent, delivered, whole>>

\* writeFrame is called; a payload too long for the header is refused.
writeFrame(p) ==
  /\ wpc = "idle" /\ frames < MaxFrames
  /\ frames' = frames + 1
  /\ IF Len(p) > maxFramePayloadSize THEN UNCHANGED writer
     ELSE wpc' = "header" /\ data' = PutUint32(Len(p)) /\ payload' = p
  /\ UNCHANGED <<wire, reader, fails, sent, delivered, whole>>

\* writeAll has written its data: of the header, or of the payload.
Written ==
  IF wpc = "header" /\ payload # <<>>
  THEN wpc' = "payload" /\ data' = payload /\ UNCHANGED sent
  ELSE wpc' = "idle" /\ data' = <<>> /\ sent' = Append(sent, payload)

\* Faulty variant: a short write counts as a full one.
writeAllOnce(n) ==
  /\ n \in 1..Len(data)
  /\ wire' = wire \o SubSeq(data, 1, n)
  /\ Written
  /\ UNCHANGED <<payload, reader, frames, fails, delivered, whole>>

\* A Write in the loop of writeAll that takes n bytes.
writeAll(n) ==
  /\ n \in 1..Len(data)
  /\ wire' = wire \o SubSeq(data, 1, n)
  /\ IF n = Len(data) THEN Written
     ELSE data' = SubSeq(data, n + 1, Len(data)) /\ UNCHANGED <<wpc, sent>>
  /\ UNCHANGED <<payload, reader, frames, fails, delivered, whole>>

\* A Write that fails after n bytes, or takes none (io.ErrShortWrite).
writeFail(n) ==
  /\ wpc # "idle" /\ fails < MaxFails
  /\ n \in 0..Len(data)
  /\ wire' = wire \o SubSeq(data, 1, n)
  /\ wpc' = "idle" /\ data' = <<>> /\ fails' = fails + 1
  /\ whole' = (whole /\ wpc = "header" /\ Len(data) = HeaderSize /\ n = 0)
  /\ UNCHANGED <<payload, reader, frames, sent, delivered>>

-----------------------------------------------------------------------------
\* readFrameInto returns the message.
Deliver(message) ==
  /\ delivered' = Append(delivered, message)
  /\ header' = <<>> /\ size' = -1 /\ got' = 0

\* The header is complete: a size above the limit is refused, and what follows
\* of the frame stays unread; the message of size 0 needs no further Read.
FrameSize(h) ==
  IF Uint32(h) > MaxMessageSize
  THEN /\ header' = <<>> /\ whole' = FALSE
       /\ UNCHANGED <<size, got, delivered>>
  ELSE IF Uint32(h) = 0 THEN Deliver(<<>>) /\ UNCHANGED whole
  ELSE size' = Uint32(h) /\ header' = h /\ UNCHANGED <<got, delivered, whole>>

\* A Read of n bytes in the io.ReadFull of readFrameSize.
readFrameSize(n) ==
  /\ size = -1 /\ n \in 1..Len(wire) /\ n <= HeaderSize - Len(header)
  /\ LET h == header \o SubSeq(wire, 1, n)
     IN IF Len(h) = HeaderSize THEN FrameSize(h)
        ELSE header' = h /\ UNCHANGED <<size, got, delivered, whole>>
  /\ wire' = SubSeq(wire, n + 1, Len(wire))
  /\ UNCHANGED <<writer, buffer, frames, fails, sent>>

\* A Read of n bytes in the io.ReadFull of readFrameInto, into buffer[:size].
readFrameInto(n) ==
  /\ size > 0 /\ n \in 1..Len(wire) /\ n <= size - got
  /\ buffer' = [i \in DOMAIN buffer |->
                  IF i > got /\ i <= got + n THEN wire[i - got] ELSE buffer[i]]
  /\ wire' = SubSeq(wire, n + 1, Len(wire))
  /\ IF got + n = size THEN Deliver(SubSeq(buffer', 1, size))
     ELSE got' = got + n /\ UNCHANGED <<header, size, delivered>>
  /\ UNCHANGED <<writer, frames, fails, sent, whole>>

\* A Read that fails; the bytes read so far are lost.
readFail ==
  /\ fails < MaxFails /\ fails' = fails + 1
  /\ header' = <<>> /\ size' = -1 /\ got' = 0
  /\ whole' = (whole /\ header = <<>>)
  /\ UNCHANGED <<writer, wire, buffer, frames, sent, delivered>>

Pieces == 1..(MaxMessageSize + HeaderSize)

Writing == \E n \in Pieces : writeAll(n)
Reading == \E n \in Pieces : readFrameSize(n) \/ readFrameInto(n)

Next ==
  \/ \E p \in Payloads : writeFrame(p)
  \/ Writing
  \/ \E n \in {0} \cup Pieces : writeFail(n)
  \/ Reading
  \/ readFail

Spec == Init /\ [][Next]_vars

\* Bytes on the way arrive, and both ends go on as long as they do.
FairSpec == Spec /\ WF_vars(Writing) /\ WF_vars(Reading)

-----------------------------------------------------------------------------
Messages ==
  Payloads \cup UNION {[1..n -> Bytes] : n \in 0..MaxMessageSize}

Channel == INSTANCE FrameChannel

\* Messages arrive whole, once and in order, however the bytes are split and
\* whatever an earlier message left in the buffer, until an error in the middle
\* of a frame: writeFrame and readFrameInto implement FrameChannel.
ImplementsChannel == Channel!Spec

\* A frame that was written is read, unless an error in the middle of a frame
\* intervenes: no byte is missing that readFrameInto waits for.
FramesArrive ==
  \A n \in 1..MaxFrames : Len(sent) >= n ~> (Len(delivered) >= n \/ ~whole)
=============================================================================
