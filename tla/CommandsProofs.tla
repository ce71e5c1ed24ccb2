--------------------------- MODULE CommandsProofs ---------------------------
(***************************************************************************)
(* Proofs about Commands: for any number of goroutines and buffers, and    *)
(* whatever calls they make, a call sends its own command.                 *)
(***************************************************************************)
EXTENDS Commands, SequenceTheorems, TLAPS

-----------------------------------------------------------------------------
(***************************************************************************)
(* The inductive invariant.                                                *)
(***************************************************************************)
AnyCall == {FlushDB} \cup UNION {Calls[p] : p \in Callers}

BufferTypes ==
  /\ pc \in [Callers -> {"idle", "writing", "ready", "sent", "returning"}]
  /\ call \in [Callers -> AnyCall]
  /\ buf \in [Callers -> Buffers \cup {NoBuffer}]
  /\ pool \subseteq Buffers
  /\ DOMAIN content = Buffers /\ content = [b \in Buffers |-> content[b]]
  /\ DOMAIN wire = Callers /\ wire = [p \in Callers |-> wire[p]]
  /\ DOMAIN result = Callers /\ result = [p \in Callers |-> result[p]]
  /\ \A p \in Callers : pc[p] # "idle" => call[p] \in Calls[p]

Uses(p) == pc[p] # "idle" /\ call[p].buffered

\* A buffer has one holder, which has it between Get and Put.
OneHolder ==
  /\ \A p \in Callers : IF Uses(p) THEN buf[p] \in Buffers \ pool ELSE buf[p] = NoBuffer
  /\ \A p, q \in Callers : buf[p] = buf[q] /\ buf[p] # NoBuffer => p = q
  /\ \A p \in Callers : pc[p] = "writing" => Uses(p)

\* A buffer without a holder is empty; one with a holder has its command.
OwnContent ==
  /\ \A b \in Buffers : b \notin Held => content[b] = <<>>
  /\ \A p \in Callers : Uses(p) =>
       content[buf[p]] = IF pc[p] = "writing" THEN <<>> ELSE call[p].command

\* What a call has on the wire while it waits for answers, or has handled one.
OnWire ==
  \A p \in Callers :
    /\ pc[p] = "sent" => wire[p] = call[p].command
    /\ pc[p] = "returning" /\ result[p].status = "success" => wire[p] = call[p].command
    /\ pc[p] # "returning" => result[p] = Nothing

BufferInv == BufferTypes /\ OneHolder /\ OwnContent /\ OnWire

-----------------------------------------------------------------------------
\* An empty pool, and no calls yet.
LEMMA BufferInit == Init => BufferInv
<1> SUFFICES ASSUME Init PROVE BufferInv
  OBVIOUS
<1> USE DEF Init
<1>1. BufferTypes
  BY DEF BufferTypes, AnyCall
<1>2. \A p \in Callers : ~Uses(p) /\ pc[p] = "idle" /\ buf[p] = NoBuffer
  BY DEF Uses
<1>3. OneHolder
  BY <1>2, Zenon DEF OneHolder
<1>4. OwnContent
  BY <1>2, Zenon DEF OwnContent
<1>5. OnWire
  BY DEF OnWire
<1> QED
  BY <1>1, <1>3, <1>4, <1>5, Zenon DEF BufferInv

\* A call without a buffer changes no buffer; Get hands out an empty one.
LEMMA BeginKeeps ==
  ASSUME BufferInv, NEW p \in Callers, Begin(p) PROVE BufferInv'
<1> USE DEF BufferInv
<1>1. PICK c \in Calls[p] :
        /\ call' = [call EXCEPT ![p] = c]
        /\ IF c.buffered
           THEN /\ \E b \in pool \cup (Buffers \ Held) :
                     buf' = [buf EXCEPT ![p] = b] /\ pool' = pool \ {b}
                /\ pc' = [pc EXCEPT ![p] = "writing"]
           ELSE pc' = [pc EXCEPT ![p] = "ready"] /\ UNCHANGED <<buf, pool>>
  BY Zenon DEF Begin
<1>2. /\ pc[p] = "idle" /\ ~Uses(p) /\ buf[p] = NoBuffer
      /\ content' = content /\ wire' = wire /\ result' = result
  BY DEF Begin, Uses, OneHolder
<1>3. c \in AnyCall
  BY DEF AnyCall
<1>4. CASE c.buffered
  <2>1. PICK b \in pool \cup (Buffers \ Held) :
          buf' = [buf EXCEPT ![p] = b] /\ pool' = pool \ {b}
    BY <1>1, <1>4, Zenon
  <2>2. pc' = [pc EXCEPT ![p] = "writing"]
    BY <1>1, <1>4, Zenon
  <2>3. b \in Buffers /\ b \notin Held /\ b # NoBuffer
    <3>1. b \in Buffers /\ b # NoBuffer
      BY CommandsAssumption, Zenon DEF BufferTypes
    <3>2. ASSUME NEW q \in Callers PROVE buf[q] # b
      BY <3>1, Zenon DEF OneHolder, Held
    <3> QED
      BY <3>1, <3>2, Zenon DEF Held
  <2>4. BufferTypes'
    BY <1>1, <1>2, <1>3, <2>1, <2>2, <2>3, SMTT(30) DEF BufferTypes
  <2>5. /\ Uses(p)' /\ buf'[p] = b /\ call'[p] = c /\ pc'[p] = "writing"
        /\ \A q \in Callers \ {p} :
             /\ Uses(q)' = Uses(q) /\ buf'[q] = buf[q] /\ buf[q] # b
             /\ call'[q] = call[q] /\ pc'[q] = pc[q]
    BY <1>1, <1>4, <2>1, <2>2, <2>3, Zenon DEF BufferTypes, Uses, Held
  <2>6. OneHolder'
    BY <2>1, <2>3, <2>5, SMTT(30) DEF OneHolder
  <2>7. OwnContent'
    <3>1. ASSUME NEW d \in Buffers, d \notin Held' PROVE d \notin Held
      BY <1>2, <2>5, <3>1, CommandsAssumption, Zenon DEF Held
    <3>2. \A d \in Buffers : d \notin Held' => content'[d] = <<>>
      BY <1>2, <3>1, Zenon DEF OwnContent
    <3>3. ASSUME NEW q \in Callers, Uses(q)'
          PROVE  content'[buf'[q]] = IF pc'[q] = "writing" THEN <<>> ELSE call'[q].command
      <4>1. CASE q = p
        BY <1>2, <2>3, <2>5, <4>1, Zenon DEF OwnContent
      <4>2. CASE q # p
        BY <1>2, <2>5, <3>3, <4>2, Zenon DEF OwnContent
      <4> QED
        BY <4>1, <4>2, Zenon
    <3> QED
      BY <3>2, <3>3, Zenon DEF OwnContent
  <2>8. OnWire'
    BY <1>2, <2>5, Zenon DEF OnWire
  <2> QED
    BY <2>4, <2>6, <2>7, <2>8, Zenon
<1>5. CASE ~c.buffered
  <2>1. pc' = [pc EXCEPT ![p] = "ready"] /\ buf' = buf /\ pool' = pool
    BY <1>1, <1>5, Zenon
  <2>2. BufferTypes'
    BY <1>1, <1>2, <1>3, <2>1, Zenon DEF BufferTypes
  <2>3. /\ ~Uses(p)' /\ call'[p] = c /\ pc'[p] = "ready"
        /\ \A q \in Callers \ {p} :
             Uses(q)' = Uses(q) /\ call'[q] = call[q] /\ pc'[q] = pc[q]
    BY <1>1, <1>5, <2>1, Zenon DEF BufferTypes, Uses
  <2>4. OneHolder'
    BY <1>2, <2>1, <2>3, Zenon DEF OneHolder
  <2>5. OwnContent'
    BY <1>2, <2>1, <2>3, SMTT(30) DEF OwnContent, Held
  <2>6. OnWire'
    BY <1>2, <2>3 DEF OnWire
  <2> QED
    BY <2>2, <2>4, <2>5, <2>6, Zenon
<1> QED
  BY <1>4, <1>5, Zenon

\* The writer appends to an empty buffer that no other call has.
LEMMA WriteKeeps ==
  ASSUME BufferInv, NEW p \in Callers, Write(p) PROVE BufferInv'
<1> USE DEF BufferInv
<1>1. /\ pc[p] = "writing" /\ pc' = [pc EXCEPT ![p] = "ready"]
      /\ content' = [content EXCEPT ![buf[p]] = content[buf[p]] \o call[p].command]
      /\ call' = call /\ buf' = buf /\ pool' = pool /\ wire' = wire /\ result' = result
  BY Zenon DEF Write
<1>2. Uses(p) /\ buf[p] \in Buffers /\ content[buf[p]] = <<>>
  BY <1>1, Zenon DEF OneHolder, OwnContent
<1>3. <<>> \o call[p].command = call[p].command
  <2>1. call[p].command \in Seq(STRING)
    BY <1>1, CommandsAssumption, Zenon DEF BufferTypes
  <2> QED
    BY <2>1, ConcatEmptySeq, Zenon
<1>4. BufferTypes'
  BY <1>1, Zenon DEF BufferTypes
<1>5. /\ pc'[p] = "ready" /\ content'[buf[p]] = call[p].command
      /\ \A q \in Callers : Uses(q)' = Uses(q)
      /\ \A q \in Callers \ {p} : pc'[q] = pc[q]
      /\ \A b \in Buffers \ {buf[p]} : content'[b] = content[b]
  BY <1>1, <1>2, <1>3, Zenon DEF BufferTypes, Uses
<1>6. OneHolder'
  BY <1>1, <1>5, Zenon DEF OneHolder
<1>7. OwnContent'
  <2>1. ASSUME NEW b \in Buffers, b \notin Held' PROVE content'[b] = <<>>
    BY <1>1, <1>5, <2>1, SMTT(30) DEF OwnContent, Held
  <2>2. ASSUME NEW q \in Callers, Uses(q)'
        PROVE  content'[buf'[q]] = IF pc'[q] = "writing" THEN <<>> ELSE call'[q].command
    <3>1. CASE q = p
      BY <1>1, <1>5, <3>1, Zenon
    <3>2. CASE q # p
      <4>1. Uses(q) /\ buf[q] \in Buffers /\ buf[q] # buf[p]
        BY <1>2, <1>5, <2>2, <3>2, CommandsAssumption, Zenon DEF OneHolder
      <4> QED
        BY <1>1, <1>5, <3>2, <4>1, Zenon DEF OwnContent
    <3> QED
      BY <3>1, <3>2, Zenon
  <2> QED
    BY <2>1, <2>2, Zenon DEF OwnContent
<1>8. OnWire'
  BY <1>1, <1>5, Zenon DEF OnWire
<1> QED
  BY <1>4, <1>6, <1>7, <1>8, Zenon

\* Send, an answer, an event or an error leaves all buffers as they are.
LEMMA ExchangeKeeps ==
  ASSUME BufferInv, NEW p \in Callers,
         Fail(p) \/ Send(p) \/ Answer(p) \/ Continue(p)
  PROVE  BufferInv'
<1> USE DEF BufferInv
<1>1. /\ pc[p] \in {"ready", "sent", "returning"}
      /\ call' = call /\ buf' = buf /\ content' = content /\ pool' = pool
  BY Zenon DEF Fail, Send, Answer, Continue
<1>2. PICK l \in {"sent", "returning"} : pc' = [pc EXCEPT ![p] = l]
  BY DEF Fail, Send, Answer, Continue
<1>3. BufferTypes'
  <2>1. /\ DOMAIN wire' = Callers /\ wire' = [q \in Callers |-> wire'[q]]
        /\ DOMAIN result' = Callers /\ result' = [q \in Callers |-> result'[q]]
    BY Zenon DEF Fail, Send, Answer, Continue, BufferTypes
  <2> QED
    BY <1>1, <1>2, <2>1, Zenon DEF BufferTypes
<1>4. /\ pc'[p] = l /\ pc'[p] # "writing" /\ pc[p] # "writing"
      /\ \A q \in Callers : Uses(q)' = Uses(q)
      /\ \A q \in Callers \ {p} : pc'[q] = pc[q]
  BY <1>1, <1>2, Zenon DEF BufferTypes, Uses
<1>5. OneHolder'
  BY <1>1, <1>4, Zenon DEF OneHolder
<1>6. OwnContent'
  BY <1>1, <1>4, Zenon DEF OwnContent, Held
<1>7. OnWire'
  <2>1. \A q \in Callers \ {p} : wire'[q] = wire[q] /\ result'[q] = result[q]
    BY Zenon DEF Fail, Send, Answer, Continue, BufferTypes
  <2>2. CASE Fail(p)
    <3>1. wire' = wire /\ result' = result /\ pc'[p] = "returning" /\ pc[p] # "returning"
      BY <2>2, Zenon DEF Fail, BufferTypes
    <3>2. result[p] = Nothing
      BY <3>1, Zenon DEF OnWire
    <3>3. result[p].status # "success"
      BY <3>2, SMTT(30) DEF Nothing
    <3> QED
      BY <1>1, <1>4, <2>1, <3>1, <3>3, Zenon DEF OnWire
  <2>3. CASE Send(p)
    <3>1. /\ pc[p] \in {"ready", "sent"} /\ pc'[p] = "sent" /\ result' = result
          /\ wire'[p] = IF call[p].buffered THEN content[buf[p]] ELSE call[p].command
      BY <2>3, Zenon DEF Send, BufferTypes
    <3>2. call[p].buffered => content[buf[p]] = call[p].command
      BY <3>1, Zenon DEF OwnContent, Uses
    <3>3. wire'[p] = call[p].command /\ result'[p] = Nothing
      BY <3>1, <3>2, Zenon DEF OnWire
    <3> QED
      BY <1>1, <1>4, <2>1, <3>1, <3>3, Zenon DEF OnWire
  <2>4. CASE Answer(p)
    <3>1. pc[p] = "sent" /\ pc'[p] = "returning" /\ wire' = wire
      BY <2>4, Zenon DEF Answer, BufferTypes
    <3>2. wire[p] = call[p].command
      BY <3>1, Zenon DEF OnWire
    <3> QED
      BY <1>1, <1>4, <2>1, <3>1, <3>2, Zenon DEF OnWire
  <2>5. CASE Continue(p)
    <3>1. /\ pc[p] = "returning" /\ result[p].status = "success" /\ pc'[p] = "sent"
          /\ wire' = wire /\ result'[p] = Nothing
      BY <2>5, Zenon DEF Continue, BufferTypes
    <3>2. wire[p] = call[p].command
      BY <3>1, Zenon DEF OnWire
    <3> QED
      BY <1>1, <1>4, <2>1, <3>1, <3>2, Zenon DEF OnWire
  <2> QED
    BY <2>2, <2>3, <2>4, <2>5, Zenon
<1> QED
  BY <1>3, <1>5, <1>6, <1>7, Zenon

\* The deferred Put empties the buffer it gives back.
LEMMA PutKeeps ==
  ASSUME BufferInv, NEW p \in Callers, Put(p) PROVE BufferInv'
<1> USE DEF BufferInv
<1>1. /\ pc[p] = "returning" /\ pc' = [pc EXCEPT ![p] = "idle"]
      /\ buf' = [buf EXCEPT ![p] = NoBuffer] /\ call' = call
      /\ wire' = [wire EXCEPT ![p] = <<>>] /\ result' = [result EXCEPT ![p] = Nothing]
      /\ IF call[p].buffered
         THEN /\ pool' = pool \cup {buf[p]}
              /\ content' = [content EXCEPT ![buf[p]] = <<>>]
         ELSE pool' = pool /\ content' = content
  BY DEF Put, Leave
<1>2. BufferTypes'
  <2>1. DOMAIN content' = Buffers /\ content' = [b \in Buffers |-> content'[b]]
    BY <1>1, Zenon DEF BufferTypes
  <2>2. pool' \subseteq Buffers
    BY <1>1, SMTT(30) DEF BufferTypes, OneHolder, Uses
  <2> QED
    BY <1>1, <2>1, <2>2, Zenon DEF BufferTypes
<1>3. /\ ~Uses(p)' /\ buf'[p] = NoBuffer /\ pc'[p] = "idle" /\ result'[p] = Nothing
      /\ \A q \in Callers \ {p} :
           /\ Uses(q)' = Uses(q) /\ buf'[q] = buf[q] /\ pc'[q] = pc[q]
           /\ wire'[q] = wire[q] /\ result'[q] = result[q]
  BY <1>1, Zenon DEF BufferTypes, Uses
<1>4. OnWire'
  BY <1>1, <1>3, SMTT(30) DEF OnWire
<1>5. CASE call[p].buffered
  <2>1. Uses(p) /\ buf[p] \in Buffers /\ buf[p] # NoBuffer
    BY <1>1, <1>5, CommandsAssumption, Zenon DEF OneHolder, Uses
  <2>2. \A q \in Callers \ {p} : buf[q] # buf[p]
    BY <2>1, Zenon DEF OneHolder
  <2>3. /\ pool' = pool \cup {buf[p]} /\ content'[buf[p]] = <<>>
        /\ \A b \in Buffers \ {buf[p]} : content'[b] = content[b]
    BY <1>1, <1>5, <2>1, Zenon DEF BufferTypes
  <2>4. OneHolder'
    BY <1>3, <2>2, <2>3, SMTT(30) DEF OneHolder
  <2>5. OwnContent'
    <3>1. ASSUME NEW b \in Buffers, b \notin Held' PROVE content'[b] = <<>>
      <4>1. CASE b = buf[p]
        BY <2>3, <4>1, Zenon
      <4>2. CASE b # buf[p]
        <5>1. b \notin Held
          BY <1>3, <3>1, <4>2, Zenon DEF Held
        <5> QED
          BY <2>3, <4>2, <5>1, Zenon DEF OwnContent
      <4> QED
        BY <4>1, <4>2, Zenon
    <3>2. ASSUME NEW q \in Callers, Uses(q)'
          PROVE  content'[buf'[q]] = IF pc'[q] = "writing" THEN <<>> ELSE call'[q].command
      <4>1. q # p /\ Uses(q) /\ buf[q] \in Buffers /\ buf[q] # buf[p]
        BY <1>3, <2>2, <3>2, Zenon DEF OneHolder
      <4> QED
        BY <1>1, <1>3, <2>3, <4>1, SMTT(30) DEF OwnContent
    <3> QED
      BY <3>1, <3>2 DEF OwnContent
  <2> QED
    BY <1>2, <1>4, <2>4, <2>5, Zenon
<1>6. CASE ~call[p].buffered
  <2>1. pool' = pool /\ content' = content /\ buf[p] = NoBuffer
    BY <1>1, <1>6, Zenon DEF OneHolder, Uses
  <2>2. OneHolder'
    BY <1>3, <2>1, SMTT(30) DEF OneHolder
  <2>3. OwnContent'
    <3>1. ASSUME NEW b \in Buffers, b \notin Held' PROVE b \notin Held
      BY <1>3, <2>1, <3>1, CommandsAssumption, Zenon DEF Held
    <3> QED
      BY <1>1, <1>3, <2>1, <3>1, SMTT(30) DEF OwnContent
  <2> QED
    BY <1>2, <1>4, <2>2, <2>3, Zenon
<1> QED
  BY <1>5, <1>6, Zenon

\* The invariant holds in every reachable state.
LEMMA BufferInvariant == Spec => []BufferInv
<1>1. BufferInv /\ [Next]_vars => BufferInv'
  <2> SUFFICES ASSUME BufferInv, [Next]_vars PROVE BufferInv'
    OBVIOUS
  <2>1. CASE Next
    <3>1. PICK p \in Callers :
            \/ Begin(p) \/ Write(p) \/ Put(p)
            \/ Fail(p) \/ Send(p) \/ Answer(p) \/ Continue(p)
      BY <2>1, Zenon DEF Next
    <3> QED
      BY <3>1, BeginKeeps, WriteKeeps, ExchangeKeeps, PutKeeps, Zenon
  <2>2. CASE UNCHANGED vars
    <3> USE <2>2 DEF vars, BufferInv
    <3>1. BufferTypes'
      BY Zenon DEF BufferTypes
    <3>2. OneHolder'
      BY Zenon DEF OneHolder, Uses
    <3>3. OwnContent'
      BY Zenon DEF OwnContent, Uses, Held
    <3>4. OnWire'
      BY DEF OnWire
    <3> QED
      BY <3>1, <3>2, <3>3, <3>4, Zenon
  <2> QED
    BY <2>1, <2>2, Zenon
<1> QED
  BY <1>1, BufferInit, PTL DEF Spec

(***************************************************************************)
(* Whatever the other goroutines do with the buffers of bytesBufferPool,   *)
(* a method of Client sends its own command and nothing else, also when it *)
(* sends it again after a reconnect (client.go, bytes_buffer_pool.go).     *)
(***************************************************************************)
THEOREM CommandsAreOwn == Spec => []OwnCommandSent
<1>1. BufferInv => OwnCommandSent
  BY DEF BufferInv, OnWire, OwnCommandSent
<1> QED
  BY <1>1, BufferInvariant, PTL

=============================================================================
