------------------------- MODULE StreamEventsProofs -------------------------
(***************************************************************************)
(* Proofs about StreamEvents, for every finite and non-empty set of        *)
(* shards, however their goroutines, the caller and its context interleave.*)
(***************************************************************************)
EXTENDS StreamEvents, FiniteSetTheorems, TLAPS

-----------------------------------------------------------------------------
Places == {"new", "stream", "lock", "handle", "failed", "ended", "cancel",
           "done", "exited"}

StreamTypes ==
  /\ gpc \in [Shards -> Places]
  /\ handleMu \in Shards \cup {NoShard}
  /\ err \in [Shards -> Errors \cup {"none"}]
  /\ errs \in Seq(Errors)
  /\ errsClosed \in BOOLEAN /\ streamCtx \in BOOLEAN /\ ctx \in BOOLEAN
  /\ pc \in {"spawn", "receive", "returned"}
  /\ first \in Errors \cup {"none"}

\* handleMu is held by the goroutine that is in the handler, and by no other.
MutexHeld == \A s \in Shards : gpc[s] = "handle" <=> handleMu = s

\* The goroutines that have sent their error to errs.
Sent == {s \in Shards : gpc[s] \in {"cancel", "done", "exited"}}

(***************************************************************************)
(* The WaitGroup counts the goroutines alive, so errs is closed only when  *)
(* all have exited; each goroutine sends once, so errs holds at most one   *)
(* error of each that has sent.                                            *)
(***************************************************************************)
ErrsCounted ==
  /\ wg = Cardinality(Alive)
  /\ pc # "spawn" => \A s \in Shards : gpc[s] # "new"
  /\ errsClosed => \A s \in Shards : gpc[s] = "exited"
  /\ Len(errs) <= Cardinality(Sent)

(***************************************************************************)
(* Until the call returns, the first error is at the head of errs.  It was *)
(* sent before anything cancelled streamCtx, so it is an error of a        *)
(* context only if the caller's context had ended.                         *)
(***************************************************************************)
FirstAtHead ==
  /\ \A s \in Shards : gpc[s] \in {"failed", "ended"} => err[s] # "none"
  /\ first = "none" <=> Sent = {}
  /\ streamCtx => first # "none"
  /\ \A s \in Shards : err[s] = "ctx" => ctx \/ first # "none"
  /\ first = "ctx" => ctx
  /\ pc = "returned" => first # "none"
  /\ pc # "returned" => /\ first # "none" => errs # <<>> /\ Head(errs) = first
                        /\ first = "none" => errs = <<>>

StreamInv ==
  StreamTypes /\ MutexHeld /\ ErrsCounted /\ FirstAtHead /\ FirstErrorReturned

-----------------------------------------------------------------------------
(***************************************************************************)
(* The steps of one goroutine, of the goroutine that closes errs, of the   *)
(* caller, and of its context.                                             *)
(***************************************************************************)
LEMMA NextCases ==
  ASSUME [Next]_vars
  PROVE  \/ \E s \in Shards : \/ Spawn(s) \/ Event(s) \/ Lock(s) \/ HandleOk(s)
                              \/ HandleError(s) \/ StreamFails(s) \/ StreamReturns(s)
                              \/ SendErr(s) \/ Cancel(s) \/ Done(s)
         \/ CloseErrs \/ Receive \/ EndContext \/ UNCHANGED vars
  BY DEF Next, Own, Finished

\* The errors that may lie in errs.
LEMMA QueueFacts ==
  ASSUME NEW q \in Seq(Errors)
  PROVE  /\ Len(q) \in Nat
         /\ q = <<>> <=> Len(q) = 0
         /\ q # <<>> => /\ Head(q) \in Errors
                        /\ Tail(q) \in Seq(Errors) /\ Len(Tail(q)) = Len(q) - 1
         /\ \A e \in Errors : /\ Append(q, e) \in Seq(Errors)
                              /\ Len(Append(q, e)) = Len(q) + 1
                              /\ Append(q, e) # <<>>
                              /\ q = <<>> => Head(Append(q, e)) = e
                              /\ q # <<>> => Head(Append(q, e)) = Head(q)
  OBVIOUS

\* Every step keeps the types: Client.stream has an error when it ends.
LEMMA TypesStep ==
  ASSUME StreamTypes, [Next]_vars,
         \A s \in Shards : gpc[s] \in {"failed", "ended"} => err[s] # "none"
  PROVE  StreamTypes'
<1> USE StreamAssumption DEF StreamTypes, Places, Errors
<1>1. ASSUME NEW s \in Shards,
             \/ Spawn(s) \/ Event(s) \/ Lock(s) \/ HandleOk(s)
      PROVE  StreamTypes'
  BY <1>1 DEF Spawn, Event, Lock, HandleOk, Goto
<1>2. ASSUME NEW s \in Shards, HandleError(s) \/ StreamFails(s) \/ StreamReturns(s)
      PROVE  StreamTypes'
  BY <1>2 DEF HandleError, StreamFails, StreamReturns, Goto
<1>3. ASSUME NEW s \in Shards, SendErr(s)
      PROVE  StreamTypes'
  <2>1. err[s] \in Errors
    BY <1>3 DEF SendErr
  <2>2. errs' \in Seq(Errors) /\ first' \in Errors \cup {"none"}
    BY <1>3, <2>1, QueueFacts DEF SendErr
  <2> QED BY <1>3, <2>2 DEF SendErr, Goto
<1>4. ASSUME NEW s \in Shards, Cancel(s) \/ Done(s)
      PROVE  StreamTypes'
  BY <1>4, Zenon DEF Cancel, Done, Goto
<1>5. CASE Receive
  BY <1>5, QueueFacts DEF Receive
<1>6. CASE CloseErrs \/ EndContext \/ UNCHANGED vars
  BY <1>6, Zenon DEF CloseErrs, EndContext, vars
<1> QED BY <1>1, <1>2, <1>3, <1>4, <1>5, <1>6, NextCases

\* Only Lock takes handleMu, when it is free, and only its holder gives it up.
LEMMA MutexStep ==
  ASSUME StreamTypes, MutexHeld, [Next]_vars
  PROVE  MutexHeld'
<1> USE StreamAssumption DEF StreamTypes, MutexHeld
<1>1. ASSUME NEW s \in Shards, Lock(s) \/ HandleOk(s) \/ HandleError(s)
      PROVE  MutexHeld'
  BY <1>1 DEF Lock, HandleOk, HandleError, Goto
<1>2. ASSUME NEW s \in Shards,
             \/ Spawn(s) \/ Event(s) \/ StreamFails(s) \/ StreamReturns(s)
             \/ SendErr(s) \/ Cancel(s) \/ Done(s)
      PROVE  MutexHeld'
  BY <1>2 DEF Spawn, Event, StreamFails, StreamReturns, SendErr, Cancel, Done, Goto
<1>3. CASE CloseErrs \/ Receive \/ EndContext \/ UNCHANGED vars
  BY <1>3 DEF CloseErrs, Receive, EndContext, vars
<1> QED BY <1>1, <1>2, <1>3, NextCases

-----------------------------------------------------------------------------
\* The sets that wg and errs are compared with are finite.
LEMMA CountsFinite ==
  /\ IsFiniteSet(Alive) /\ Cardinality(Alive) \in Nat
  /\ IsFiniteSet(Sent) /\ Cardinality(Sent) \in Nat
  /\ Cardinality(Shards) \in Nat
  /\ \A S \in SUBSET Shards : /\ Cardinality(S) <= Cardinality(Shards)
                              /\ Cardinality(S) = Cardinality(Shards) => S = Shards
<1>1. Alive \in SUBSET Shards /\ Sent \in SUBSET Shards
  BY DEF Alive, Sent
<1> QED BY <1>1, FS_Subset, FS_CardinalityType, StreamAssumption

\* How one goroutine's step changes the two counts.
LEMMA CountsStep ==
  ASSUME StreamTypes, NEW s \in Shards, NEW l \in Places, gpc' = [gpc EXCEPT ![s] = l]
  PROVE  /\ gpc[s] = "new" /\ l = "stream"
              => Cardinality(Alive') = Cardinality(Alive) + 1
         /\ gpc[s] = "done" /\ l = "exited"
              => Cardinality(Alive') = Cardinality(Alive) - 1
         /\ gpc[s] \notin {"new", "exited"} /\ l \notin {"new", "exited"}
              => Alive' = Alive
         /\ gpc[s] = "ended" /\ l = "cancel"
              => Sent' # {} /\ Cardinality(Sent') = Cardinality(Sent) + 1
         /\ s \notin Sent /\ l \notin {"cancel", "done", "exited"} => Sent' = Sent
         /\ s \in Sent /\ l \in {"done", "exited"} => Sent' = Sent
<1> USE DEF StreamTypes, Places
<1>1. gpc[s] = "new" /\ l = "stream" => s \notin Alive /\ Alive' = Alive \cup {s}
  BY DEF Alive
<1>2. gpc[s] = "done" /\ l = "exited" => s \in Alive /\ Alive' = Alive \ {s}
  BY DEF Alive
<1>3. gpc[s] \notin {"new", "exited"} /\ l \notin {"new", "exited"} => Alive' = Alive
  BY DEF Alive
<1>4. gpc[s] = "ended" /\ l = "cancel" => s \notin Sent /\ Sent' = Sent \cup {s}
  BY DEF Sent
<1>5. /\ s \notin Sent /\ l \notin {"cancel", "done", "exited"} => Sent' = Sent
      /\ s \in Sent /\ l \in {"done", "exited"} => Sent' = Sent
  BY DEF Sent
<1>6. /\ s \notin Alive => Cardinality(Alive \cup {s}) = Cardinality(Alive) + 1
      /\ s \in Alive => Cardinality(Alive \ {s}) = Cardinality(Alive) - 1
      /\ s \notin Sent => Cardinality(Sent \cup {s}) = Cardinality(Sent) + 1
  BY Zenon, CountsFinite, FS_AddElement, FS_RemoveElement
<1> QED BY <1>1, <1>2, <1>3, <1>4, <1>5, <1>6, Zenon

\* wg counts the goroutines alive, and no goroutine sends more than once.
LEMMA CountedStep ==
  ASSUME StreamTypes, StreamTypes', ErrsCounted, [Next]_vars
  PROVE  ErrsCounted'
<1> USE StreamAssumption, CountsFinite DEF StreamTypes, ErrsCounted
<1>0. Len(errs) \in Nat /\ Len(errs') \in Nat
  BY QueueFacts
<1>1. ASSUME NEW s \in Shards, Spawn(s)
      PROVE  ErrsCounted'
  <2>1. gpc' = [gpc EXCEPT ![s] = "stream"] /\ gpc[s] = "new" /\ "stream" \in Places
    BY <1>1 DEF Spawn, Places
  <2>2. Cardinality(Alive') = Cardinality(Alive) + 1 /\ Sent' = Sent
    BY <2>1, CountsStep, Zenon DEF Sent
  <2>3. pc' # "spawn" => \A t \in Shards : gpc'[t] # "new"
    BY <1>1, <2>1 DEF Spawn
  <2> QED BY <1>0, <1>1, <2>1, <2>2, <2>3 DEF Spawn
<1>2. ASSUME NEW s \in Shards,
             \/ Event(s) \/ Lock(s) \/ HandleOk(s) \/ HandleError(s)
             \/ StreamFails(s) \/ StreamReturns(s)
      PROVE  ErrsCounted'
  <2>1. PICK l \in {"lock", "handle", "stream", "failed", "ended"} :
          gpc' = [gpc EXCEPT ![s] = l]
    BY <1>2, Zenon DEF Event, Lock, HandleOk, HandleError, StreamFails, StreamReturns, Goto
  <2>2. /\ gpc[s] \notin {"new", "exited"} /\ s \notin Sent
        /\ UNCHANGED <<errs, errsClosed, wg, pc>>
    BY <1>2 DEF Event, Lock, HandleOk, HandleError, StreamFails, StreamReturns, Sent
  <2>3. Alive' = Alive /\ Sent' = Sent
    BY <2>1, <2>2, CountsStep, Zenon DEF Places
  <2> QED BY <1>0, <2>1, <2>2, <2>3, Zenon
<1>3. ASSUME NEW s \in Shards, SendErr(s)
      PROVE  ErrsCounted'
  <2>1. gpc' = [gpc EXCEPT ![s] = "cancel"] /\ gpc[s] = "ended" /\ "cancel" \in Places
    BY <1>3 DEF SendErr, Goto, Places
  <2>2. Cardinality(Sent') = Cardinality(Sent) + 1 /\ Alive' = Alive
    BY <2>1, CountsStep, Zenon
  <2>3. Len(errs') = Len(errs) + 1
    BY <1>3, <1>0 DEF SendErr
  <2> QED BY <1>0, <1>3, <2>1, <2>2, <2>3 DEF SendErr
<1>4. ASSUME NEW s \in Shards, Cancel(s) \/ Done(s)
      PROVE  ErrsCounted'
  <2>1. PICK l \in {"done", "exited"} : gpc' = [gpc EXCEPT ![s] = l]
    BY <1>4 DEF Cancel, Done, Goto
  <2>2. Sent' = Sent
    BY <1>4, <2>1, CountsStep, Zenon DEF Cancel, Done, Sent, Places
  <2>3. wg' = Cardinality(Alive')
    <3>1. CASE Cancel(s)
      BY <3>1, CountsStep, Zenon DEF Cancel, Goto, Places
    <3>2. CASE Done(s)
      BY <3>2, CountsStep, Zenon DEF Done, Goto, Places
    <3> QED BY <1>4, <3>1, <3>2
  <2> QED BY <1>0, <1>4, <2>1, <2>2, <2>3 DEF Cancel, Done
<1>5. CASE CloseErrs
  <2>1. Alive = {}
    BY <1>5, FS_EmptySet, Zenon DEF CloseErrs
  <2>2. \A s \in Shards : gpc[s] = "exited"
    BY <1>5, <2>1 DEF CloseErrs, Alive
  <2>3. Alive' = Alive /\ Sent' = Sent
    BY <1>5 DEF CloseErrs, Alive, Sent
  <2> QED BY <1>0, <1>5, <2>2, <2>3, Zenon DEF CloseErrs
<1>6. CASE Receive
  <2>1. Alive' = Alive /\ Sent' = Sent
    BY <1>6 DEF Receive, Alive, Sent
  <2>2. Len(errs') <= Len(errs)
    BY <1>6, QueueFacts DEF Receive
  <2> QED BY <1>0, <1>6, <2>1, <2>2 DEF Receive
<1>7. CASE EndContext \/ UNCHANGED vars
  BY <1>7, Zenon DEF EndContext, vars, Alive, Sent
<1> QED BY <1>1, <1>2, <1>3, <1>4, <1>5, <1>6, <1>7, NextCases, Zenon

(***************************************************************************)
(* The first error stays at the head of errs until the caller takes it,    *)
(* and the context is cancelled only behind it.                            *)
(***************************************************************************)
LEMMA FirstStep ==
  ASSUME StreamTypes, StreamTypes', ErrsCounted, FirstAtHead, FirstErrorReturned,
         [Next]_vars
  PROVE  FirstAtHead' /\ FirstErrorReturned'
<1> USE StreamAssumption DEF StreamTypes, FirstAtHead, FirstErrorReturned
<1>1. ASSUME NEW s \in Shards,
             \/ Spawn(s) \/ Event(s) \/ Lock(s) \/ HandleOk(s) \/ HandleError(s)
             \/ StreamFails(s) \/ StreamReturns(s)
      PROVE  FirstAtHead' /\ FirstErrorReturned'
  <2>1. PICK l \in {"stream", "lock", "handle", "failed", "ended"} :
          gpc' = [gpc EXCEPT ![s] = l]
    BY <1>1, Zenon DEF Spawn, Event, Lock, HandleOk, HandleError, StreamFails,
                StreamReturns, Goto
  <2>2. Sent' = Sent
    BY <1>1, <2>1, CountsStep, Zenon DEF Spawn, Event, Lock, HandleOk, HandleError,
                StreamFails, StreamReturns, Sent, Places
  <2>3. /\ \A t \in Shards : gpc'[t] \in {"failed", "ended"} => err'[t] # "none"
        /\ \A t \in Shards : err'[t] = "ctx" => ctx \/ first # "none"
    BY <1>1, SMTT(30) DEF Spawn, Event, Lock, HandleOk, HandleError, StreamFails,
                StreamReturns, Goto, Cancelled
  <2>4. /\ UNCHANGED <<errs, streamCtx, ctx, result, first>>
        /\ pc' = "returned" <=> pc = "returned"
    BY <1>1 DEF Spawn, Event, Lock, HandleOk, HandleError, StreamFails, StreamReturns
  <2> QED BY <2>2, <2>3, <2>4
<1>2. ASSUME NEW s \in Shards, SendErr(s)
      PROVE  FirstAtHead' /\ FirstErrorReturned'
  <2>1. gpc' = [gpc EXCEPT ![s] = "cancel"] /\ gpc[s] = "ended" /\ err[s] \in Errors
    BY <1>2, Zenon DEF SendErr, Goto
  <2>2. Sent' # {} /\ first' # "none"
    BY <1>2, <2>1, CountsStep, Zenon DEF SendErr, Places, Errors
  <2>3. pc # "returned" => errs' # <<>> /\ Head(errs') = first'
    BY <1>2, <2>1, QueueFacts, Zenon DEF SendErr
  <2>4. first' = "ctx" => ctx
    BY <1>2 DEF SendErr
  <2>5. pc = "returned" => first' = first
    BY <1>2 DEF SendErr
  <2> QED BY <1>2, <2>1, <2>2, <2>3, <2>4, <2>5, Zenon DEF SendErr
<1>3. ASSUME NEW s \in Shards, Cancel(s) \/ Done(s)
      PROVE  FirstAtHead' /\ FirstErrorReturned'
  <2>1. Sent' = Sent /\ s \in Sent
    BY <1>3, CountsStep DEF Cancel, Done, Goto, Sent, Places
  <2> QED BY <1>3, <2>1, Zenon DEF Cancel, Done, Goto
<1>4. CASE Receive
  <2>1. first # "none"
    BY <1>4 DEF Receive, ErrsCounted, Sent
  <2>2. errs # <<>> /\ Head(errs) = first
    BY <1>4, <2>1 DEF Receive
  <2>3. Sent' = Sent
    BY <1>4 DEF Receive, Sent
  <2> QED BY <1>4, <2>1, <2>2, <2>3, Zenon DEF Receive
<1>5. CASE CloseErrs \/ EndContext \/ UNCHANGED vars
  BY <1>5 DEF CloseErrs, EndContext, vars, Sent
<1> QED BY <1>1, <1>2, <1>3, <1>4, <1>5, NextCases, Zenon

-----------------------------------------------------------------------------
\* A call that has not spawned a goroutine yet satisfies the invariant.
LEMMA StreamInvInit == Init => StreamInv
<1> SUFFICES ASSUME Init PROVE StreamInv
  OBVIOUS
<1>1. Alive = {} /\ Sent = {}
  BY DEF Init, Alive, Sent
<1>2. Cardinality(Alive) = 0 /\ Cardinality(Sent) = 0
  BY <1>1, FS_EmptySet
<1>3. StreamTypes
  <2>1. errsClosed \in BOOLEAN /\ streamCtx \in BOOLEAN /\ ctx \in BOOLEAN
    BY Zenon DEF Init
  <2> QED BY <2>1 DEF Init, StreamTypes, Places
<1>4. MutexHeld /\ ErrsCounted /\ FirstAtHead /\ FirstErrorReturned
  BY <1>1, <1>2, StreamAssumption
  DEF Init, MutexHeld, ErrsCounted, FirstAtHead, FirstErrorReturned
<1> QED BY <1>3, <1>4 DEF StreamInv

\* The invariant holds throughout every call of streamEvents.
LEMMA StreamInvariant == Spec => []StreamInv
<1>1. StreamInv /\ [Next]_vars => StreamInv'
  <2> SUFFICES ASSUME StreamInv, [Next]_vars PROVE StreamInv'
    OBVIOUS
  <2> USE DEF StreamInv
  <2>1. StreamTypes'
    BY TypesStep DEF FirstAtHead
  <2> QED BY <2>1, MutexStep, CountedStep, FirstStep
<1> QED BY <1>1, StreamInvInit, PTL DEF Spec

(***************************************************************************)
(* streamEvents never runs the caller's handler in two goroutines at once, *)
(* for any number of shards.                                               *)
(***************************************************************************)
THEOREM HandlerIsExclusive == Spec => []HandlerExclusive
<1>1. StreamInv => HandlerExclusive
  BY DEF StreamInv, MutexHeld, HandlerExclusive
<1> QED BY <1>1, StreamInvariant, PTL

(***************************************************************************)
(* A goroutine of streamEvents that has an error to send finds errs open   *)
(* and with room for it, also after the call has returned and nobody       *)
(* receives any more.                                                      *)
(***************************************************************************)
THEOREM SendNeverBlocks == Spec => []ErrsNeverBlocks
<1>1. StreamInv => ErrsNeverBlocks
  <2> SUFFICES ASSUME StreamInv, NEW s \in Shards, gpc[s] = "ended"
               PROVE  ~errsClosed /\ Len(errs) < Cardinality(Shards)
    BY DEF ErrsNeverBlocks
  <2>1. Sent \in SUBSET Shards /\ Sent # Shards
    BY DEF Sent
  <2>2. Cardinality(Sent) < Cardinality(Shards)
    BY <2>1, CountsFinite
  <2>3. Len(errs) \in Nat
    BY QueueFacts DEF StreamInv, StreamTypes
  <2> QED BY <2>2, <2>3, CountsFinite DEF StreamInv, ErrsCounted
<1> QED BY <1>1, StreamInvariant, PTL

(***************************************************************************)
(* streamEvents returns the first error any shard sent, or the error of a  *)
(* context the caller ended: never nil, and never the cancellation by      *)
(* which one failing shard stops the others.                               *)
(***************************************************************************)
THEOREM FirstErrorWins == Spec => []FirstErrorReturned
<1>1. StreamInv => FirstErrorReturned
  BY DEF StreamInv
<1> QED BY <1>1, StreamInvariant, PTL
=============================================================================
