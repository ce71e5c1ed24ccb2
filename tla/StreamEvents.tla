---------------------------- MODULE StreamEvents ----------------------------
(***************************************************************************)
(* streamEvents and firstStreamError (sharded_client.go): one goroutine    *)
(* per shard runs Client.stream, all feed one handler under handleMu, the  *)
(* first error cancels the rest and is what the call returns.              *)
(*                                                                         *)
(* Client.stream is abstracted to what TCPClient shows of it: events until *)
(* the handler or the server gives an error, or until the context's end is *)
(* noticed, which a stream busy with events may never do.                  *)
(***************************************************************************)
EXTENDS Integers, Sequences, FiniteSets

CONSTANTS
  Shards,
  NoShard

ASSUME StreamAssumption ==
  Shards # {} /\ IsFiniteSet(Shards) /\ NoShard \notin Shards

VARIABLES
  gpc,        \* where each shard's goroutine is
  handleMu,   \* the goroutine that holds handleMu, or NoShard
  err,        \* the error each goroutine's stream returned
  errs,       \* the channel errs; its capacity is the number of shards
  errsClosed, \* close(errs) has happened
  wg,         \* sync.WaitGroup
  streamCtx,  \* streamCtx is cancelled
  ctx,        \* the caller's context has ended
  pc,         \* the caller: "spawn", "receive", "returned"
  result,     \* what streamEvents returned
  first,      \* history: the first error sent to errs
  late        \* history: the handler was entered after the call returned

vars == <<gpc, handleMu, err, errs, errsClosed, wg, streamCtx, ctx, pc, result,
          first, late>>

Errors == {"handler", "stream", "ctx"}

Cancelled == streamCtx \/ ctx

Init ==
  /\ gpc = [s \in Shards |-> "new"] /\ handleMu = NoShard
  /\ err = [s \in Shards |-> "none"] /\ errs = <<>> /\ errsClosed = FALSE
  /\ wg = 0 /\ streamCtx = FALSE /\ ctx = FALSE
  /\ pc = "spawn" /\ result = "none" /\ first = "none" /\ late = FALSE

\* The caller's context ends.
EndContext ==
  /\ ~ctx /\ pc # "returned"
  /\ ctx' = TRUE
  /\ UNCHANGED <<gpc, handleMu, err, errs, errsClosed, wg, streamCtx, pc,
                 result, first, late>>

\* wg.Add(1) and go, for one shard; then the goroutine that closes errs.
Spawn(s) ==
  /\ pc = "spawn" /\ gpc[s] = "new"
  /\ wg' = wg + 1
  /\ gpc' = [gpc EXCEPT ![s] = "stream"]
  /\ pc' = IF \A t \in Shards \ {s} : gpc[t] # "new" THEN "receive" ELSE "spawn"
  /\ UNCHANGED <<handleMu, err, errs, errsClosed, streamCtx, ctx, result, first, late>>

-----------------------------------------------------------------------------
Goto(s, l) == gpc' = [gpc EXCEPT ![s] = l]

\* An event has arrived; the goroutine goes for the lock.
Event(s) ==
  /\ gpc[s] = "stream"
  /\ Goto(s, "lock")
  /\ UNCHANGED <<handleMu, err, errs, errsClosed, wg, streamCtx, ctx, pc, result,
                 first, late>>

\* Faulty variant: no lock around the handler.
LockNot(s) ==
  /\ gpc[s] = "lock"
  /\ handleMu' = s /\ Goto(s, "handle") /\ late' = (late \/ pc = "returned")
  /\ UNCHANGED <<err, errs, errsClosed, wg, streamCtx, ctx, pc, result, first>>

Lock(s) ==
  /\ gpc[s] = "lock" /\ handleMu = NoShard
  /\ handleMu' = s /\ Goto(s, "handle") /\ late' = (late \/ pc = "returned")
  /\ UNCHANGED <<err, errs, errsClosed, wg, streamCtx, ctx, pc, result, first>>

\* The handler accepts the event.
HandleOk(s) ==
  /\ gpc[s] = "handle"
  /\ handleMu' = NoShard /\ Goto(s, "stream")
  /\ UNCHANGED <<err, errs, errsClosed, wg, streamCtx, ctx, pc, result, first, late>>

\* Faulty variant: the other shards are cancelled before the error is sent.
HandleErrorCancels(s) ==
  /\ gpc[s] = "handle"
  /\ handleMu' = NoShard /\ Goto(s, "failed") /\ streamCtx' = TRUE
  /\ err' = [err EXCEPT ![s] = "handler"]
  /\ UNCHANGED <<errs, errsClosed, wg, ctx, pc, result, first, late>>

\* The handler fails.
HandleError(s) ==
  /\ gpc[s] = "handle"
  /\ handleMu' = NoShard /\ Goto(s, "failed")
  /\ err' = [err EXCEPT ![s] = "handler"]
  /\ UNCHANGED <<errs, errsClosed, wg, streamCtx, ctx, pc, result, first, late>>

(***************************************************************************)
(* Client.stream ends without its handler: an error of the server, or the  *)
(* connection is lost or idle for idleTimeout, and then its context is     *)
(* looked at; or it gets no connection, which it reports as it is.         *)
(***************************************************************************)
StreamFails(s) ==
  /\ gpc[s] = "stream"
  /\ gpc' \in {[gpc EXCEPT ![s] = l] : l \in {"failed", "ended"}}
  /\ err' = [err EXCEPT ![s] = "stream"]
  /\ UNCHANGED <<handleMu, errs, errsClosed, wg, streamCtx, ctx, pc, result,
                 first, late>>

\* Faulty variant: a lost connection is replaced without a look at ctx.Err().
StreamReturnsNot(s) ==
  /\ gpc[s] = "failed"
  /\ Goto(s, IF err[s] = "stream" THEN "stream" ELSE "ended")
  /\ UNCHANGED <<handleMu, err, errs, errsClosed, wg, streamCtx, ctx, pc, result,
                 first, late>>

\* Client.stream prefers the error of its context to its own.
StreamReturns(s) ==
  /\ gpc[s] = "failed"
  /\ Goto(s, "ended")
  /\ err' = [err EXCEPT ![s] = IF Cancelled THEN "ctx" ELSE @]
  /\ UNCHANGED <<handleMu, errs, errsClosed, wg, streamCtx, ctx, pc, result,
                 first, late>>

-----------------------------------------------------------------------------
\* errs <- err, which blocks while the channel is full.
Capacity == Cardinality(Shards)

\* Faulty variant: the error is dropped.
SendErrNot(s) ==
  /\ gpc[s] = "ended"
  /\ Goto(s, "cancel")
  /\ UNCHANGED <<handleMu, err, errs, errsClosed, wg, streamCtx, ctx, pc, result,
                 first, late>>

SendErr(s) ==
  /\ gpc[s] = "ended" /\ Len(errs) < Capacity
  /\ errs' = Append(errs, err[s])
  /\ first' = IF first = "none" THEN err[s] ELSE first
  /\ Goto(s, "cancel")
  /\ UNCHANGED <<handleMu, err, errsClosed, wg, streamCtx, ctx, pc, result, late>>

\* cancel()
Cancel(s) ==
  /\ gpc[s] = "cancel"
  /\ streamCtx' = TRUE /\ Goto(s, "done")
  /\ UNCHANGED <<handleMu, err, errs, errsClosed, wg, ctx, pc, result, first, late>>

\* The deferred wg.Done()
Done(s) ==
  /\ gpc[s] = "done"
  /\ wg' = wg - 1 /\ Goto(s, "exited")
  /\ UNCHANGED <<handleMu, err, errs, errsClosed, streamCtx, ctx, pc, result,
                 first, late>>

\* Faulty variant: errs is closed without waiting.
CloseErrsEarly ==
  /\ pc # "spawn" /\ ~errsClosed
  /\ errsClosed' = TRUE
  /\ UNCHANGED <<gpc, handleMu, err, errs, wg, streamCtx, ctx, pc, result, first, late>>

\* The last goroutine: wg.Wait(); close(errs)
CloseErrs ==
  /\ pc # "spawn" /\ wg = 0 /\ ~errsClosed
  /\ errsClosed' = TRUE
  /\ UNCHANGED <<gpc, handleMu, err, errs, wg, streamCtx, ctx, pc, result, first, late>>

-----------------------------------------------------------------------------
(***************************************************************************)
(* firstStreamError: an error, or nil from the closed and empty channel;   *)
(* the deferred cancel runs on return.                                     *)
(***************************************************************************)
Receive ==
  /\ pc = "receive" /\ (errs # <<>> \/ errsClosed)
  /\ errs' = IF errs = <<>> THEN <<>> ELSE Tail(errs)
  /\ result' = IF errs = <<>> THEN "nil" ELSE IF ctx THEN "ctx" ELSE Head(errs)
  /\ pc' = "returned" /\ streamCtx' = TRUE
  /\ UNCHANGED <<gpc, handleMu, err, errsClosed, wg, ctx, first, late>>

Finished ==
  /\ pc = "returned" /\ errsClosed /\ \A s \in Shards : gpc[s] = "exited"
  /\ UNCHANGED vars

Own(s) ==
  \/ Spawn(s) \/ Lock(s) \/ HandleOk(s) \/ HandleError(s) \/ StreamReturns(s)
  \/ SendErr(s) \/ Cancel(s) \/ Done(s)

Next ==
  \/ \E s \in Shards : Own(s) \/ Event(s) \/ StreamFails(s)
  \/ CloseErrs \/ Receive \/ EndContext \/ Finished

Spec == Init /\ [][Next]_vars

(***************************************************************************)
(* Goroutines run and handlers return; a waiter gets a free mutex in the   *)
(* end; a stream whose context has ended and that gets no more events      *)
(* ends with its idle timeout.  Nothing makes a busy stream end.           *)
(***************************************************************************)
FairSpec ==
  /\ Spec
  /\ WF_vars(CloseErrs) /\ WF_vars(Receive)
  /\ \A s \in Shards : /\ SF_vars(Own(s))
                        /\ WF_vars(Cancelled /\ StreamFails(s))

-----------------------------------------------------------------------------
Alive == {s \in Shards : gpc[s] \notin {"new", "exited"}}

(***************************************************************************)
(* The caller's handler is never run by two shards at once, although every *)
(* shard's goroutine calls it (handleMu).                                  *)
(***************************************************************************)
HandlerExclusive ==
  \A s, t \in Shards : gpc[s] = "handle" /\ gpc[t] = "handle" => s = t

(***************************************************************************)
(* No goroutine blocks or panics on errs: a goroutine with an error finds  *)
(* the channel open and with room, also after the caller has gone.         *)
(***************************************************************************)
ErrsNeverBlocks ==
  \A s \in Shards : gpc[s] = "ended" => ~errsClosed /\ Len(errs) < Cardinality(Shards)

(***************************************************************************)
(* The call returns the first error of any shard, or the error of the      *)
(* caller's context when that has ended.  The cancellation by which the    *)
(* first failure stops the other shards is never what the caller sees, and *)
(* neither is nil.                                                         *)
(***************************************************************************)
FirstErrorReturned ==
  pc = "returned" => \/ result = first /\ (first = "ctx" => ctx)
                     \/ result = "ctx" /\ ctx

(***************************************************************************)
(* The handler is not entered once the call has returned.                  *)
(***************************************************************************)
NoHandleAfterReturn == ~late

(***************************************************************************)
(* Once one shard's stream has ended the call returns, however busy the    *)
(* other shards are.                                                       *)
(***************************************************************************)
ReturnsOnFirstError == (\E s \in Shards : gpc[s] = "ended") ~> pc = "returned"

(***************************************************************************)
(* If events stop coming, all goroutines exit after the first failure, and *)
(* errs is closed: nothing is leaked.                                      *)
(***************************************************************************)
QuietShardsExit ==
  <>[][\A s \in Shards : ~Event(s)]_vars =>
    ((\E s \in Shards : gpc[s] = "ended") ~> (Alive = {} /\ errsClosed))
=============================================================================
