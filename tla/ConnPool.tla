------------------------------ MODULE ConnPool ------------------------------
(***************************************************************************)
(* The connection pool of conn_pool.go as Client uses it: the constructor  *)
(* Client.New that warms it, any number of concurrent calls that each take *)
(* a connection, use it and give it back, and Client.Close.                *)
(*                                                                         *)
(* Every access to memory that goroutines share is one step: the load of   *)
(* closed, the channel operation, WaitGroup.Add and Done, and each step of *)
(* Close.  What happens on the wire while a call uses its connection is    *)
(* the subject of module TCPClient; here it is the single step Use.        *)
(***************************************************************************)
EXTENDS Integers, Sequences, FiniteSets

CONSTANTS
  Callers,         \* goroutines that issue calls on one Client
  Conns,           \* identities of the *TCPClient values newConn can return
  PoolSize,        \* the poolSize argument of New
  NoConn,          \* a nil *TCPClient
  QuiescentClose   \* TRUE: no GetConnection overlaps Close (see MayCall)

ASSUME PoolAssumption ==
  /\ IsFiniteSet(Callers)
  /\ PoolSize \in Nat \ {0}
  /\ NoConn \notin Conns
  /\ QuiescentClose \in BOOLEAN

VARIABLES
  phase,       \* progress of Client.New
  warm,        \* conns, the local slice of Client.New
  idle,        \* contents of the buffered channel cp.connections
  chanClosed,  \* cp.connections has been closed
  closed,      \* cp.closed
  wg,          \* counter of cp.wg
  pc,          \* where each call is
  held,        \* the connection each call holds
  made,        \* connections newConn has returned
  shut,        \* connections on which Close has called TCPClient.Close
  cpc,         \* where Close is
  panicked     \* a goroutine panicked, which ends the program

vars == <<phase, warm, idle, chanClosed, closed, wg, pc, held, made, shut,
          cpc, panicked>>

poolVars == <<warm, idle, chanClosed, closed, made, shut>>

Phases == {"warming", "releasing", "ready", "failed"}

CallStates == {"out",        \* not in a call
               "selecting",  \* loaded closed = false, before the select
               "taken",      \* received from the channel, before wg.Add(1)
               "missed",     \* default branch, before wg.Add(1)
               "dialing",    \* in newConn
               "using",      \* the exchange with the server
               "releasing",  \* the deferred ReleaseConnection begins
               "sending",    \* before or blocked in the channel send
               "done"}       \* before wg.Done()

CloseStates == {"out", "parked", "woken", "storing", "closing", "draining",
                "closed"}

\* The elements of a sequence.
Elems(s) == {s[i] : i \in 1..Len(s)}

\* No element occurs twice in a sequence.
NoDup(s) == \A i, j \in 1..Len(s) : s[i] = s[j] => i = j

Running == ~panicked

Ready == Running /\ phase = "ready"

\* Calls that have done wg.Add(1) and not yet wg.Done().
Counted == {p \in Callers :
              pc[p] \in {"dialing", "using", "releasing", "sending", "done"}}

\* Calls between the load of closed and wg.Add(1).
Entering == {p \in Callers : pc[p] \in {"selecting", "taken", "missed"}}

-----------------------------------------------------------------------------
Init ==
  /\ phase = "warming"
  /\ warm = <<>>
  /\ idle = <<>>
  /\ chanClosed = FALSE
  /\ closed = FALSE
  /\ wg = 0
  /\ pc = [p \in Callers |-> "out"]
  /\ held = [p \in Callers |-> NoConn]
  /\ made = {}
  /\ shut = {}
  /\ cpc = "out"
  /\ panicked = FALSE

(***************************************************************************)
(* Client.New: poolSize GetConnections, then poolSize ReleaseConnections.  *)
(* Nobody else can reach the pool yet, so each of them is one step.        *)
(***************************************************************************)
\* Faulty variant: the loop opens one connection too few.
NewGetShort ==
  /\ phase = "warming"
  /\ \E c \in Conns \ made :
       /\ warm' = Append(warm, c)
       /\ made' = made \cup {c}
  /\ wg' = wg + 1
  /\ phase' = IF Len(warm) + 2 >= PoolSize THEN "releasing" ELSE "warming"
  /\ UNCHANGED <<idle, chanClosed, closed, pc, held, shut, cpc, panicked>>

NewGet ==
  /\ phase = "warming"
  /\ Len(warm) < PoolSize
  /\ \E c \in Conns \ made :
       /\ warm' = Append(warm, c)
       /\ made' = made \cup {c}
  /\ wg' = wg + 1
  /\ phase' = IF Len(warm) + 1 = PoolSize THEN "releasing" ELSE "warming"
  /\ UNCHANGED <<idle, chanClosed, closed, pc, held, shut, cpc, panicked>>

\* newConn fails: New returns the error and drops the connections it has.
NewFail ==
  /\ phase = "warming"
  /\ phase' = "failed"
  /\ UNCHANGED <<poolVars, wg, pc, held, cpc, panicked>>

NewRelease ==
  /\ phase = "releasing"
  /\ idle' = Append(idle, Head(warm))
  /\ warm' = Tail(warm)
  /\ wg' = wg - 1
  /\ phase' = IF Len(warm) = 1 THEN "ready" ELSE "releasing"
  /\ UNCHANGED <<chanClosed, closed, pc, held, made, shut, cpc, panicked>>

-----------------------------------------------------------------------------
(***************************************************************************)
(* sync.WaitGroup.  Done wakes a parked Wait when the counter reaches 0.   *)
(* An Add(1) from 0 while Wait is being woken is the misuse the library    *)
(* reports by a panic, in Add or in the woken Wait.                        *)
(***************************************************************************)
WgAdd ==
  /\ wg' = wg + 1
  /\ UNCHANGED cpc

WgDone ==
  /\ wg' = wg - 1
  /\ cpc' = IF wg = 1 /\ cpc = "parked" THEN "woken" ELSE cpc

Goto(p, l) == pc' = [pc EXCEPT ![p] = l]

Panic ==
  /\ panicked' = TRUE
  /\ UNCHANGED <<phase, poolVars, wg, pc, held, cpc>>

(***************************************************************************)
(* What the program that owns the Client may do.  With QuiescentClose, no  *)
(* call is inside GetConnection when Close begins and none begins before   *)
(* Close has returned; calls that hold a connection may overlap Close, and *)
(* Close is called once.  Without it, calls and Close are unconstrained.   *)
(***************************************************************************)
MayCall == QuiescentClose => cpc \in {"out", "closed"}

MayClose == QuiescentClose => cpc = "out" /\ Entering = {}

-----------------------------------------------------------------------------
(***************************************************************************)
(* GetConnection.                                                          *)
(***************************************************************************)
GetLoad(p) ==
  /\ Ready /\ MayCall
  /\ pc[p] = "out"
  /\ ~closed
  /\ Goto(p, "selecting")
  /\ UNCHANGED <<phase, poolVars, wg, held, cpc, panicked>>

\* The call returns ErrConnPoolClosed.
GetRefused(p) ==
  /\ Ready /\ MayCall
  /\ pc[p] = "out"
  /\ closed
  /\ UNCHANGED vars

\* Faulty variant: the connection is read but stays in the channel.
GetIdlePeek(p) ==
  /\ Ready
  /\ pc[p] = "selecting"
  /\ idle # <<>>
  /\ held' = [held EXCEPT ![p] = Head(idle)]
  /\ Goto(p, "taken")
  /\ UNCHANGED <<phase, poolVars, wg, cpc, panicked>>

GetIdle(p) ==
  /\ Ready
  /\ pc[p] = "selecting"
  /\ idle # <<>>
  /\ held' = [held EXCEPT ![p] = Head(idle)]
  /\ idle' = Tail(idle)
  /\ Goto(p, "taken")
  /\ UNCHANGED <<phase, warm, chanClosed, closed, wg, made, shut, cpc, panicked>>

\* A receive from a closed and empty channel yields nil, never the default.
GetNil(p) ==
  /\ Ready
  /\ pc[p] = "selecting"
  /\ idle = <<>> /\ chanClosed
  /\ Goto(p, "taken")
  /\ UNCHANGED <<phase, poolVars, wg, held, cpc, panicked>>

GetMiss(p) ==
  /\ Ready
  /\ pc[p] = "selecting"
  /\ idle = <<>> /\ ~chanClosed
  /\ Goto(p, "missed")
  /\ UNCHANGED <<phase, poolVars, wg, held, cpc, panicked>>

GetAdd(p) ==
  /\ Ready
  /\ \/ pc[p] = "taken" /\ Goto(p, "using")
     \/ pc[p] = "missed" /\ Goto(p, "dialing")
  /\ WgAdd
  /\ UNCHANGED <<phase, poolVars, held, panicked>>

GetAddPanic(p) ==
  /\ Ready
  /\ pc[p] \in {"taken", "missed"}
  /\ wg = 0 /\ cpc = "woken"
  /\ Panic

GetDial(p) ==
  /\ Ready
  /\ pc[p] = "dialing"
  /\ \E c \in Conns \ made :
       /\ held' = [held EXCEPT ![p] = c]
       /\ made' = made \cup {c}
  /\ Goto(p, "using")
  /\ UNCHANGED <<phase, warm, idle, chanClosed, closed, wg, shut, cpc, panicked>>

GetDialFail(p) ==
  /\ Ready
  /\ pc[p] = "dialing"
  /\ WgDone
  /\ Goto(p, "out")
  /\ UNCHANGED <<phase, poolVars, held, panicked>>

-----------------------------------------------------------------------------
\* The call's exchange on its connection, up to the deferred release.
Use(p) ==
  /\ Ready
  /\ pc[p] = "using"
  /\ held[p] # NoConn
  /\ Goto(p, "releasing")
  /\ UNCHANGED <<phase, poolVars, wg, held, cpc, panicked>>

\* Send on a nil *TCPClient.
UseNil(p) ==
  /\ Ready
  /\ pc[p] = "using"
  /\ held[p] = NoConn
  /\ Panic

(***************************************************************************)
(* ReleaseConnection.                                                      *)
(***************************************************************************)
ReleaseLoad(p) ==
  /\ Ready
  /\ pc[p] = "releasing"
  /\ ~closed
  /\ Goto(p, "sending")
  /\ UNCHANGED <<phase, poolVars, wg, held, cpc, panicked>>

\* closed is set: return at once, neither wg.Done() nor conn.Close().
ReleaseDrop(p) ==
  /\ Ready
  /\ pc[p] = "releasing"
  /\ closed
  /\ Goto(p, "out")
  /\ held' = [held EXCEPT ![p] = NoConn]
  /\ UNCHANGED <<phase, poolVars, wg, cpc, panicked>>

\* Faulty variant: the channel has no bound.
ReleaseSendUnbounded(p) ==
  /\ Ready
  /\ pc[p] = "sending"
  /\ ~chanClosed
  /\ idle' = Append(idle, held[p])
  /\ held' = [held EXCEPT ![p] = NoConn]
  /\ Goto(p, "done")
  /\ UNCHANGED <<phase, warm, chanClosed, closed, wg, made, shut, cpc, panicked>>

\* Faulty variant: a full channel drops the connection instead of blocking.
ReleaseSendDropping(p) ==
  /\ Ready
  /\ pc[p] = "sending"
  /\ ~chanClosed
  /\ idle' = IF Len(idle) < PoolSize THEN Append(idle, held[p]) ELSE idle
  /\ held' = [held EXCEPT ![p] = NoConn]
  /\ Goto(p, "done")
  /\ UNCHANGED <<phase, warm, chanClosed, closed, wg, made, shut, cpc, panicked>>

\* Faulty variant: the channel is made one slot too small.
ReleaseSendShort(p) ==
  /\ Ready
  /\ pc[p] = "sending"
  /\ ~chanClosed
  /\ Len(idle) + 1 < PoolSize
  /\ idle' = Append(idle, held[p])
  /\ held' = [held EXCEPT ![p] = NoConn]
  /\ Goto(p, "done")
  /\ UNCHANGED <<phase, warm, chanClosed, closed, wg, made, shut, cpc, panicked>>

\* cp.connections <- conn blocks while the buffer is full.
ReleaseSend(p) ==
  /\ Ready
  /\ pc[p] = "sending"
  /\ ~chanClosed
  /\ Len(idle) < PoolSize
  /\ idle' = Append(idle, held[p])
  /\ held' = [held EXCEPT ![p] = NoConn]
  /\ Goto(p, "done")
  /\ UNCHANGED <<phase, warm, chanClosed, closed, wg, made, shut, cpc, panicked>>

\* A send on a closed channel, a blocked one included, panics.
ReleaseSendPanic(p) ==
  /\ Ready
  /\ pc[p] = "sending"
  /\ chanClosed
  /\ Panic

\* Faulty variant: wg.Done() is forgotten.
ReleaseDoneForgotten(p) ==
  /\ Ready
  /\ pc[p] = "done"
  /\ Goto(p, "out")
  /\ UNCHANGED <<phase, poolVars, wg, held, cpc, panicked>>

ReleaseDone(p) ==
  /\ Ready
  /\ pc[p] = "done"
  /\ WgDone
  /\ Goto(p, "out")
  /\ UNCHANGED <<phase, poolVars, held, panicked>>

-----------------------------------------------------------------------------
(***************************************************************************)
(* Close: wg.Wait, closed.Store(true), close(connections), then close every *)
(* connection left in the channel.                                         *)
(***************************************************************************)
\* Faulty variant: Close does not wait for the calls in flight.
CloseWaitNot ==
  /\ Ready /\ MayClose
  /\ cpc \in {"out", "closed"}
  /\ cpc' = "storing"
  /\ UNCHANGED <<phase, poolVars, wg, pc, held, panicked>>

CloseWait ==
  /\ Ready /\ MayClose
  /\ cpc \in {"out", "closed"}
  /\ cpc' = IF wg = 0 THEN "storing" ELSE "parked"
  /\ UNCHANGED <<phase, poolVars, wg, pc, held, panicked>>

CloseWoken ==
  /\ Ready
  /\ cpc = "woken"
  /\ wg = 0
  /\ cpc' = "storing"
  /\ UNCHANGED <<phase, poolVars, wg, pc, held, panicked>>

\* "WaitGroup is reused before previous Wait has returned".
CloseWokenPanic ==
  /\ Ready
  /\ cpc = "woken"
  /\ wg # 0
  /\ Panic

CloseStore ==
  /\ Ready
  /\ cpc = "storing"
  /\ closed' = TRUE
  /\ cpc' = "closing"
  /\ UNCHANGED <<phase, warm, idle, chanClosed, wg, pc, held, made, shut, panicked>>

CloseChan ==
  /\ Ready
  /\ cpc = "closing"
  /\ ~chanClosed
  /\ chanClosed' = TRUE
  /\ cpc' = "draining"
  /\ UNCHANGED <<phase, warm, idle, closed, wg, pc, held, made, shut, panicked>>

\* A second Close closes the channel again.
CloseChanPanic ==
  /\ Ready
  /\ cpc = "closing"
  /\ chanClosed
  /\ Panic

\* Faulty variant: the connections left in the channel are not closed.
CloseDrainForgets ==
  /\ Ready
  /\ cpc = "draining"
  /\ idle # <<>>
  /\ idle' = Tail(idle)
  /\ UNCHANGED <<phase, warm, chanClosed, closed, wg, pc, held, made, shut, cpc, panicked>>

CloseDrain ==
  /\ Ready
  /\ cpc = "draining"
  /\ idle # <<>>
  /\ shut' = shut \cup {Head(idle)}
  /\ idle' = Tail(idle)
  /\ UNCHANGED <<phase, warm, chanClosed, closed, wg, pc, held, made, cpc, panicked>>

\* Faulty variant: Close returns before the channel is drained.
CloseReturnEarly ==
  /\ Ready
  /\ cpc = "draining"
  /\ cpc' = "closed"
  /\ UNCHANGED <<phase, poolVars, wg, pc, held, panicked>>

CloseReturn ==
  /\ Ready
  /\ cpc = "draining"
  /\ idle = <<>>
  /\ cpc' = "closed"
  /\ UNCHANGED <<phase, poolVars, wg, pc, held, panicked>>

-----------------------------------------------------------------------------
\* New returned an error or a goroutine panicked: nothing more happens.
Halted ==
  /\ phase = "failed" \/ panicked
  /\ UNCHANGED vars

New == NewGet \/ NewFail \/ NewRelease

\* The steps of a call that is under way.
CallStep(p) ==
  \/ GetIdle(p) \/ GetNil(p) \/ GetMiss(p) \/ GetAdd(p) \/ GetAddPanic(p)
  \/ GetDial(p) \/ GetDialFail(p)
  \/ Use(p) \/ UseNil(p)
  \/ ReleaseLoad(p) \/ ReleaseDrop(p) \/ ReleaseSend(p)
  \/ ReleaseSendPanic(p) \/ ReleaseDone(p)

\* The steps of a Close that is under way.
CloseStep ==
  \/ CloseWoken \/ CloseWokenPanic \/ CloseStore
  \/ CloseChan \/ CloseChanPanic \/ CloseDrain \/ CloseReturn

Next ==
  \/ New
  \/ \E p \in Callers : GetLoad(p) \/ GetRefused(p) \/ CallStep(p)
  \/ CloseWait
  \/ CloseStep
  \/ Halted

Spec == Init /\ [][Next]_vars

(***************************************************************************)
(* Goroutines that can run do run, and an exchange ends: TCPClient shows   *)
(* it of unary calls and of streams whose context has a deadline.  Nothing *)
(* makes the program start a call or call Close.                           *)
(***************************************************************************)
Fairness ==
  /\ WF_vars(New)
  /\ \A p \in Callers : WF_vars(CallStep(p))
  /\ WF_vars(CloseStep)

FairSpec == Spec /\ Fairness

-----------------------------------------------------------------------------
(***************************************************************************)
(* The type of every variable: wg never goes negative and the channel      *)
(* cp.connections never holds more than its capacity.                      *)
(***************************************************************************)
TypeOK ==
  /\ phase \in Phases
  /\ warm \in Seq(Conns) /\ Len(warm) <= PoolSize
  /\ idle \in Seq(Conns) /\ Len(idle) <= PoolSize
  /\ chanClosed \in BOOLEAN
  /\ closed \in BOOLEAN
  /\ wg \in Nat
  /\ pc \in [Callers -> CallStates]
  /\ held \in [Callers -> Conns \cup {NoConn}]
  /\ made \in SUBSET Conns
  /\ shut \in SUBSET Conns
  /\ cpc \in CloseStates
  /\ panicked \in BOOLEAN

(***************************************************************************)
(* A connection is in one place: once in the channel, or with one call.    *)
(* TCPClient has no lock of its own, so two calls on one connection would  *)
(* mix their frames.  Holds however calls and Close overlap.               *)
(***************************************************************************)
Exclusive ==
  /\ NoDup(idle)
  /\ \A p \in Callers : held[p] \notin Elems(idle)
  /\ \A p, q \in Callers : held[p] = held[q] /\ held[p] # NoConn => p = q

(***************************************************************************)
(* Close never closes a connection a call still holds, and a connection it *)
(* has closed is never handed out again.                                   *)
(***************************************************************************)
NotShutInUse ==
  /\ \A p \in Callers : held[p] \notin shut
  /\ Elems(idle) \cap shut = {}

(***************************************************************************)
(* Until Close sets closed, every connection ever opened is idle or held   *)
(* by a call, so the pool never has more than PoolSize + |Callers| open.   *)
(***************************************************************************)
OpenBound ==
  ~closed => Cardinality(made) <= PoolSize + Cardinality(Callers)

(***************************************************************************)
(* With quiescent closing: no goroutine panics, in Close, in the WaitGroup *)
(* or on the channel.                                                      *)
(***************************************************************************)
NoPanic == ~panicked

(***************************************************************************)
(* With quiescent closing: when Close returns, every connection the pool   *)
(* ever opened has been closed and no call holds one.                      *)
(***************************************************************************)
CloseIsComplete ==
  cpc = "closed" => /\ shut = made
                    /\ \A p \in Callers : held[p] = NoConn

(***************************************************************************)
(* With no more callers than PoolSize: the pool opens no connection beyond *)
(* the ones New opened, and a release finds room in the channel.           *)
(***************************************************************************)
ReleaseNeverBlocks ==
  \A p \in Callers : /\ pc[p] \notin {"missed", "dialing"}
                     /\ pc[p] = "sending" /\ ~chanClosed => Len(idle) < PoolSize

(***************************************************************************)
(* A call that has begun returns: neither GetConnection nor the deferred   *)
(* ReleaseConnection blocks it for ever.                                   *)
(***************************************************************************)
CallReturns == \A p \in Callers : pc[p] # "out" ~> pc[p] = "out"

(***************************************************************************)
(* Close returns once it has been called: wg.Wait is always woken.         *)
(***************************************************************************)
CloseReturns == cpc # "out" ~> cpc = "closed"

(***************************************************************************)
(* The owner of a connection: nobody yet, New, the channel, a call, or     *)
(* nobody any more because Close closed it or a call dropped it.           *)
(***************************************************************************)
Owner(c) ==
  CASE c \notin made -> "none"
    [] c \in shut -> "shut"
    [] c \in Elems(warm) -> "new"
    [] c \in Elems(idle) -> "idle"
    [] \E p \in Callers : held[p] = c -> CHOOSE p \in Callers : held[p] = c
    [] OTHER -> "lost"

Owners == [c \in Conns |-> Owner(c)]

\* No goroutine has the name of an owner that is not one.
ASSUME CallerNames ==
  Callers \cap {"none", "new", "idle", "shut", "lost"} = {}

Lease == INSTANCE ConnLease WITH owner <- Owners

(***************************************************************************)
(* The pool implements ConnLease however calls and Close overlap: it moves *)
(* one connection at a time between New, the channel and one call, never   *)
(* gives a call a second one, closes idle connections only, and loses one  *)
(* only where ReleaseConnection finds the pool closed.                     *)
(***************************************************************************)
ImplementsLease == Lease!Spec
=============================================================================
