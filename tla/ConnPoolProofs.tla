--------------------------- MODULE ConnPoolProofs ---------------------------
(***************************************************************************)
(* Proofs about ConnPool, for every set of callers and every pool size.    *)
(***************************************************************************)
EXTENDS ConnPool, FiniteSetTheorems, TLAPS

-----------------------------------------------------------------------------
(***************************************************************************)
(* The channel and the warm-up slice as sequences.                         *)
(***************************************************************************)

\* A send adds the connection to what the channel holds.
LEMMA AppendElems ==
  ASSUME NEW S, NEW s \in Seq(S), NEW e \in S
  PROVE  /\ Append(s, e) \in Seq(S)
         /\ Len(Append(s, e)) = Len(s) + 1
         /\ Elems(Append(s, e)) = Elems(s) \cup {e}
         /\ NoDup(s) /\ e \notin Elems(s) => NoDup(Append(s, e))
  BY DEF Elems, NoDup

\* A receive takes the head, and only the head, out of the channel.
LEMMA TailElems ==
  ASSUME NEW S, NEW s \in Seq(S), s # <<>>
  PROVE  /\ Head(s) \in S /\ Head(s) \in Elems(s)
         /\ Tail(s) \in Seq(S)
         /\ Len(s) >= 1
         /\ Len(Tail(s)) = Len(s) - 1
         /\ Elems(s) = Elems(Tail(s)) \cup {Head(s)}
         /\ NoDup(s) => NoDup(Tail(s)) /\ Head(s) \notin Elems(Tail(s))
<1>1. /\ Head(s) \in S /\ Head(s) \in Elems(s)
      /\ Tail(s) \in Seq(S)
      /\ Len(s) >= 1
      /\ Len(Tail(s)) = Len(s) - 1
  BY DEF Elems
<1>2. Elems(s) \subseteq Elems(Tail(s)) \cup {Head(s)}
  <2> SUFFICES ASSUME NEW i \in 1..Len(s), i # 1
               PROVE  s[i] \in Elems(Tail(s))
    BY DEF Elems
  <2>1. i - 1 \in 1..Len(Tail(s)) /\ Tail(s)[i - 1] = s[i]
    BY <1>1
  <2> QED BY Zenon, <2>1 DEF Elems
<1>3. Elems(Tail(s)) \subseteq Elems(s)
  BY <1>1 DEF Elems
<1>4. NoDup(s) => NoDup(Tail(s)) /\ Head(s) \notin Elems(Tail(s))
  BY <1>1 DEF Elems, NoDup
<1> QED BY <1>1, <1>2, <1>3, <1>4

\* An empty channel holds nothing.
LEMMA EmptyElems == Elems(<<>>) = {} /\ NoDup(<<>>) /\ Len(<<>>) = 0
  BY DEF Elems, NoDup

\* A sequence without length is the empty channel.
LEMMA EmptyLen ==
  ASSUME NEW S, NEW s \in Seq(S)
  PROVE  Len(s) \in Nat /\ (s = <<>> <=> Len(s) = 0)
  OBVIOUS

-----------------------------------------------------------------------------
(***************************************************************************)
(* First layer: types, the control state, and the WaitGroup counter.  wg   *)
(* is at least the number of calls that still owe a Done, which keeps it   *)
(* from going negative; it may be larger once ReleaseConnection has seen   *)
(* closed and returned without one.                                        *)
(***************************************************************************)
Control ==
  /\ phase \in {"warming", "failed"} => Len(warm) < PoolSize /\ idle = <<>>
  /\ phase = "releasing" => warm # <<>> /\ Len(warm) + Len(idle) = PoolSize
  /\ phase = "ready" => warm = <<>>
  /\ phase # "ready" => /\ cpc = "out"
                        /\ \A p \in Callers : pc[p] = "out"
  /\ \A p \in Callers :
       /\ pc[p] \in {"releasing", "sending"} => held[p] # NoConn
       /\ pc[p] \notin {"taken", "using", "releasing", "sending"}
            => held[p] = NoConn

WgCovers ==
  /\ phase # "ready" => wg = Len(warm)
  /\ Cardinality(Counted) <= wg

TypeInv == TypeOK /\ Control /\ WgCovers

\* The calls that owe a Done are finitely many.
LEMMA CountedFinite ==
  /\ IsFiniteSet(Counted) /\ Cardinality(Counted) \in Nat
  /\ IsFiniteSet(Counted') /\ Cardinality(Counted') \in Nat
<1>1. Counted \in SUBSET Callers /\ Counted' \in SUBSET Callers
  BY DEF Counted
<1> QED BY <1>1, FS_Subset, FS_CardinalityType, PoolAssumption

\* How one call's step changes the number of calls that owe a Done.
LEMMA CountedStep ==
  ASSUME NEW p \in Callers, NEW l \in CallStates, TypeOK, Goto(p, l)
  PROVE  /\ p \notin Counted /\ l \in {"dialing", "using"}
              => Cardinality(Counted') = Cardinality(Counted) + 1
         /\ p \in Counted /\ l = "out"
              => Cardinality(Counted') = Cardinality(Counted) - 1
         /\ p \in Counted /\ l \in {"using", "releasing", "sending", "done"}
              => Cardinality(Counted') = Cardinality(Counted)
         /\ p \notin Counted /\ l \in {"out", "selecting", "taken", "missed"}
              => Cardinality(Counted') = Cardinality(Counted)
<1>1. pc \in [Callers -> CallStates] /\ pc' = [pc EXCEPT ![p] = l]
  BY DEF TypeOK, Goto
<1>2. p \notin Counted /\ l \in {"dialing", "using"} => Counted' = Counted \cup {p}
  BY <1>1 DEF Counted
<1>3. p \in Counted /\ l = "out" => Counted' = Counted \ {p}
  BY <1>1 DEF Counted
<1>4. p \in Counted /\ l \in {"using", "releasing", "sending", "done"}
        => Counted' = Counted
  BY <1>1 DEF Counted
<1>5. p \notin Counted /\ l \in {"out", "selecting", "taken", "missed"}
        => Counted' = Counted
  BY <1>1 DEF Counted
<1>6. /\ p \notin Counted => Cardinality(Counted \cup {p}) = Cardinality(Counted) + 1
      /\ p \in Counted => Cardinality(Counted \ {p}) = Cardinality(Counted) - 1
  BY Zenon, CountedFinite, FS_AddElement, FS_RemoveElement
<1> QED BY <1>2, <1>3, <1>4, <1>5, <1>6

\* An unused pool satisfies the first layer.
LEMMA TypeInvInit == Init => TypeInv
<1> SUFFICES ASSUME Init PROVE TypeInv
  OBVIOUS
<1>1. Counted = {}
  BY DEF Init, Counted
<1>2. Cardinality(Counted) = 0
  BY <1>1, FS_EmptySet
<1>3. TypeOK
  <2>1. chanClosed \in BOOLEAN /\ closed \in BOOLEAN /\ panicked \in BOOLEAN
    BY Zenon DEF Init
  <2>2. pc \in [Callers -> CallStates] /\ held \in [Callers -> Conns \cup {NoConn}]
    BY DEF Init, CallStates
  <2>3. /\ warm \in Seq(Conns) /\ Len(warm) <= PoolSize
        /\ idle \in Seq(Conns) /\ Len(idle) <= PoolSize
    BY EmptyElems, PoolAssumption DEF Init
  <2>4. /\ phase \in Phases /\ cpc \in CloseStates /\ wg \in Nat
        /\ made \in SUBSET Conns /\ shut \in SUBSET Conns
    BY DEF Init, Phases, CloseStates
  <2> QED BY <2>1, <2>2, <2>3, <2>4 DEF TypeOK
<1>4. Control /\ WgCovers
  BY <1>2, EmptyElems, PoolAssumption DEF Init, Control, WgCovers
<1> QED BY <1>3, <1>4 DEF TypeInv

\* A step of Client.New keeps the first layer.
LEMMA TypeInvNew == TypeInv /\ New => TypeInv'
<1> SUFFICES ASSUME TypeInv, New PROVE TypeInv'
  OBVIOUS
<1> USE PoolAssumption DEF TypeInv
<1>0. Counted' = Counted
  BY DEF New, NewGet, NewFail, NewRelease, Counted
<1>1. CASE NewGet
  <2>1. TypeOK'
    BY <1>1, AppendElems DEF NewGet, TypeOK, Control, Phases
  <2>2. Control' /\ WgCovers'
    BY <1>0, <1>1, AppendElems, CountedFinite
    DEF NewGet, TypeOK, Control, WgCovers, Phases
  <2> QED BY <2>1, <2>2
<1>2. CASE NewFail
  BY <1>0, <1>2 DEF NewFail, poolVars, TypeOK, Control, WgCovers, Phases
<1>3. CASE NewRelease
  <2>0. Counted = {} /\ Cardinality(Counted) = 0
    BY <1>3, FS_EmptySet, Zenon DEF NewRelease, Control, Counted
  <2>1. TypeOK'
    BY <1>3, AppendElems, TailElems DEF NewRelease, TypeOK, Control, WgCovers, Phases
  <2>2. Control'
    <3>1. /\ warm \in Seq(Conns) /\ warm # <<>>
          /\ idle \in Seq(Conns)
          /\ Len(warm) + Len(idle) = PoolSize
      BY <1>3 DEF NewRelease, TypeOK, Control
    <3>2. /\ warm' \in Seq(Conns) /\ Len(warm') = Len(warm) - 1
          /\ Len(idle') = Len(idle) + 1
      BY <1>3, <3>1, AppendElems, TailElems, SMTT(30) DEF NewRelease
    <3>3. /\ phase' = "ready" => warm' = <<>>
          /\ phase' = "releasing" => warm' # <<>> /\ Len(warm') + Len(idle') = PoolSize
          /\ phase' \in {"releasing", "ready"}
      <4>1. /\ Len(warm) \in Nat /\ Len(idle) \in Nat
            /\ warm' = <<>> <=> Len(warm') = 0
        BY Zenon, <3>1, <3>2, EmptyLen
      <4>2. phase' = IF Len(warm) = 1 THEN "ready" ELSE "releasing"
        BY <1>3 DEF NewRelease
      <4> QED BY <4>1, <4>2, <3>1, <3>2, SMTT(30)
    <3>4. /\ cpc' = "out"
          /\ \A p \in Callers : pc'[p] = "out" /\ held'[p] = NoConn
      BY <1>3 DEF NewRelease, Control
    <3> QED BY <3>3, <3>4 DEF Control
  <2>3. WgCovers'
    BY <2>0, <1>0, <1>3, TailElems
    DEF NewRelease, TypeOK, Control, WgCovers
  <2> QED BY <2>1, <2>2, <2>3
<1> QED BY <1>1, <1>2, <1>3 DEF New

\* A step of one call keeps the first layer.
LEMMA TypeInvCall ==
  ASSUME NEW p \in Callers, TypeInv,
         GetLoad(p) \/ GetRefused(p) \/ CallStep(p)
  PROVE  TypeInv'
<1> USE PoolAssumption, CountedFinite DEF TypeInv, Ready, CallStates
<1>0. UNCHANGED vars \/ Panic => TypeInv'
  BY Zenon DEF Panic, vars, poolVars, TypeOK, Control, WgCovers, Counted
<1>1. CASE GetLoad(p)
  <2>1. TypeOK'
    BY <1>1 DEF GetLoad, poolVars, Goto, TypeOK, Control
  <2>2. Control'
    BY <1>1, Zenon DEF GetLoad, poolVars, Goto, TypeOK, Control
  <2>3. WgCovers'
    BY <1>1, CountedStep, Zenon DEF GetLoad, TypeOK, Counted, WgCovers
  <2> QED BY <2>1, <2>2, <2>3
<1>2. CASE GetIdle(p)
  <2>1. TypeOK'
    BY <1>2, TailElems DEF GetIdle, Goto, TypeOK, Control
  <2>2. Control'
    BY <1>2 DEF GetIdle, Goto, TypeOK, Control
  <2>3. WgCovers'
    BY Zenon, <1>2, CountedStep DEF GetIdle, TypeOK, Counted, WgCovers
  <2> QED BY <2>1, <2>2, <2>3
<1>3. CASE GetNil(p)
  <2>1. TypeOK'
    BY <1>3 DEF GetNil, poolVars, Goto, TypeOK, Control
  <2>2. Control'
    BY <1>3, Zenon DEF GetNil, poolVars, Goto, TypeOK, Control
  <2>3. WgCovers'
    BY <1>3, CountedStep, Zenon DEF GetNil, TypeOK, Counted, WgCovers
  <2> QED BY <2>1, <2>2, <2>3
<1>4. CASE GetMiss(p)
  <2>1. TypeOK'
    BY <1>4 DEF GetMiss, poolVars, Goto, TypeOK, Control
  <2>2. Control'
    BY <1>4, Zenon DEF GetMiss, poolVars, Goto, TypeOK, Control
  <2>3. WgCovers'
    BY <1>4, CountedStep, Zenon DEF GetMiss, TypeOK, Counted, WgCovers
  <2> QED BY <2>1, <2>2, <2>3
<1>5. CASE GetAdd(p)
  <2>1. TypeOK'
    BY <1>5, SMTT(30) DEF GetAdd, WgAdd, poolVars, Goto, TypeOK, Control
  <2>2. Control'
    BY <1>5 DEF GetAdd, WgAdd, poolVars, Goto, TypeOK, Control
  <2>3. WgCovers'
    <3>1. Cardinality(Counted') = Cardinality(Counted) + 1
      BY <1>5, CountedStep, Zenon DEF GetAdd, Counted
    <3> QED BY <3>1, <1>5, SMTT(30) DEF GetAdd, WgAdd, TypeOK, WgCovers
  <2> QED BY <2>1, <2>2, <2>3
<1>6. CASE GetDial(p)
  <2>1. TypeOK'
    BY <1>6 DEF GetDial, Goto, TypeOK, Control
  <2>2. Control'
    BY <1>6 DEF GetDial, Goto, TypeOK, Control
  <2>3. WgCovers'
    BY Zenon, <1>6, CountedStep DEF GetDial, TypeOK, Counted, WgCovers
  <2> QED BY <2>1, <2>2, <2>3
<1>7. CASE GetDialFail(p)
  <2>0. wg >= 1
    BY <1>7, CountedStep DEF GetDialFail, WgDone, TypeOK, Counted, WgCovers
  <2>1. TypeOK'
    BY <2>0, <1>7 DEF GetDialFail, WgDone, poolVars, Goto, TypeOK, CloseStates
  <2>2. Control'
    BY <1>7, Zenon DEF GetDialFail, WgDone, poolVars, Goto, TypeOK, Control
  <2>3. WgCovers'
    BY <1>7, CountedStep, SMTT(30) DEF GetDialFail, WgDone, TypeOK, Counted, WgCovers
  <2> QED BY <2>1, <2>2, <2>3
<1>8. CASE Use(p)
  <2>1. TypeOK'
    BY <1>8 DEF Use, poolVars, Goto, TypeOK, Control
  <2>2. Control'
    BY <1>8, Zenon DEF Use, poolVars, Goto, TypeOK, Control
  <2>3. WgCovers'
    BY <1>8, CountedStep, Zenon DEF Use, TypeOK, Counted, WgCovers
  <2> QED BY <2>1, <2>2, <2>3
<1>9. CASE ReleaseLoad(p)
  <2>1. TypeOK'
    BY <1>9 DEF ReleaseLoad, poolVars, Goto, TypeOK, Control
  <2>2. Control'
    BY <1>9, Zenon DEF ReleaseLoad, poolVars, Goto, TypeOK, Control
  <2>3. WgCovers'
    BY <1>9, CountedStep, Zenon DEF ReleaseLoad, TypeOK, Counted, WgCovers
  <2> QED BY <2>1, <2>2, <2>3
<1>10. CASE ReleaseDrop(p)
  <2>1. TypeOK'
    BY <1>10 DEF ReleaseDrop, poolVars, Goto, TypeOK, Control
  <2>2. Control'
    BY <1>10, Zenon DEF ReleaseDrop, poolVars, Goto, TypeOK, Control
  <2>3. WgCovers'
    BY <1>10, CountedStep, SMTT(30) DEF ReleaseDrop, TypeOK, Counted, WgCovers
  <2> QED BY <2>1, <2>2, <2>3
<1>11. CASE ReleaseSend(p)
  <2>1. TypeOK'
    BY <1>11, AppendElems DEF ReleaseSend, Goto, TypeOK, Control
  <2>2. Control'
    BY <1>11, Zenon DEF ReleaseSend, Goto, TypeOK, Control
  <2>3. WgCovers'
    BY <1>11, CountedStep, Zenon DEF ReleaseSend, TypeOK, Counted, WgCovers
  <2> QED BY <2>1, <2>2, <2>3
<1>12. CASE ReleaseDone(p)
  <2>0. wg >= 1
    BY <1>12, CountedStep, SMTT(30) DEF ReleaseDone, WgDone, TypeOK, Counted, WgCovers
  <2>1. TypeOK'
    BY <2>0, <1>12 DEF ReleaseDone, WgDone, poolVars, Goto, TypeOK, CloseStates
  <2>2. Control'
    BY <1>12, Zenon DEF ReleaseDone, WgDone, poolVars, Goto, TypeOK, Control
  <2>3. WgCovers'
    BY <1>12, CountedStep, SMTT(30) DEF ReleaseDone, WgDone, TypeOK, Counted, WgCovers
  <2> QED BY <2>1, <2>2, <2>3
<1>13. CASE GetRefused(p) \/ GetAddPanic(p) \/ UseNil(p) \/ ReleaseSendPanic(p)
  BY <1>0, <1>13 DEF GetRefused, GetAddPanic, UseNil, ReleaseSendPanic
<1> QED BY <1>1, <1>2, <1>3, <1>4, <1>5, <1>6, <1>7, <1>8, <1>9, <1>10, <1>11, <1>12, <1>13, Zenon DEF CallStep

\* A step of Close, and the end of the program, keep the first layer.
LEMMA TypeInvClose ==
  TypeInv /\ (CloseWait \/ CloseStep \/ Halted \/ UNCHANGED vars) => TypeInv'
<1> SUFFICES ASSUME TypeInv, CloseWait \/ CloseStep \/ Halted \/ UNCHANGED vars
             PROVE  TypeInv'
  OBVIOUS
<1> USE DEF TypeInv, Ready, CloseStates
<1>1. CASE UNCHANGED vars \/ Halted \/ CloseWokenPanic \/ CloseChanPanic
  BY ZenonT(30), <1>1 DEF Halted, CloseWokenPanic, CloseChanPanic, Panic, vars, poolVars,
              TypeOK, Control, WgCovers, Counted
<1>2. CASE CloseWait \/ CloseWoken \/ CloseReturn
  BY Zenon, <1>2 DEF CloseWait, CloseWoken, CloseReturn, poolVars,
              TypeOK, Control, WgCovers, Counted
<1>3. CASE CloseStore
  BY <1>3 DEF CloseStore, TypeOK, Control, WgCovers, Counted
<1>4. CASE CloseChan
  BY <1>4 DEF CloseChan, TypeOK, Control, WgCovers, Counted
<1>5. CASE CloseDrain
  <2>1. TypeOK'
    BY <1>5, TailElems, PoolAssumption, SMTT(30) DEF CloseDrain, TypeOK
  <2>2. Control' /\ WgCovers'
    BY <1>5 DEF CloseDrain, TypeOK, Control, WgCovers, Counted
  <2> QED BY <2>1, <2>2
<1> QED BY <1>1, <1>2, <1>3, <1>4, <1>5 DEF CloseStep

\* Every step keeps the first layer.
LEMMA TypeInvNext == TypeInv /\ [Next]_vars => TypeInv'
  BY TypeInvNew, TypeInvCall, TypeInvClose DEF Next

\* The first layer is an invariant of the pool.
LEMMA TypeInvAlways == Spec => []TypeInv
  BY TypeInvInit, TypeInvNext, PTL DEF Spec

(***************************************************************************)
(* Type correctness.  In particular the WaitGroup counter never goes       *)
(* negative (a panic in the library) and the channel never holds more than *)
(* PoolSize connections, however calls and Close overlap.                  *)
(***************************************************************************)
THEOREM TypeCorrect == Spec => []TypeOK
<1>1. TypeInv => TypeOK
  BY DEF TypeInv
<1> QED BY <1>1, TypeInvAlways, PTL

-----------------------------------------------------------------------------
(***************************************************************************)
(* Second layer: who owns which connection.  Exclusive is not inductive by *)
(* itself: New's slice and the connections Close has closed must be kept   *)
(* apart from the channel too, and a connection newConn returns is new     *)
(* only because everything in use was made before.                         *)
(***************************************************************************)
Owned ==
  /\ NoDup(idle) /\ NoDup(warm)
  /\ Elems(idle) \cap Elems(warm) = {}
  /\ Elems(idle) \cup Elems(warm) \cup shut \subseteq made
  /\ (Elems(idle) \cup Elems(warm)) \cap shut = {}
  /\ \A p \in Callers : /\ held[p] \in made \cup {NoConn}
                        /\ held[p] \notin Elems(idle) \cup Elems(warm) \cup shut
  /\ \A p, q \in Callers : held[p] = held[q] /\ held[p] # NoConn => p = q

\* In an unused pool nobody owns anything.
LEMMA OwnedInit == Init => Owned
  BY EmptyElems DEF Init, Owned

\* Every step keeps each connection with one owner.
LEMMA OwnedNext == TypeInv /\ Owned /\ [Next]_vars => Owned'
<1> SUFFICES ASSUME TypeInv, Owned, [Next]_vars PROVE Owned'
  OBVIOUS
<1> USE PoolAssumption
<1>0. UNCHANGED <<warm, idle, held, made, shut>> => Owned'
  BY SMTT(30) DEF Owned, NoDup, Elems
<1>1. CASE NewGet
  <2>1. PICK c \in Conns \ made : warm' = Append(warm, c) /\ made' = made \cup {c}
    BY <1>1 DEF NewGet
  <2>2. Elems(warm') = Elems(warm) \cup {c} /\ NoDup(warm')
    BY <2>1, AppendElems DEF TypeInv, TypeOK, Owned
  <2>3. idle' = idle /\ held' = held /\ shut' = shut /\ c # NoConn
    BY <1>1 DEF NewGet
  <2>4. Elems(idle') = Elems(idle) /\ NoDup(idle')
    BY <2>3 DEF Owned
  <2> QED BY <2>1, <2>2, <2>3, <2>4 DEF Owned, TypeInv, TypeOK
<1>2. CASE NewRelease
  <2>1. /\ Head(warm) \in Conns
        /\ Elems(warm) = Elems(warm') \cup {Head(warm)}
        /\ NoDup(warm') /\ Head(warm) \notin Elems(warm')
    BY <1>2, TailElems DEF NewRelease, TypeInv, TypeOK, Control, Owned
  <2>2. Elems(idle') = Elems(idle) \cup {Head(warm)} /\ NoDup(idle')
    BY <1>2, <2>1, AppendElems DEF NewRelease, TypeInv, TypeOK, Owned
  <2>3. held' = held /\ shut' = shut /\ made' = made
    BY <1>2, Zenon DEF NewRelease
  <2> QED BY <2>1, <2>2, <2>3 DEF Owned
<1>3. ASSUME NEW p \in Callers, GetIdle(p) PROVE Owned'
  <2>1. /\ Head(idle) \in Conns
        /\ Elems(idle) = Elems(idle') \cup {Head(idle)}
        /\ NoDup(idle') /\ Head(idle) \notin Elems(idle')
    BY <1>3, TailElems DEF GetIdle, TypeInv, TypeOK, Owned
  <2>2. /\ held' = [held EXCEPT ![p] = Head(idle)]
        /\ warm' = warm /\ shut' = shut /\ made' = made
    BY <1>3 DEF GetIdle
  <2>3. Elems(warm') = Elems(warm) /\ NoDup(warm')
    BY <2>2, Zenon DEF Owned
  <2> QED BY <2>1, <2>2, <2>3, SMTT(30) DEF Owned, TypeInv, TypeOK
<1>4. ASSUME NEW p \in Callers, GetDial(p) PROVE Owned'
  <2>1. PICK c \in Conns \ made :
          held' = [held EXCEPT ![p] = c] /\ made' = made \cup {c}
    BY Zenon, <1>4 DEF GetDial
  <2>2. warm' = warm /\ idle' = idle /\ shut' = shut
    BY <1>4 DEF GetDial
  <2>3. /\ Elems(warm') = Elems(warm) /\ NoDup(warm')
        /\ Elems(idle') = Elems(idle) /\ NoDup(idle')
    BY <2>2, Zenon DEF Owned
  <2> QED BY <2>1, <2>2, <2>3 DEF Owned, TypeInv, TypeOK
<1>5. ASSUME NEW p \in Callers, ReleaseDrop(p) PROVE Owned'
  <2>1. /\ held' = [held EXCEPT ![p] = NoConn]
        /\ warm' = warm /\ idle' = idle /\ shut' = shut /\ made' = made
    BY <1>5 DEF ReleaseDrop, poolVars
  <2>2. /\ Elems(warm') = Elems(warm) /\ NoDup(warm')
        /\ Elems(idle') = Elems(idle) /\ NoDup(idle')
    BY <2>1 DEF Owned
  <2> QED BY <2>1, <2>2 DEF Owned, TypeInv, TypeOK
<1>6. ASSUME NEW p \in Callers, ReleaseSend(p) PROVE Owned'
  <2>1. held[p] \in Conns /\ held[p] \notin Elems(idle)
    BY <1>6, Zenon DEF ReleaseSend, TypeInv, TypeOK, Control, Owned
  <2>2. Elems(idle') = Elems(idle) \cup {held[p]} /\ NoDup(idle')
    BY <1>6, <2>1, AppendElems DEF ReleaseSend, TypeInv, TypeOK, Owned
  <2>3. /\ held' = [held EXCEPT ![p] = NoConn]
        /\ warm' = warm /\ shut' = shut /\ made' = made
    BY <1>6 DEF ReleaseSend
  <2>4. Elems(warm') = Elems(warm) /\ NoDup(warm')
    BY <2>3, Zenon DEF Owned
  <2> QED BY <2>1, <2>2, <2>3, <2>4, SMTT(30) DEF Owned, TypeInv, TypeOK
<1>7. CASE CloseDrain
  <2>1. /\ Head(idle) \in Conns
        /\ Elems(idle) = Elems(idle') \cup {Head(idle)}
        /\ NoDup(idle') /\ Head(idle) \notin Elems(idle')
    BY <1>7, TailElems DEF CloseDrain, TypeInv, TypeOK, Owned
  <2>2. /\ shut' = shut \cup {Head(idle)}
        /\ warm' = warm /\ held' = held /\ made' = made
    BY <1>7 DEF CloseDrain
  <2>3. Elems(warm') = Elems(warm) /\ NoDup(warm')
    BY <2>2 DEF Owned
  <2> QED BY <2>1, <2>2, <2>3 DEF Owned
<1>8. ASSUME NEW p \in Callers,
             \/ GetLoad(p) \/ GetRefused(p) \/ GetNil(p) \/ GetMiss(p)
             \/ GetAdd(p) \/ GetAddPanic(p) \/ GetDialFail(p) \/ Use(p)
             \/ UseNil(p) \/ ReleaseLoad(p) \/ ReleaseSendPanic(p)
             \/ ReleaseDone(p)
      PROVE  Owned'
  BY <1>0, <1>8, Zenon
  DEF GetLoad, GetRefused, GetNil, GetMiss, GetAdd, GetAddPanic, GetDialFail, Use,
      UseNil, ReleaseLoad, ReleaseSendPanic, ReleaseDone, Panic, poolVars, vars
<1>9. CASE \/ NewFail \/ CloseWait \/ CloseWoken \/ CloseWokenPanic \/ CloseStore
           \/ CloseChan \/ CloseChanPanic \/ CloseReturn \/ Halted \/ UNCHANGED vars
  BY <1>0, <1>9, Zenon
  DEF NewFail, CloseWait, CloseWoken, CloseWokenPanic, CloseStore, CloseChan,
      CloseChanPanic, CloseReturn, Halted, Panic, poolVars, vars
<1> QED BY <1>1, <1>2, <1>3, <1>4, <1>5, <1>6, <1>7, <1>8, <1>9, Zenon
        DEF Next, New, CallStep, CloseStep

(***************************************************************************)
(* No two calls ever hold the same connection, none holds one that is in   *)
(* the channel, and Close closes no connection in use, whatever the number *)
(* of callers, the pool size and the moment Close is called.               *)
(***************************************************************************)
THEOREM Ownership == Spec => [](Exclusive /\ NotShutInUse)
<1>1. Owned => Exclusive /\ NotShutInUse
  BY DEF Owned, Exclusive, NotShutInUse
<1> QED BY <1>1, TypeInvAlways, OwnedInit, OwnedNext, PTL DEF Spec

-----------------------------------------------------------------------------
(***************************************************************************)
(* Third layer: conservation.  Until closed is set, the connections opened *)
(* are exactly those in New's slice, in the channel or with a call, so     *)
(* their number is a sum of three lengths.                                 *)
(***************************************************************************)
Holding == {p \in Callers : held[p] # NoConn}

Count ==
  /\ cpc \in {"closing", "draining"} => closed
  /\ IsFiniteSet(made)
  /\ ~closed => Cardinality(made) = Len(warm) + Len(idle) + Cardinality(Holding)

\* The calls that hold a connection are finitely many.
LEMMA HoldingFinite ==
  /\ IsFiniteSet(Holding) /\ Cardinality(Holding) \in Nat
  /\ Cardinality(Holding) <= Cardinality(Callers)
  /\ IsFiniteSet(Holding') /\ Cardinality(Holding') \in Nat
  /\ Cardinality(Callers) \in Nat
<1>1. Holding \in SUBSET Callers /\ Holding' \in SUBSET Callers
  BY DEF Holding
<1> QED BY <1>1, FS_Subset, FS_CardinalityType, PoolAssumption

\* Taking a connection adds a holder, giving it up removes one.
LEMMA HoldingStep ==
  ASSUME NEW p \in Callers, TypeOK, NEW c \in Conns \cup {NoConn},
         held' = [held EXCEPT ![p] = c]
  PROVE  /\ held[p] = NoConn /\ c # NoConn
              => Cardinality(Holding') = Cardinality(Holding) + 1
         /\ held[p] # NoConn /\ c = NoConn
              => Cardinality(Holding') = Cardinality(Holding) - 1
<1>1. held \in [Callers -> Conns \cup {NoConn}]
  BY DEF TypeOK
<1>2. held[p] = NoConn /\ c # NoConn => p \notin Holding /\ Holding' = Holding \cup {p}
  BY <1>1 DEF Holding
<1>3. held[p] # NoConn /\ c = NoConn => p \in Holding /\ Holding' = Holding \ {p}
  BY <1>1 DEF Holding
<1>4. /\ p \notin Holding => Cardinality(Holding \cup {p}) = Cardinality(Holding) + 1
      /\ p \in Holding => Cardinality(Holding \ {p}) = Cardinality(Holding) - 1
  BY Zenon, HoldingFinite, FS_AddElement, FS_RemoveElement
<1> QED BY <1>2, <1>3, <1>4

\* An unused pool has opened no connection.
LEMMA CountInit == Init => Count
<1> SUFFICES ASSUME Init PROVE Count
  OBVIOUS
<1>1. Holding = {}
  BY DEF Init, Holding
<1>2. Cardinality(Holding) = 0 /\ Cardinality(made) = 0 /\ IsFiniteSet(made)
  BY <1>1, FS_EmptySet DEF Init
<1> QED BY <1>2, EmptyElems DEF Init, Count

\* Every step keeps the count of open connections.
LEMMA CountNext == TypeInv /\ Count /\ [Next]_vars => Count'
<1> SUFFICES ASSUME TypeInv, Count, [Next]_vars PROVE Count'
  OBVIOUS
<1> USE PoolAssumption, HoldingFinite
<1>a. /\ TypeOK
      /\ warm \in Seq(Conns) /\ Len(warm) \in Nat
      /\ idle \in Seq(Conns) /\ Len(idle) \in Nat
  BY EmptyLen DEF TypeInv, TypeOK
<1>b. ASSUME NEW c \in Conns \ made, made' = made \cup {c}
      PROVE  IsFiniteSet(made') /\ Cardinality(made') = Cardinality(made) + 1
  BY <1>b, FS_AddElement DEF Count
<1>m. Cardinality(made) \in Nat
  BY FS_CardinalityType DEF Count
<1>0. ASSUME UNCHANGED <<warm, idle, held, made, closed>>,
             cpc' \in {"closing", "draining"} => closed
      PROVE  Count'
  BY <1>0 DEF Count, Holding
<1>1. CASE NewGet
  <2>1. PICK c \in Conns \ made : warm' = Append(warm, c) /\ made' = made \cup {c}
    BY <1>1 DEF NewGet
  <2>2. /\ Len(warm') = Len(warm) + 1
        /\ IsFiniteSet(made') /\ Cardinality(made') = Cardinality(made) + 1
    BY Zenon, <2>1, <1>a, <1>b, AppendElems
  <2>3. Holding' = Holding /\ idle' = idle /\ closed' = closed /\ cpc' = cpc
    BY <1>1 DEF NewGet, Holding
  <2> QED BY <1>a, <1>m, <2>2, <2>3, SMTT(30) DEF Count
<1>2. CASE NewRelease
  <2>1. Len(warm') = Len(warm) - 1 /\ Len(idle') = Len(idle) + 1
    BY <1>2, <1>a, AppendElems, TailElems, SMTT(30) DEF NewRelease, TypeInv, Control
  <2>2. /\ Holding' = Holding /\ made' = made
        /\ closed' = closed /\ cpc' = cpc
    BY <1>2 DEF NewRelease, Holding
  <2> QED BY <1>a, <2>1, <2>2, SMTT(30) DEF Count
<1>3. ASSUME NEW p \in Callers, GetIdle(p) PROVE Count'
  <2>1. Head(idle) \in Conns /\ Len(idle') = Len(idle) - 1
    BY <1>3, <1>a, TailElems DEF GetIdle
  <2>2. Cardinality(Holding') = Cardinality(Holding) + 1
    BY Zenon, <1>3, <1>a, <2>1, HoldingStep DEF GetIdle, TypeInv, Control
  <2>3. warm' = warm /\ made' = made /\ closed' = closed /\ cpc' = cpc
    BY <1>3, Zenon DEF GetIdle
  <2> QED BY <1>a, <2>1, <2>2, <2>3, SMTT(30) DEF Count
<1>4. ASSUME NEW p \in Callers, GetDial(p) PROVE Count'
  <2>1. PICK c \in Conns \ made :
          held' = [held EXCEPT ![p] = c] /\ made' = made \cup {c}
    BY Zenon, <1>4 DEF GetDial
  <2>2. Cardinality(Holding') = Cardinality(Holding) + 1
    BY Zenon, <1>4, <1>a, <2>1, HoldingStep DEF GetDial, TypeInv, Control
  <2>3. IsFiniteSet(made') /\ Cardinality(made') = Cardinality(made) + 1
    BY <2>1, <1>b
  <2>4. warm' = warm /\ idle' = idle /\ closed' = closed /\ cpc' = cpc
    BY <1>4, Zenon DEF GetDial
  <2> QED BY <1>a, <1>m, <2>2, <2>3, <2>4, SMTT(30) DEF Count
<1>5. ASSUME NEW p \in Callers, ReleaseDrop(p) PROVE Count'
  BY <1>5 DEF ReleaseDrop, poolVars, Count
<1>6. ASSUME NEW p \in Callers, ReleaseSend(p) PROVE Count'
  <2>1. held[p] \in Conns /\ held[p] # NoConn
    BY <1>6, <1>a, Zenon DEF ReleaseSend, TypeInv, TypeOK, Control
  <2>2. Len(idle') = Len(idle) + 1
    BY <1>6, <1>a, <2>1, AppendElems DEF ReleaseSend
  <2>3. Cardinality(Holding') = Cardinality(Holding) - 1
    BY Zenon, <1>6, <1>a, <2>1, HoldingStep DEF ReleaseSend
  <2>4. warm' = warm /\ made' = made /\ closed' = closed /\ cpc' = cpc
    BY <1>6, Zenon DEF ReleaseSend
  <2> QED BY <1>a, <2>2, <2>3, <2>4, SMTT(30) DEF Count
<1>7. CASE CloseStore \/ CloseDrain
  BY <1>7 DEF CloseStore, CloseDrain, Count
<1>8. ASSUME NEW p \in Callers,
             \/ GetLoad(p) \/ GetRefused(p) \/ GetNil(p) \/ GetMiss(p)
             \/ GetAdd(p) \/ GetAddPanic(p) \/ GetDialFail(p) \/ Use(p)
             \/ UseNil(p) \/ ReleaseLoad(p) \/ ReleaseSendPanic(p)
             \/ ReleaseDone(p)
      PROVE  Count'
  <2>1. UNCHANGED <<warm, idle, held, made, closed>>
    BY <1>8, Zenon
    DEF GetLoad, GetRefused, GetNil, GetMiss, GetAdd, GetAddPanic, GetDialFail, Use,
        UseNil, ReleaseLoad, ReleaseSendPanic, ReleaseDone, Panic, poolVars, vars
  <2>2. cpc' = cpc \/ cpc' = "woken"
    BY <1>8, Zenon
    DEF GetLoad, GetRefused, GetNil, GetMiss, GetAdd, GetAddPanic, GetDialFail, Use,
        UseNil, ReleaseLoad, ReleaseSendPanic, ReleaseDone, WgAdd, WgDone, Panic, vars
  <2> QED BY <1>0, <2>1, <2>2 DEF Count
<1>9. CASE \/ NewFail \/ CloseWait \/ CloseWoken \/ CloseWokenPanic
           \/ CloseChan \/ CloseChanPanic \/ CloseReturn \/ Halted \/ UNCHANGED vars
  <2>1. UNCHANGED <<warm, idle, held, made, closed>>
    BY <1>9, Zenon
    DEF NewFail, CloseWait, CloseWoken, CloseWokenPanic, CloseChan,
        CloseChanPanic, CloseReturn, Halted, Panic, poolVars, vars
  <2>2. cpc' \in {"closing", "draining"} => cpc \in {"closing", "draining"}
    BY <1>9
    DEF NewFail, CloseWait, CloseWoken, CloseWokenPanic, CloseChan,
        CloseChanPanic, CloseReturn, Halted, Panic, vars
  <2> QED BY <1>0, <2>1, <2>2 DEF Count
<1> QED BY <1>1, <1>2, <1>3, <1>4, <1>5, <1>6, <1>7, <1>8, <1>9, Zenon
        DEF Next, New, CallStep, CloseStep

(***************************************************************************)
(* Before Close takes effect the pool has opened at most PoolSize +        *)
(* |Callers| connections, although GetConnection dials without a limit.    *)
(***************************************************************************)
THEOREM OpenBounded == Spec => []OpenBound
<1>1. TypeInv /\ Count => OpenBound
  <2> SUFFICES ASSUME TypeInv, Count, ~closed
               PROVE  Cardinality(made) <= PoolSize + Cardinality(Callers)
    BY DEF OpenBound
  <2>1. Len(warm) \in Nat /\ Len(idle) \in Nat
    BY EmptyLen DEF TypeInv, TypeOK
  <2>2. Len(warm) + Len(idle) <= PoolSize
    BY <2>1, EmptyElems, PoolAssumption, SMTT(30) DEF TypeInv, TypeOK, Control, Phases
  <2> QED BY <2>1, <2>2, HoldingFinite, PoolAssumption DEF Count
<1> QED BY <1>1, TypeInvAlways, CountInit, CountNext, PTL DEF Spec

-----------------------------------------------------------------------------
(***************************************************************************)
(* Fourth layer, under QuiescentClose: wg is exact, so when Wait returns   *)
(* no call is under way; from then on only Close acts.                     *)
(***************************************************************************)
Waited == {"woken", "storing", "closing", "draining", "closed"}

Quiet ==
  /\ ~panicked
  /\ wg = Cardinality(Counted) + Len(warm)
  /\ cpc = "parked" => Entering = {}
  /\ cpc \in Waited => wg = 0 /\ \A p \in Callers : pc[p] = "out"
  /\ closed <=> cpc \in {"closing", "draining", "closed"}
  /\ chanClosed <=> cpc \in {"draining", "closed"}
  /\ cpc = "closed" => idle = <<>>
  /\ \A p \in Callers : pc[p] \in {"taken", "using"} => held[p] # NoConn

\* An unused pool satisfies the fourth layer.
LEMMA QuietInit == Init => Quiet
<1> SUFFICES ASSUME Init PROVE Quiet
  OBVIOUS
<1>1. Counted = {}
  BY DEF Init, Counted
<1>2. Cardinality(Counted) = 0 /\ Len(warm) = 0
  BY <1>1, FS_EmptySet, EmptyElems DEF Init
<1>3. ~panicked /\ ~closed /\ ~chanClosed /\ cpc = "out" /\ wg = 0
  BY DEF Init
<1>4. \A p \in Callers : pc[p] = "out"
  BY DEF Init
<1> QED BY <1>2, <1>3, <1>4 DEF Quiet, Waited

\* Nothing is under way once wg is 0 and no call is entering.
LEMMA NobodyLeft ==
  ASSUME TypeInv, Quiet, wg = 0, Entering = {}, phase = "ready"
  PROVE  \A p \in Callers : pc[p] = "out"
<1>1. warm = <<>> /\ Len(warm) = 0
  BY EmptyElems DEF TypeInv, Control
<1>2. Cardinality(Counted) = 0
  BY <1>1, CountedFinite DEF Quiet
<1>3. Counted = {}
  BY <1>2, CountedFinite, FS_EmptySet
<1> QED BY <1>3 DEF Counted, Entering, TypeInv, TypeOK, CallStates

\* A step of one call keeps the fourth layer.
LEMMA QuietCall ==
  ASSUME QuiescentClose, TypeInv, Quiet, NEW p \in Callers,
         GetLoad(p) \/ GetRefused(p) \/ CallStep(p)
  PROVE  Quiet'
<1> USE PoolAssumption, CountedFinite DEF Ready
<1>a. pc[p] # "out" => cpc \in {"out", "parked"} /\ ~closed /\ ~chanClosed
  BY Zenon DEF Quiet, Waited, TypeInv, TypeOK, CloseStates
<1>b. pc[p] \in {"selecting", "taken", "missed"} => cpc = "out"
  BY <1>a, Zenon DEF Quiet, Entering
<1>c. /\ TypeOK /\ wg \in Nat /\ warm \in Seq(Conns) /\ Len(warm) \in Nat
      /\ pc \in [Callers -> CallStates]
      /\ phase = "ready" => Len(warm) = 0
  BY EmptyLen DEF TypeInv, TypeOK, Control
<1>1. CASE GetLoad(p)
  <2>1. Cardinality(Counted') = Cardinality(Counted)
    BY <1>1, <1>c, CountedStep, Zenon DEF GetLoad, Counted, CallStates
  <2>2. wg' = Cardinality(Counted') + Len(warm')
    BY <1>1, <1>c, <2>1 DEF GetLoad, MayCall, poolVars, Quiet
  <2>3. UNCHANGED <<closed, chanClosed, panicked, warm>>
    BY <1>1, Zenon DEF GetLoad, MayCall, poolVars
  <2>4. cpc' = cpc /\ cpc = "out"
    BY <1>1, Zenon DEF GetLoad, MayCall, Quiet
  <2>5. cpc = "parked" => Entering' = {}
    BY <1>1, <1>b, <1>c, <2>4 DEF GetLoad, Goto, Quiet, Entering
  <2>6. \A q \in Callers : pc'[q] \in {"taken", "using"} => held'[q] # NoConn
    BY Zenon, <1>1, <1>c DEF GetLoad, Goto, Quiet, poolVars
  <2> QED BY <2>2, <2>3, <2>4, <2>5, <2>6, Zenon DEF Quiet, Waited
<1>2. CASE GetIdle(p)
  <2>1. Cardinality(Counted') = Cardinality(Counted)
    BY <1>2, <1>c, CountedStep, Zenon DEF GetIdle, Counted, CallStates
  <2>2. wg' = Cardinality(Counted') + Len(warm')
    BY <1>2, <1>c, <2>1, Zenon DEF GetIdle, Quiet
  <2>3. UNCHANGED <<closed, chanClosed, panicked, warm>>
    BY <1>2, Zenon DEF GetIdle
  <2>4. cpc' = cpc /\ cpc \in {"out", "parked"}
    BY <1>2, <1>a DEF GetIdle
  <2>5. cpc = "parked" => Entering' = {}
    BY Zenon, <1>2, <1>b, <1>c, <2>4 DEF GetIdle, Goto, Quiet, Entering
  <2>6. \A q \in Callers : pc'[q] \in {"taken", "using"} => held'[q] # NoConn
    BY SMTT(30), <1>2, <1>c, TailElems
    DEF GetIdle, Goto, Quiet, TypeInv, TypeOK, Control
  <2> QED BY Zenon, <2>2, <2>3, <2>4, <2>5, <2>6 DEF Quiet, Waited
<1>3. CASE GetMiss(p)
  <2>1. Cardinality(Counted') = Cardinality(Counted)
    BY <1>3, <1>c, CountedStep, Zenon DEF GetMiss, Counted, CallStates
  <2>2. wg' = Cardinality(Counted') + Len(warm')
    BY <1>3, <1>c, <2>1, Zenon DEF GetMiss, poolVars, Quiet
  <2>3. UNCHANGED <<closed, chanClosed, panicked, warm>>
    BY <1>3 DEF GetMiss, poolVars
  <2>4. cpc' = cpc /\ cpc \in {"out", "parked"}
    BY <1>3, <1>a, Zenon DEF GetMiss
  <2>5. cpc = "parked" => Entering' = {}
    BY <1>3, <1>b, <1>c, <2>4, Zenon DEF GetMiss, Goto, Quiet, Entering
  <2>6. \A q \in Callers : pc'[q] \in {"taken", "using"} => held'[q] # NoConn
    BY <1>3, <1>c, Zenon DEF GetMiss, Goto, Quiet, poolVars
  <2> QED BY <2>2, <2>3, <2>4, <2>5, <2>6 DEF Quiet, Waited
<1>4. CASE GetAdd(p)
  <2>1. Cardinality(Counted') = Cardinality(Counted) + 1
    BY <1>4, <1>c, CountedStep, Zenon DEF GetAdd, Counted, CallStates
  <2>2. wg' = Cardinality(Counted') + Len(warm')
    BY <1>4, <1>c, <2>1, SMTT(30) DEF GetAdd, WgAdd, poolVars, Quiet
  <2>3. UNCHANGED <<closed, chanClosed, panicked, warm>>
    BY <1>4, Zenon DEF GetAdd, WgAdd, poolVars
  <2>4. cpc' = cpc /\ cpc \in {"out", "parked"}
    BY <1>4, <1>a DEF GetAdd, WgAdd
  <2>5. cpc = "parked" => Entering' = {}
    BY <1>4, <1>b, <1>c, <2>4, Zenon DEF GetAdd, Goto, Quiet, Entering
  <2>6. \A q \in Callers : pc'[q] \in {"taken", "using"} => held'[q] # NoConn
    BY <1>4, <1>c, Zenon DEF GetAdd, Goto, Quiet, poolVars
  <2> QED BY <2>2, <2>3, <2>4, <2>5, <2>6 DEF Quiet, Waited
<1>5. CASE GetDial(p)
  <2>1. Cardinality(Counted') = Cardinality(Counted)
    BY <1>5, <1>c, CountedStep, Zenon DEF GetDial, Counted, CallStates
  <2>2. wg' = Cardinality(Counted') + Len(warm')
    BY <1>5, <1>c, <2>1, Zenon DEF GetDial, Quiet
  <2>3. UNCHANGED <<closed, chanClosed, panicked, warm>>
    BY <1>5 DEF GetDial
  <2>4. cpc' = cpc /\ cpc \in {"out", "parked"}
    BY <1>5, <1>a, Zenon DEF GetDial
  <2>5. cpc = "parked" => Entering' = {}
    BY Zenon, <1>5, <1>b, <1>c, <2>4 DEF GetDial, Goto, Quiet, Entering
  <2>6. \A q \in Callers : pc'[q] \in {"taken", "using"} => held'[q] # NoConn
    BY Zenon, <1>5, <1>c DEF GetDial, Goto, Quiet, TypeInv, TypeOK, Control
  <2> QED BY <2>2, <2>3, <2>4, <2>5, <2>6 DEF Quiet, Waited
<1>6. CASE GetDialFail(p)
  <2>1. Cardinality(Counted') = Cardinality(Counted) - 1
    BY <1>6, <1>c, CountedStep, Zenon DEF GetDialFail, Counted, CallStates
  <2>2. wg' = Cardinality(Counted') + Len(warm')
    BY <1>6, <1>c, <2>1, SMTT(30) DEF GetDialFail, WgDone, poolVars, Quiet
  <2>3. UNCHANGED <<closed, chanClosed, panicked, warm>>
    BY <1>6 DEF GetDialFail, WgDone, poolVars
  <2>4. /\ cpc' = cpc \/ (cpc' = "woken" /\ wg' = 0 /\ cpc = "parked")
        /\ pc' = [pc EXCEPT ![p] = "out"]
    BY <1>6, <1>c, SMTT(30) DEF GetDialFail, WgDone, Goto
  <2>5. cpc = "parked" => Entering' = {}
    BY <1>c, <2>4, Zenon DEF Quiet, Entering
  <2>6. cpc' = "woken" => \A q \in Callers : pc'[q] = "out"
    <3> SUFFICES ASSUME cpc' = "woken" PROVE \A q \in Callers : pc'[q] = "out"
      OBVIOUS
    <3>1. cpc = "parked" /\ wg' = 0
      BY <1>6, <1>a, <2>4, Zenon DEF GetDialFail
    <3>2. Counted' = {}
      BY <3>1, <2>2, <1>c, <2>3, FS_EmptySet, SMTT(30)
    <3> QED BY <3>1, <3>2, <2>4, <2>5, <1>c, Zenon DEF Counted, Entering, CallStates
  <2>7. \A q \in Callers : pc'[q] \in {"taken", "using"} => held'[q] # NoConn
    BY <1>6, <1>c, <2>4, Zenon DEF GetDialFail, Quiet
  <2>8. /\ cpc' \in {"out", "parked", "woken"} /\ ~closed' /\ ~chanClosed'
        /\ cpc' = "parked" => cpc = "parked"
        /\ cpc' = "woken" => wg' = 0
    BY <1>6, <1>a, <2>3, <2>4, Zenon DEF GetDialFail
  <2>9. ~panicked'
    BY <2>3 DEF Quiet
  <2>10. cpc' \in Waited => wg' = 0 /\ \A q \in Callers : pc'[q] = "out"
    BY Zenon, <2>6, <2>8 DEF Waited
  <2> QED BY Zenon, <2>2, <2>5, <2>7, <2>8, <2>9, <2>10 DEF Quiet
<1>7. CASE Use(p)
  <2>1. Cardinality(Counted') = Cardinality(Counted)
    BY <1>7, <1>c, CountedStep DEF Use, Counted, CallStates
  <2>2. wg' = Cardinality(Counted') + Len(warm')
    BY Zenon, <1>7, <1>c, <2>1 DEF Use, poolVars, Quiet
  <2>3. UNCHANGED <<closed, chanClosed, panicked, warm>>
    BY <1>7, Zenon DEF Use, poolVars
  <2>4. cpc' = cpc /\ cpc \in {"out", "parked"}
    BY <1>7, <1>a DEF Use
  <2>5. cpc = "parked" => Entering' = {}
    BY <1>7, <1>b, <1>c, <2>4, Zenon DEF Use, Goto, Quiet, Entering
  <2>6. \A q \in Callers : pc'[q] \in {"taken", "using"} => held'[q] # NoConn
    BY Zenon, <1>7, <1>c DEF Use, Goto, Quiet, poolVars
  <2> QED BY <2>2, <2>3, <2>4, <2>5, <2>6 DEF Quiet, Waited
<1>8. CASE ReleaseLoad(p)
  <2>1. Cardinality(Counted') = Cardinality(Counted)
    BY <1>8, <1>c, CountedStep, Zenon DEF ReleaseLoad, Counted, CallStates
  <2>2. wg' = Cardinality(Counted') + Len(warm')
    BY <1>8, <1>c, <2>1, Zenon DEF ReleaseLoad, poolVars, Quiet
  <2>3. UNCHANGED <<closed, chanClosed, panicked, warm>>
    BY <1>8, Zenon DEF ReleaseLoad, poolVars
  <2>4. cpc' = cpc /\ cpc \in {"out", "parked"}
    BY <1>8, <1>a, Zenon DEF ReleaseLoad
  <2>5. cpc = "parked" => Entering' = {}
    BY <1>8, <1>b, <1>c, <2>4, Zenon DEF ReleaseLoad, Goto, Quiet, Entering
  <2>6. \A q \in Callers : pc'[q] \in {"taken", "using"} => held'[q] # NoConn
    BY Zenon, <1>8, <1>c DEF ReleaseLoad, Goto, Quiet, poolVars
  <2> QED BY <2>2, <2>3, <2>4, <2>5, <2>6 DEF Quiet, Waited
<1>9. CASE ReleaseSend(p)
  <2>1. Cardinality(Counted') = Cardinality(Counted)
    BY <1>9, <1>c, CountedStep, Zenon DEF ReleaseSend, Counted, CallStates
  <2>2. wg' = Cardinality(Counted') + Len(warm')
    BY <1>9, <1>c, <2>1, Zenon DEF ReleaseSend, Quiet
  <2>3. UNCHANGED <<closed, chanClosed, panicked, warm>>
    BY <1>9, Zenon DEF ReleaseSend
  <2>4. cpc' = cpc /\ cpc \in {"out", "parked"}
    BY <1>9, <1>a DEF ReleaseSend
  <2>5. cpc = "parked" => Entering' = {}
    BY Zenon, <1>9, <1>b, <1>c, <2>4 DEF ReleaseSend, Goto, Quiet, Entering
  <2>6. \A q \in Callers : pc'[q] \in {"taken", "using"} => held'[q] # NoConn
    BY Zenon, <1>9, <1>c DEF ReleaseSend, Goto, Quiet, TypeInv, TypeOK
  <2> QED BY <2>2, <2>3, <2>4, <2>5, <2>6 DEF Quiet, Waited
<1>10. CASE ReleaseDone(p)
  <2>1. Cardinality(Counted') = Cardinality(Counted) - 1
    BY <1>10, <1>c, CountedStep, Zenon DEF ReleaseDone, Counted, CallStates
  <2>2. wg' = Cardinality(Counted') + Len(warm')
    BY <1>10, <1>c, <2>1, SMTT(30) DEF ReleaseDone, WgDone, poolVars, Quiet
  <2>3. UNCHANGED <<closed, chanClosed, panicked, warm>>
    BY <1>10 DEF ReleaseDone, WgDone, poolVars
  <2>4. /\ cpc' = cpc \/ (cpc' = "woken" /\ wg' = 0 /\ cpc = "parked")
        /\ pc' = [pc EXCEPT ![p] = "out"]
    BY <1>10, <1>c, SMTT(30) DEF ReleaseDone, WgDone, Goto
  <2>5. cpc = "parked" => Entering' = {}
    BY <1>c, <2>4 DEF Quiet, Entering
  <2>6. cpc' = "woken" => \A q \in Callers : pc'[q] = "out"
    <3> SUFFICES ASSUME cpc' = "woken" PROVE \A q \in Callers : pc'[q] = "out"
      OBVIOUS
    <3>1. cpc = "parked" /\ wg' = 0
      BY <1>10, <1>a, <2>4, Zenon DEF ReleaseDone
    <3>2. Counted' = {}
      BY <3>1, <2>2, <1>c, <2>3, FS_EmptySet
    <3> QED BY <3>1, <3>2, <2>4, <2>5, <1>c DEF Counted, Entering, CallStates
  <2>7. \A q \in Callers : pc'[q] \in {"taken", "using"} => held'[q] # NoConn
    BY <1>10, <1>c, <2>4, Zenon DEF ReleaseDone, Quiet
  <2>8. /\ cpc' \in {"out", "parked", "woken"} /\ ~closed' /\ ~chanClosed'
        /\ cpc' = "parked" => cpc = "parked"
        /\ cpc' = "woken" => wg' = 0
    BY Zenon, <1>10, <1>a, <2>3, <2>4 DEF ReleaseDone
  <2>9. ~panicked'
    BY <2>3 DEF Quiet
  <2>10. cpc' \in Waited => wg' = 0 /\ \A q \in Callers : pc'[q] = "out"
    BY <2>6, <2>8, Zenon DEF Waited
  <2> QED BY Zenon, <2>2, <2>5, <2>7, <2>8, <2>9, <2>10 DEF Quiet
<1>11. CASE GetRefused(p)
  BY <1>11, Zenon DEF GetRefused, vars, Quiet, Counted, Entering
<1>12. ~GetNil(p) /\ ~ReleaseDrop(p) /\ ~ReleaseSendPanic(p)
  BY <1>a, Zenon DEF GetNil, ReleaseDrop, ReleaseSendPanic
<1>13. ~GetAddPanic(p) /\ ~UseNil(p)
  BY <1>b DEF GetAddPanic, UseNil, Quiet
<1> QED BY <1>1, <1>2, <1>3, <1>4, <1>5, <1>6, <1>7, <1>8, <1>9, <1>10, <1>11, <1>12, <1>13, Zenon DEF CallStep

\* New, Close and the end of the program keep the fourth layer.
LEMMA QuietOther ==
  ASSUME QuiescentClose, TypeInv, Quiet,
         New \/ CloseWait \/ CloseStep \/ Halted \/ UNCHANGED vars
  PROVE  Quiet'
<1> USE PoolAssumption, CountedFinite DEF Ready
<1>c. /\ wg \in Nat /\ warm \in Seq(Conns) /\ Len(warm) \in Nat
      /\ idle \in Seq(Conns)
      /\ phase = "ready" => Len(warm) = 0
  BY EmptyLen, Zenon DEF TypeInv, TypeOK, Control
<1>0. pc' = pc => Counted' = Counted /\ Entering' = Entering
  BY DEF Counted, Entering
<1>1. CASE NewGet
  <2>1. /\ wg' = Cardinality(Counted') + Len(warm')
        /\ pc' = pc
    BY <1>0, <1>1, <1>c, AppendElems, SMTT(30) DEF NewGet, Quiet
  <2>2. cpc = "out" /\ UNCHANGED <<cpc, closed, chanClosed, panicked, held>>
    BY Zenon, <1>1 DEF NewGet, TypeInv, Control
  <2> QED BY <2>1, <2>2, Zenon DEF Quiet, Waited
<1>2. CASE NewRelease
  <2>1. /\ wg' = Cardinality(Counted') + Len(warm')
        /\ pc' = pc
    BY <1>0, <1>2, <1>c, TailElems, SMTT(30) DEF NewRelease, Quiet, TypeInv, Control
  <2>2. cpc = "out" /\ UNCHANGED <<cpc, closed, chanClosed, panicked, held>>
    BY Zenon, <1>2 DEF NewRelease, TypeInv, Control
  <2> QED BY <2>1, <2>2, Zenon DEF Quiet, Waited
<1>3. CASE NewFail \/ Halted \/ UNCHANGED vars
  BY SMTT(30), <1>0, <1>3 DEF NewFail, Halted, vars, poolVars, Quiet
<1>4. CASE CloseWait
  <2>1. cpc = "out" /\ Entering = {} /\ phase = "ready"
    BY <1>4, Zenon DEF CloseWait, MayClose
  <2>2. wg = 0 => \A p \in Callers : pc[p] = "out"
    BY <2>1, NobodyLeft, Zenon
  <2>3. cpc' = IF wg = 0 THEN "storing" ELSE "parked"
    BY <1>4 DEF CloseWait
  <2>4. UNCHANGED <<wg, pc, held, warm, idle, closed, chanClosed, panicked>>
    BY <1>4, Zenon DEF CloseWait, poolVars
  <2> QED BY <1>0, <2>1, <2>2, <2>3, <2>4, Zenon DEF Quiet, Waited
<1>5. CASE CloseWoken
  BY <1>0, <1>5, Zenon DEF CloseWoken, poolVars, Quiet, Waited
<1>6. CASE CloseStore
  BY <1>0, <1>6, Zenon DEF CloseStore, Quiet, Waited
<1>7. CASE CloseChan
  BY <1>0, <1>7, Zenon DEF CloseChan, Quiet, Waited
<1>8. CASE CloseDrain
  BY <1>0, <1>8, Zenon DEF CloseDrain, Quiet, Waited
<1>9. CASE CloseReturn
  BY <1>0, <1>9, Zenon DEF CloseReturn, poolVars, Quiet, Waited
<1>10. ~CloseWokenPanic /\ ~CloseChanPanic
  BY DEF CloseWokenPanic, CloseChanPanic, Quiet, Waited
<1> QED BY Zenon, <1>1, <1>2, <1>3, <1>4, <1>5, <1>6, <1>7, <1>8, <1>9, <1>10
        DEF New, CloseStep

\* The fourth layer is an invariant when closing is quiescent.
LEMMA QuietAlways == QuiescentClose => (Spec => [](TypeInv /\ Quiet))
<1> SUFFICES ASSUME QuiescentClose PROVE Spec => [](TypeInv /\ Quiet)
  OBVIOUS
<1>1. TypeInv /\ Quiet /\ [Next]_vars => Quiet'
  BY QuietCall, QuietOther DEF Next
<1> QED BY <1>1, TypeInvAlways, QuietInit, PTL DEF Spec

(***************************************************************************)
(* If no GetConnection overlaps Close, the pool never panics: not in the   *)
(* WaitGroup, not by sending on or closing a closed channel, and no call   *)
(* is handed a nil connection.                                             *)
(***************************************************************************)
THEOREM QuiescentNoPanic == QuiescentClose => (Spec => []NoPanic)
<1> SUFFICES ASSUME QuiescentClose PROVE Spec => []NoPanic
  OBVIOUS
<1>1. Quiet => NoPanic
  BY DEF Quiet, NoPanic
<1> QED BY <1>1, QuietAlways, PTL

-----------------------------------------------------------------------------
(***************************************************************************)
(* Under QuiescentClose no connection is ever lost: each one opened is in  *)
(* New's slice, in the channel, with a call, or closed.                    *)
(***************************************************************************)
Accounted ==
  \A c \in made : \/ c \in Elems(idle) \cup Elems(warm) \cup shut
                  \/ \E p \in Callers : held[p] = c

\* Every step keeps each opened connection accounted for.
LEMMA AccountedNext ==
  ASSUME TypeInv, Quiet, Accounted, [Next]_vars
  PROVE  Accounted'
<1> USE PoolAssumption
<1>a. /\ warm \in Seq(Conns) /\ idle \in Seq(Conns)
      /\ held \in [Callers -> Conns \cup {NoConn}]
      /\ made \subseteq Conns
  BY DEF TypeInv, TypeOK
<1>0. UNCHANGED <<warm, idle, held, made, shut>> => Accounted'
  BY Zenon DEF Accounted
<1>1. CASE NewGet
  <2>1. PICK c \in Conns \ made : warm' = Append(warm, c) /\ made' = made \cup {c}
    BY <1>1, Zenon DEF NewGet
  <2>2. Elems(warm') = Elems(warm) \cup {c}
    BY <2>1, <1>a, AppendElems, Zenon
  <2>3. idle' = idle /\ held' = held /\ shut' = shut
    BY <1>1 DEF NewGet
  <2> QED BY <2>1, <2>2, <2>3, Zenon DEF Accounted
<1>2. CASE NewRelease
  <2>1. Head(warm) \in Conns /\ Elems(warm) = Elems(warm') \cup {Head(warm)}
    BY <1>2, <1>a, TailElems, Zenon DEF NewRelease, TypeInv, Control
  <2>2. Elems(idle') = Elems(idle) \cup {Head(warm)}
    BY <1>2, <1>a, <2>1, AppendElems, SMTT(30) DEF NewRelease
  <2>3. held' = held /\ shut' = shut /\ made' = made
    BY <1>2, Zenon DEF NewRelease
  <2> QED BY <2>1, <2>2, <2>3, Zenon DEF Accounted
<1>3. ASSUME NEW p \in Callers, GetIdle(p) PROVE Accounted'
  <2>1. Head(idle) \in Conns /\ Elems(idle) = Elems(idle') \cup {Head(idle)}
    BY <1>3, <1>a, TailElems, Zenon DEF GetIdle
  <2>2. held[p] = NoConn /\ held' = [held EXCEPT ![p] = Head(idle)]
    BY <1>3, Zenon DEF GetIdle, TypeInv, Control
  <2>3. warm' = warm /\ shut' = shut /\ made' = made
    BY <1>3, Zenon DEF GetIdle
  <2> QED BY <1>a, <2>1, <2>2, <2>3, Zenon DEF Accounted
<1>4. ASSUME NEW p \in Callers, GetDial(p) PROVE Accounted'
  <2>1. PICK c \in Conns \ made :
          held' = [held EXCEPT ![p] = c] /\ made' = made \cup {c}
    BY Zenon, <1>4 DEF GetDial
  <2>2. held[p] = NoConn /\ warm' = warm /\ idle' = idle /\ shut' = shut
    BY <1>4, Zenon DEF GetDial, TypeInv, Control
  <2> QED BY <1>a, <2>1, <2>2 DEF Accounted
<1>5. ASSUME NEW p \in Callers PROVE ~ReleaseDrop(p)
  BY Zenon DEF ReleaseDrop, Quiet, Waited
<1>6. ASSUME NEW p \in Callers, ReleaseSend(p) PROVE Accounted'
  <2>1. held[p] \in Conns
    BY <1>6, <1>a, Zenon DEF ReleaseSend, TypeInv, Control
  <2>2. Elems(idle') = Elems(idle) \cup {held[p]}
    BY <1>6, <1>a, <2>1, AppendElems, SMTT(30) DEF ReleaseSend
  <2>3. /\ held' = [held EXCEPT ![p] = NoConn]
        /\ warm' = warm /\ shut' = shut /\ made' = made
    BY <1>6, Zenon DEF ReleaseSend
  <2> QED BY <1>a, <2>2, <2>3, Zenon DEF Accounted
<1>7. CASE CloseDrain
  <2>1. Elems(idle) = Elems(idle') \cup {Head(idle)}
    BY <1>7, <1>a, TailElems, Zenon DEF CloseDrain
  <2>2. /\ shut' = shut \cup {Head(idle)}
        /\ warm' = warm /\ held' = held /\ made' = made
    BY <1>7, Zenon DEF CloseDrain
  <2> QED BY <2>1, <2>2, Zenon DEF Accounted
<1>8. ASSUME NEW p \in Callers,
             \/ GetLoad(p) \/ GetRefused(p) \/ GetNil(p) \/ GetMiss(p)
             \/ GetAdd(p) \/ GetAddPanic(p) \/ GetDialFail(p) \/ Use(p)
             \/ UseNil(p) \/ ReleaseLoad(p) \/ ReleaseSendPanic(p)
             \/ ReleaseDone(p)
      PROVE  Accounted'
  BY <1>0, <1>8, Zenon
  DEF GetLoad, GetRefused, GetNil, GetMiss, GetAdd, GetAddPanic, GetDialFail, Use,
      UseNil, ReleaseLoad, ReleaseSendPanic, ReleaseDone, Panic, poolVars, vars
<1>9. CASE \/ NewFail \/ CloseWait \/ CloseWoken \/ CloseWokenPanic \/ CloseStore
           \/ CloseChan \/ CloseChanPanic \/ CloseReturn \/ Halted \/ UNCHANGED vars
  BY <1>0, <1>9, Zenon
  DEF NewFail, CloseWait, CloseWoken, CloseWokenPanic, CloseStore, CloseChan,
      CloseChanPanic, CloseReturn, Halted, Panic, poolVars, vars
<1> QED BY Zenon, <1>1, <1>2, <1>3, <1>4, <1>5, <1>6, <1>7, <1>8, <1>9
        DEF Next, New, CallStep, CloseStep

(***************************************************************************)
(* If no GetConnection overlaps Close, every connection the pool opened is *)
(* closed when Close returns.                                              *)
(***************************************************************************)
THEOREM QuiescentCloseComplete == QuiescentClose => (Spec => []CloseIsComplete)
<1> SUFFICES ASSUME QuiescentClose PROVE Spec => []CloseIsComplete
  OBVIOUS
<1>1. TypeInv /\ Quiet /\ Owned /\ Accounted => CloseIsComplete
  <2> SUFFICES ASSUME TypeInv, Quiet, Owned, Accounted, cpc = "closed"
               PROVE  shut = made /\ \A p \in Callers : held[p] = NoConn
    BY Zenon DEF CloseIsComplete
  <2>1. /\ idle = <<>> /\ \A p \in Callers : pc[p] = "out"
        /\ phase = "ready" /\ warm = <<>>
    BY Zenon DEF Quiet, Waited, TypeInv, Control
  <2>2. Elems(idle) = {} /\ Elems(warm) = {}
    BY <2>1, EmptyElems, Zenon
  <2>3. \A p \in Callers : held[p] = NoConn
    BY <2>1 DEF TypeInv, Control
  <2>4. made \subseteq shut
    BY Zenon, <2>2, <2>3, PoolAssumption DEF Accounted, TypeInv, TypeOK
  <2>5. shut \subseteq made
    BY DEF Owned
  <2> QED BY <2>3, <2>4, <2>5
<1>2. Init => Accounted
  BY DEF Init, Accounted
<1> QED BY <1>1, <1>2, QuietAlways, OwnedInit, OwnedNext, AccountedNext, PTL DEF Spec

-----------------------------------------------------------------------------
(***************************************************************************)
(* With at most PoolSize callers the channel and the holders always add up *)
(* to PoolSize, so GetConnection finds an idle connection and              *)
(* ReleaseConnection finds room.                                           *)
(***************************************************************************)
Sized ==
  /\ \A p \in Callers : pc[p] \notin {"missed", "dialing"}
  /\ phase = "warming" => Cardinality(made) = Len(warm)
  /\ ~closed /\ phase \in {"releasing", "ready"} => Cardinality(made) = PoolSize

\* Every step keeps the number of connections at PoolSize.
LEMMA SizedNext ==
  ASSUME Cardinality(Callers) <= PoolSize, TypeInv, Quiet, Count, Sized, [Next]_vars
  PROVE  Sized'
<1> USE PoolAssumption
<1>a. /\ pc \in [Callers -> CallStates]
      /\ warm \in Seq(Conns) /\ Len(warm) \in Nat
      /\ IsFiniteSet(made) /\ Cardinality(made) \in Nat
  BY Zenon, EmptyLen, FS_CardinalityType DEF TypeInv, TypeOK, Count
<1>0. ASSUME UNCHANGED <<phase, made, closed>>,
             \A q \in Callers : pc'[q] \in {"missed", "dialing"}
                                  => pc[q] \in {"missed", "dialing"},
             UNCHANGED warm
      PROVE  Sized'
  BY <1>0, Zenon DEF Sized
<1>1. CASE NewGet
  <2>1. PICK c \in Conns \ made : warm' = Append(warm, c) /\ made' = made \cup {c}
    BY <1>1 DEF NewGet
  <2>2. Cardinality(made') = Cardinality(made) + 1 /\ Len(warm') = Len(warm) + 1
    BY Zenon, <1>a, <2>1, FS_AddElement, AppendElems
  <2>3. Cardinality(made) = Len(warm) /\ pc' = pc /\ closed' = closed
    BY <1>1, Zenon DEF NewGet, Sized
  <2>4. phase' = IF Len(warm) + 1 = PoolSize THEN "releasing" ELSE "warming"
    BY <1>1, Zenon DEF NewGet
  <2> QED BY <1>a, <2>2, <2>3, <2>4, Zenon DEF Sized
<1>2. CASE NewRelease \/ NewFail
  BY <1>2, Zenon DEF NewRelease, NewFail, poolVars, Sized
<1>3. ASSUME NEW p \in Callers PROVE ~GetMiss(p)
  <2> SUFFICES ASSUME GetMiss(p) PROVE FALSE
    OBVIOUS
  <2>1. phase = "ready" /\ idle = <<>> /\ pc[p] = "selecting" /\ ~closed
    BY Zenon DEF GetMiss, Ready, Quiet, Waited
  <2>2. warm = <<>> /\ Len(warm) = 0 /\ Len(idle) = 0 /\ held[p] = NoConn
    BY Zenon, <2>1, EmptyElems DEF TypeInv, Control
  <2>3. Cardinality(Holding) = PoolSize
    BY <2>1, <2>2, HoldingFinite, SMTT(30) DEF Count, Sized
  <2>4. Holding \in SUBSET (Callers \ {p})
    BY <2>2, Zenon DEF Holding
  <2>5. /\ IsFiniteSet(Callers \ {p})
        /\ Cardinality(Callers \ {p}) = Cardinality(Callers) - 1
    BY FS_RemoveElement
  <2>6. Cardinality(Holding) <= Cardinality(Callers) - 1
    BY SMTT(30), <2>4, <2>5, FS_Subset
  <2> QED BY <2>3, <2>6, HoldingFinite, SMTT(30)
<1>4. ASSUME NEW p \in Callers PROVE ~GetDial(p) /\ ~GetDialFail(p)
  BY DEF GetDial, GetDialFail, Sized
<1>5. ASSUME NEW p \in Callers, GetAdd(p) PROVE Sized'
  BY <1>a, <1>5, Zenon DEF GetAdd, Goto, poolVars, Sized
<1>6. ASSUME NEW p \in Callers,
             \/ GetLoad(p) \/ GetRefused(p) \/ GetIdle(p) \/ GetNil(p)
             \/ GetAddPanic(p) \/ Use(p) \/ UseNil(p) \/ ReleaseLoad(p)
             \/ ReleaseDrop(p) \/ ReleaseSend(p) \/ ReleaseSendPanic(p)
             \/ ReleaseDone(p)
      PROVE  Sized'
  <2>1. UNCHANGED <<phase, made, closed, warm>>
    BY ZenonT(30), <1>6
    DEF GetLoad, GetRefused, GetIdle, GetNil, GetAddPanic, Use, UseNil, ReleaseLoad,
        ReleaseDrop, ReleaseSend, ReleaseSendPanic, ReleaseDone, Panic, poolVars, vars
  <2>2. \A q \in Callers : pc'[q] \in {"missed", "dialing"}
                             => pc[q] \in {"missed", "dialing"}
    BY Zenon, <1>6, <1>a
    DEF GetLoad, GetRefused, GetIdle, GetNil, GetAddPanic, Use, UseNil, ReleaseLoad,
        ReleaseDrop, ReleaseSend, ReleaseSendPanic, ReleaseDone, Panic, Goto, vars
  <2> QED BY <1>0, <2>1, <2>2, Zenon
<1>7. CASE CloseStore
  BY <1>7 DEF CloseStore, Ready, Sized
<1>8. CASE \/ CloseWait \/ CloseWoken \/ CloseWokenPanic \/ CloseChan
           \/ CloseChanPanic \/ CloseDrain \/ CloseReturn \/ Halted \/ UNCHANGED vars
  BY <1>0, <1>8, Zenon
  DEF CloseWait, CloseWoken, CloseWokenPanic, CloseChan, CloseChanPanic, CloseDrain,
      CloseReturn, Halted, Panic, poolVars, vars
<1> QED BY Zenon, <1>1, <1>2, <1>3, <1>4, <1>5, <1>6, <1>7, <1>8
        DEF Next, New, CallStep, CloseStep

(***************************************************************************)
(* With at most PoolSize concurrent callers and quiescent closing, no call *)
(* dials a connection of its own and no release blocks on the channel.     *)
(***************************************************************************)
THEOREM SizedReleaseNeverBlocks ==
  QuiescentClose /\ Cardinality(Callers) <= PoolSize
    => (Spec => []ReleaseNeverBlocks)
<1> SUFFICES ASSUME QuiescentClose, Cardinality(Callers) <= PoolSize
             PROVE  Spec => []ReleaseNeverBlocks
  BY Zenon
<1>1. TypeInv /\ Quiet /\ Count /\ Sized => ReleaseNeverBlocks
  <2> SUFFICES ASSUME TypeInv, Quiet, Count, Sized,
                      NEW p \in Callers, pc[p] = "sending"
               PROVE  Len(idle) < PoolSize
    BY Zenon DEF ReleaseNeverBlocks, Sized
  <2>1. ~closed /\ phase = "ready" /\ held[p] # NoConn
    BY Zenon DEF Quiet, Waited, TypeInv, Control
  <2>2. warm = <<>> /\ Len(warm) = 0 /\ Len(idle) \in Nat
    BY <2>1, EmptyElems, EmptyLen, Zenon DEF TypeInv, TypeOK, Control
  <2>3. Holding # {}
    BY <2>1, Zenon DEF Holding
  <2>4. Cardinality(Holding) >= 1
    BY <2>3, HoldingFinite, FS_EmptySet, SMTT(30)
  <2> QED BY <2>1, <2>2, <2>4, HoldingFinite, PoolAssumption, SMTT(30) DEF Count, Sized
<1>2. Init => Sized
  <2> SUFFICES ASSUME Init PROVE Sized
    BY Zenon
  <2>1. Cardinality(made) = 0 /\ Len(warm) = 0
    BY FS_EmptySet, EmptyElems, Zenon DEF Init
  <2> QED BY <2>1 DEF Init, Sized
<1> QED BY <1>1, <1>2, QuietAlways, CountInit, CountNext, SizedNext, PTL DEF Spec

-----------------------------------------------------------------------------
(***************************************************************************)
(* ConnPool implements ConnLease, for every set of callers, every pool     *)
(* size and however calls and Close overlap.                               *)
(***************************************************************************)

(***************************************************************************)
(* What Owner says of each place a connection can be in.  It rests on the  *)
(* places being disjoint and on a connection having one holder (Owned).    *)
(***************************************************************************)
OwnerFacts ==
  \A c \in Conns :
    /\ c \notin made => Owner(c) = "none"
    /\ c \in shut => Owner(c) = "shut"
    /\ c \in Elems(warm) => Owner(c) = "new"
    /\ c \in Elems(idle) => Owner(c) = "idle"
    /\ \A p \in Callers : held[p] = c => Owner(c) = p
    /\ /\ c \in made /\ c \notin shut
       /\ c \notin Elems(warm) /\ c \notin Elems(idle)
       /\ \A p \in Callers : held[p] # c
       => Owner(c) = "lost"

\* The owner of a connection is where it is.
LEMMA OwnerIs == TypeInv /\ Owned => OwnerFacts
<1> SUFFICES ASSUME TypeInv, Owned, NEW c \in Conns
             PROVE  /\ c \notin made => Owner(c) = "none"
                    /\ c \in shut => Owner(c) = "shut"
                    /\ c \in Elems(warm) => Owner(c) = "new"
                    /\ c \in Elems(idle) => Owner(c) = "idle"
                    /\ \A p \in Callers : held[p] = c => Owner(c) = p
                    /\ /\ c \in made /\ c \notin shut
                       /\ c \notin Elems(warm) /\ c \notin Elems(idle)
                       /\ \A p \in Callers : held[p] # c
                       => Owner(c) = "lost"
  BY Zenon DEF OwnerFacts
<1>0. /\ c # NoConn
      /\ c \in Elems(idle) \cup Elems(warm) \cup shut => c \in made
      /\ c \in shut => c \notin Elems(warm) /\ c \notin Elems(idle)
      /\ \A p \in Callers : held[p] = c =>
           /\ c \in made /\ c \notin shut
           /\ c \notin Elems(warm) /\ c \notin Elems(idle)
  BY PoolAssumption DEF Owned
<1>1. c \notin made => Owner(c) = "none"
  BY <1>0 DEF Owner
<1>2. c \in shut => Owner(c) = "shut"
  BY <1>0 DEF Owner
<1>3. c \in Elems(warm) => Owner(c) = "new"
  BY DEF Owner, Owned
<1>4. c \in Elems(idle) => Owner(c) = "idle"
  BY DEF Owner, Owned
<1>5. ASSUME NEW p \in Callers, held[p] = c PROVE Owner(c) = p
  <2>1. /\ c \in made /\ c \notin shut /\ c # NoConn
        /\ c \notin Elems(warm) /\ c \notin Elems(idle)
    BY <1>5, PoolAssumption DEF Owned
  <2>2. Owner(c) = CHOOSE q \in Callers : held[q] = c
    BY <1>5, <2>1, Zenon DEF Owner
  <2>3. \A q \in Callers : held[q] = c => q = p
    BY <1>5, <2>1 DEF Owned
  <2> QED BY <1>5, <2>2, <2>3, Zenon
<1>6. /\ c \in made /\ c \notin shut
      /\ c \notin Elems(warm) /\ c \notin Elems(idle)
      /\ \A p \in Callers : held[p] # c
      => Owner(c) = "lost"
  BY DEF Owner
<1> QED BY <1>1, <1>2, <1>3, <1>4, <1>5, <1>6, Zenon

\* The same after a step.
LEMMA OwnerIsNext == TypeInv' /\ Owned' => OwnerFacts'
  BY OwnerIs, PTL

\* The connection c is where it was.
Stays(c) ==
  /\ c \in made' <=> c \in made
  /\ c \in shut' <=> c \in shut
  /\ c \in Elems(warm') <=> c \in Elems(warm)
  /\ c \in Elems(idle') <=> c \in Elems(idle)
  /\ \A p \in Callers : held'[p] = c <=> held[p] = c

\* A connection that stays keeps its owner.
LEMMA OwnerStays ==
  ASSUME OwnerFacts, OwnerFacts', NEW c \in Conns, Stays(c)
  PROVE  Owner(c)' = Owner(c)
  BY DEF OwnerFacts, Stays

\* When all but one connection stay, only that one changes hands.
LEMMA OneMoves ==
  ASSUME OwnerFacts, OwnerFacts', NEW x \in Conns, \A c \in Conns \ {x} : Stays(c)
  PROVE  Owners' = [Owners EXCEPT ![x] = Owner(x)']
  BY OwnerStays, Zenon DEF Owners

\* When all stay, nothing changes hands.
LEMMA NoneMoves ==
  ASSUME OwnerFacts, OwnerFacts', \A c \in Conns : Stays(c)
  PROVE  Owners' = Owners
  BY OwnerStays DEF Owners

\* A call that holds nothing owns nothing.
LEMMA HoldsNothing ==
  ASSUME TypeInv, Owned, OwnerFacts, NEW p \in Callers, held[p] = NoConn
  PROVE  Lease!Free(p)
<1> SUFFICES ASSUME NEW c \in Conns, Owner(c) = p PROVE FALSE
  BY DEF Lease!Free, Owners
<1>1. Owner(c) \notin {"none", "new", "idle", "shut", "lost"}
  BY CallerNames, Zenon
<1>2. c \in made /\ c \notin shut /\ c \notin Elems(warm) /\ c \notin Elems(idle)
  BY <1>1, Zenon DEF OwnerFacts
<1>3. PICK q \in Callers : held[q] = c
  BY <1>1, <1>2, Zenon DEF OwnerFacts
<1>4. q = p
  BY <1>3, Zenon DEF OwnerFacts
<1> QED BY <1>3, <1>4, PoolAssumption, Zenon

\* The pool opens, or New opens, a connection nobody has had.
LEMMA StepOpens ==
  ASSUME TypeInv, Owned, OwnerFacts, OwnerFacts'
  PROVE  /\ NewGet => Lease!Next
         /\ \A p \in Callers : GetDial(p) => Lease!Next
<1>1. ASSUME NewGet PROVE Lease!Next
  <2>1. PICK x \in Conns \ made : warm' = Append(warm, x) /\ made' = made \cup {x}
    BY <1>1, Zenon DEF NewGet
  <2>2. Elems(warm') = Elems(warm) \cup {x}
    BY <2>1, AppendElems, SMTT(30) DEF TypeInv, TypeOK
  <2>3. UNCHANGED <<idle, held, shut>>
    BY <1>1, Zenon DEF NewGet
  <2>4. \A c \in Conns \ {x} : Stays(c)
    BY <2>1, <2>2, <2>3, Zenon DEF Stays
  <2>5. Owner(x) = "none" /\ Owner(x)' = "new"
    BY <2>1, <2>2, Zenon DEF OwnerFacts
  <2>6. Owners[x] = "none" /\ Owners' = [Owners EXCEPT ![x] = "new"]
    BY <2>1, <2>4, <2>5, OneMoves DEF Owners
  <2>7. Lease!Open(x)
    BY <2>6, Zenon DEF Lease!Open
  <2> QED BY <2>7, Zenon DEF Lease!Next
<1>2. ASSUME NEW p \in Callers, GetDial(p) PROVE Lease!Next
  <2>1. PICK x \in Conns \ made :
          held' = [held EXCEPT ![p] = x] /\ made' = made \cup {x}
    BY Zenon, <1>2 DEF GetDial
  <2>2. UNCHANGED <<idle, warm, shut>> /\ held[p] = NoConn
    BY <1>2, Zenon DEF GetDial, TypeInv, Control
  <2>3. \A c \in Conns \ {x} : Stays(c)
    BY <2>1, <2>2, PoolAssumption, Zenon DEF Stays, TypeInv, TypeOK
  <2>4. Owner(x) = "none" /\ Owner(x)' = p
    BY <2>1, SMTT(30) DEF OwnerFacts, TypeInv, TypeOK
  <2>5. Owners[x] = "none" /\ Owners' = [Owners EXCEPT ![x] = p]
    BY <2>1, <2>3, <2>4, OneMoves, Zenon DEF Owners
  <2>6. Lease!Free(p)
    BY <2>2, HoldsNothing
  <2>7. Lease!Open(x)
    BY <2>5, <2>6, Zenon DEF Lease!Open
  <2> QED BY <2>7 DEF Lease!Next
<1> QED BY <1>1, <1>2

\* A connection goes into the channel, from New or from its call.
LEMMA StepPuts ==
  ASSUME TypeInv, Owned, OwnerFacts, OwnerFacts'
  PROVE  /\ NewRelease => Lease!Next
         /\ \A p \in Callers : ReleaseSend(p) => Lease!Next
<1>1. ASSUME NewRelease PROVE Lease!Next
  <2>0. PICK x \in Conns : x = Head(warm)
    BY <1>1, TailElems, Zenon DEF NewRelease, TypeInv, TypeOK, Control
  <2>1. /\ x \in Conns /\ x \in Elems(warm)
        /\ Elems(warm) = Elems(warm') \cup {x} /\ x \notin Elems(warm')
    BY <1>1, <2>0, TailElems, Zenon DEF NewRelease, TypeInv, TypeOK, Control, Owned
  <2>2. Elems(idle') = Elems(idle) \cup {x}
    BY <1>1, <2>0, AppendElems, SMTT(30) DEF NewRelease, TypeInv, TypeOK
  <2>3. UNCHANGED <<made, held, shut>>
    BY <1>1, Zenon DEF NewRelease
  <2>4. \A c \in Conns \ {x} : Stays(c)
    BY <2>1, <2>2, <2>3, Zenon DEF Stays
  <2>5. Owner(x) = "new" /\ Owner(x)' = "idle"
    BY <2>1, <2>2, Zenon DEF OwnerFacts
  <2>6. Owners[x] = "new" /\ Owners' = [Owners EXCEPT ![x] = "idle"]
    BY <2>1, <2>4, <2>5, OneMoves, Zenon DEF Owners
  <2>7. Lease!Put(x)
    BY <2>6 DEF Lease!Put
  <2> QED BY <2>1, <2>7, Zenon DEF Lease!Next
<1>2. ASSUME NEW p \in Callers, ReleaseSend(p) PROVE Lease!Next
  <2>1. PICK x \in Conns : x = held[p]
    BY <1>2, Zenon DEF ReleaseSend, TypeInv, TypeOK, Control
  <2>2. Elems(idle') = Elems(idle) \cup {x}
    BY <1>2, <2>1, AppendElems, SMTT(30) DEF ReleaseSend, TypeInv, TypeOK
  <2>3. held' = [held EXCEPT ![p] = NoConn] /\ UNCHANGED <<made, warm, shut>>
    BY <1>2, Zenon DEF ReleaseSend
  <2>4. \A c \in Conns \ {x} : Stays(c)
    BY <2>1, <2>2, <2>3, PoolAssumption, Zenon DEF Stays, TypeInv, TypeOK
  <2>5. Owner(x) = p /\ Owner(x)' = "idle"
    BY <2>1, <2>2, Zenon DEF OwnerFacts
  <2>6. Owners[x] = p /\ Owners' = [Owners EXCEPT ![x] = "idle"]
    BY <2>1, <2>4, <2>5, OneMoves, Zenon DEF Owners
  <2>7. Lease!Put(x)
    BY <2>6, Zenon DEF Lease!Put
  <2> QED BY <2>1, <2>7, Zenon DEF Lease!Next
<1> QED BY <1>1, <1>2

\* A call that has none takes an idle connection.
LEMMA StepTakes ==
  ASSUME TypeInv, Owned, OwnerFacts, OwnerFacts', NEW p \in Callers, GetIdle(p)
  PROVE  Lease!Next
<1>0. PICK x \in Conns : x = Head(idle)
  BY TailElems, Zenon DEF GetIdle, TypeInv, TypeOK
<1>1. /\ x \in Elems(idle)
      /\ Elems(idle) = Elems(idle') \cup {x} /\ x \notin Elems(idle')
  BY <1>0, TailElems, Zenon DEF GetIdle, TypeInv, TypeOK, Owned
<1>2. /\ held' = [held EXCEPT ![p] = x] /\ held[p] = NoConn
      /\ UNCHANGED <<made, warm, shut>>
  BY <1>0, Zenon DEF GetIdle, TypeInv, Control
<1>3. \A c \in Conns \ {x} : Stays(c)
  BY <1>1, <1>2, PoolAssumption, Zenon DEF Stays, TypeInv, TypeOK
<1>4. Owner(x) = "idle" /\ Owner(x)' = p
  BY <1>1, <1>2, SMTT(30) DEF OwnerFacts, TypeInv, TypeOK
<1>5. Owners[x] = "idle" /\ Owners' = [Owners EXCEPT ![x] = p]
  BY <1>3, <1>4, OneMoves, Zenon DEF Owners
<1>6. Lease!Free(p)
  BY <1>2, HoldsNothing
<1>7. Lease!Take(x)
  BY <1>5, <1>6, Zenon DEF Lease!Take
<1> QED BY <1>7, Zenon DEF Lease!Next

\* Close closes an idle connection.
LEMMA StepShuts ==
  ASSUME TypeInv, Owned, OwnerFacts, OwnerFacts', CloseDrain
  PROVE  Lease!Next
<1>0. PICK x \in Conns : x = Head(idle)
  BY TailElems, Zenon DEF CloseDrain, TypeInv, TypeOK
<1>1. /\ x \in Elems(idle)
      /\ Elems(idle) = Elems(idle') \cup {x} /\ x \notin Elems(idle')
  BY <1>0, TailElems, Zenon DEF CloseDrain, TypeInv, TypeOK, Owned
<1>2. shut' = shut \cup {x} /\ UNCHANGED <<made, warm, held>>
  BY <1>0, Zenon DEF CloseDrain
<1>3. \A c \in Conns \ {x} : Stays(c)
  BY <1>1, <1>2, Zenon DEF Stays
<1>4. Owner(x) = "idle" /\ Owner(x)' = "shut"
  BY <1>1, <1>2, Zenon DEF OwnerFacts
<1>5. Owners[x] = "idle" /\ Owners' = [Owners EXCEPT ![x] = "shut"]
  BY <1>3, <1>4, OneMoves, Zenon DEF Owners
<1>6. Lease!Shut(x)
  BY <1>5, Zenon DEF Lease!Shut
<1> QED BY <1>6, Zenon DEF Lease!Next

\* A call that finds the pool closed drops its connection.
LEMMA StepAbandons ==
  ASSUME TypeInv, Owned, OwnerFacts, Owned', OwnerFacts',
         NEW p \in Callers, ReleaseDrop(p)
  PROVE  Lease!Next
<1>0. PICK x \in Conns : x = held[p]
  BY Zenon DEF ReleaseDrop, TypeInv, TypeOK, Control
<1>1. held' = [held EXCEPT ![p] = NoConn] /\ UNCHANGED <<made, warm, idle, shut>>
  BY Zenon DEF ReleaseDrop, poolVars
<1>2. \A c \in Conns \ {x} : Stays(c)
  BY <1>0, <1>1, PoolAssumption, Zenon DEF Stays, TypeInv, TypeOK
<1>3. /\ x \in made /\ x \notin shut /\ x # NoConn
      /\ x \notin Elems(warm) /\ x \notin Elems(idle)
  BY <1>0, PoolAssumption, Zenon DEF Owned
<1>4. \A q \in Callers : held'[q] # x
  BY <1>0, <1>1, <1>3, Zenon DEF Owned, TypeInv, TypeOK
<1>5. Owner(x) = p
  BY <1>0, Zenon DEF OwnerFacts
<1>6. Owner(x)' = "lost"
  BY <1>1, <1>3, <1>4, Zenon DEF OwnerFacts
<1>7. Owners[x] = p /\ Owners' = [Owners EXCEPT ![x] = "lost"]
  BY <1>2, <1>5, <1>6, OneMoves, Zenon DEF Owners
<1>8. Lease!Abandon(x)
  BY <1>7, Zenon DEF Lease!Abandon
<1> QED BY <1>8, Zenon DEF Lease!Next

\* Every step of the pool is one of the lease, or moves no connection.
LEMMA LeaseStep ==
  ASSUME TypeInv, Owned, TypeInv', Owned', [Next]_vars
  PROVE  [Lease!Next]_Owners
<1>0. OwnerFacts /\ OwnerFacts'
  BY OwnerIs, OwnerIsNext, Zenon
<1>1. ASSUME UNCHANGED <<warm, idle, held, made, shut>> PROVE Owners' = Owners
  <2>1. \A c \in Conns : Stays(c)
    BY <1>1, Zenon DEF Stays
  <2> QED BY <1>0, <2>1, NoneMoves, Zenon
<1>2. CASE NewGet \/ NewRelease \/ CloseDrain
  BY <1>0, <1>2, StepOpens, StepPuts, StepShuts, Zenon
<1>3. ASSUME NEW p \in Callers,
             GetDial(p) \/ ReleaseSend(p) \/ GetIdle(p) \/ ReleaseDrop(p)
      PROVE  Lease!Next
  BY <1>0, <1>3, StepOpens, StepPuts, StepTakes, StepAbandons, Zenon
<1>4. ASSUME NEW p \in Callers,
             \/ GetLoad(p) \/ GetRefused(p) \/ GetNil(p) \/ GetMiss(p)
             \/ GetAdd(p) \/ GetAddPanic(p) \/ GetDialFail(p) \/ Use(p)
             \/ UseNil(p) \/ ReleaseLoad(p) \/ ReleaseSendPanic(p)
             \/ ReleaseDone(p)
      PROVE  Owners' = Owners
  BY <1>1, <1>4, Zenon
  DEF GetLoad, GetRefused, GetNil, GetMiss, GetAdd, GetAddPanic, GetDialFail, Use,
      UseNil, ReleaseLoad, ReleaseSendPanic, ReleaseDone, Panic, poolVars, vars
<1>5. CASE \/ NewFail \/ CloseWait \/ CloseWoken \/ CloseWokenPanic \/ CloseStore
           \/ CloseChan \/ CloseChanPanic \/ CloseReturn \/ Halted \/ UNCHANGED vars
  BY <1>1, <1>5, Zenon
  DEF NewFail, CloseWait, CloseWoken, CloseWokenPanic, CloseStore, CloseChan,
      CloseChanPanic, CloseReturn, Halted, Panic, poolVars, vars
<1> QED BY <1>2, <1>3, <1>4, <1>5, Zenon DEF Next, New, CallStep, CloseStep

(***************************************************************************)
(* The pool keeps the promise of ConnLease whatever the number of callers, *)
(* the pool size and the moment Close is called: a connection changes      *)
(* hands one at a time, a call that has one is given no second, and only   *)
(* idle connections are closed (conn_pool.go).                             *)
(***************************************************************************)
THEOREM PoolImplementsLease == Spec => ImplementsLease
<1>1. Init => Lease!Init
  <2> SUFFICES ASSUME Init, NEW c \in Conns PROVE Owner(c) = "none"
    BY DEF Lease!Init, Owners
  <2> QED BY TypeInvInit, OwnedInit, OwnerIs, Zenon DEF Init, OwnerFacts
<1>2. TypeInv /\ Owned /\ (TypeInv /\ Owned)' /\ [Next]_vars => [Lease!Next]_Owners
  BY LeaseStep
<1> QED BY <1>1, <1>2, TypeInvAlways, OwnedInit, OwnedNext, PTL
        DEF Spec, ImplementsLease, Lease!Spec
=============================================================================
