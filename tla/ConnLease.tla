------------------------------ MODULE ConnLease -----------------------------
(***************************************************************************)
(* What the connection pool promises, without channels, counters or flags: *)
(* every connection has one owner at a time, and changes hands one         *)
(* connection at a time along a fixed life.  ConnPool implements it.       *)
(*                                                                         *)
(*      "none" --> "new" --> "idle" --> "shut"                             *)
(*         |                  ^  |                                         *)
(*         |                  |  v                                         *)
(*         +--------------> a caller --> "lost"                            *)
(***************************************************************************)
CONSTANTS Callers, Conns

VARIABLE owner

\* p has no connection, so it may be given one.
Free(p) == \A c \in Conns : owner[c] # p

Init == owner = [c \in Conns |-> "none"]

\* newConn succeeds, for Client.New or for a call that found no idle one.
Open(c) ==
  /\ owner[c] = "none"
  /\ \E o \in {"new"} \cup {p \in Callers : Free(p)} :
       owner' = [owner EXCEPT ![c] = o]

\* The connection becomes idle: Client.New or its caller is done with it.
Put(c) ==
  /\ owner[c] \in Callers \cup {"new"}
  /\ owner' = [owner EXCEPT ![c] = "idle"]

Take(c) ==
  /\ owner[c] = "idle"
  /\ \E p \in Callers : Free(p) /\ owner' = [owner EXCEPT ![c] = p]

\* Only an idle connection is ever closed.
Shut(c) ==
  /\ owner[c] = "idle"
  /\ owner' = [owner EXCEPT ![c] = "shut"]

\* A caller that finds the pool closed drops its connection, still open.
Abandon(c) ==
  /\ owner[c] \in Callers
  /\ owner' = [owner EXCEPT ![c] = "lost"]

Next == \E c \in Conns : Open(c) \/ Put(c) \/ Take(c) \/ Shut(c) \/ Abandon(c)

Spec == Init /\ [][Next]_owner
=============================================================================
