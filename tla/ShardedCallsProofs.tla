------------------------- MODULE ShardedCallsProofs -------------------------
(***************************************************************************)
(* Proofs about the ShardedClient, for every number of shards, every       *)
(* sharding function, every pool size and any sequence of calls.           *)
(***************************************************************************)
EXTENDS ShardedCalls, FiniteSetTheorems, TLAPS

-----------------------------------------------------------------------------
(***************************************************************************)
(* The inductive invariant.  Beside the types it says, for the operation   *)
(* under way, how far its loop has come.                                   *)
(***************************************************************************)
Operations == {"New", "Close", "MDel", "Inspect"} \cup KeyOps \cup BoolOps

CallTypes ==
  /\ n \in Nat /\ i \in Nat
  /\ route \in [Keys -> Int]
  /\ conns \in [Shards -> Nat]
  /\ db \in [Shards -> SUBSET Keys]
  /\ op \in Operations \cup {"none"} /\ last \in Operations
  /\ op # "none" => last = op
  /\ arg \in Seq(Keys)
  /\ op \in KeyOps => arg[1] \in Keys /\ InRange(arg[1])
  /\ todo \subseteq Shards

\* A key is only ever on the shard its name is routed to.
Routed == \A s \in Shards : \A k \in db[s] : route[k] = s

\* The loops of NewSharded and Close are at shard i.
ConnsAt ==
  /\ op = "New" => \A s \in Shards : /\ s < i => conns[s] = PoolSize
                                     /\ s = i => conns[s] < PoolSize
                                     /\ s > i => conns[s] = 0
  /\ op = "Close" => \A s \in Shards : conns[s] = IF s < i THEN 0 ELSE PoolSize
  /\ last \notin {"New", "Close"} => \A s \in Shards : conns[s] = PoolSize
  /\ NoneLeftOpen

\* A command on one key has not been carried out yet.
KeyAt ==
  /\ op \in KeyOps => Stored = db0
  /\ OneDatabase

\* Shard s has none of the keys of the call left, or is as it was.
ShardAt(s) ==
  IF s \in todo THEN db[s] = {k \in db0 : route[k] = s}
                ELSE db[s] \cap Range(arg) = {}

\* The m-th result is there once the shard of the m-th key has answered.
ResultAt(m) ==
  route[arg[m]] \notin todo =>
    /\ acc[m] => Deleted(arg, db0)[m]
    /\ ~resent => acc[m] = Deleted(arg, db0)[m]

MDelAt ==
  /\ op = "MDel" => /\ \A m \in 1..Len(arg) : InRange(arg[m])
                    /\ \A s \in Shards : ShardAt(s)
                    /\ acc \in [1..Len(arg) -> BOOLEAN]
                    /\ \A m \in 1..Len(arg) : ResultAt(m)
  /\ DeletesExactly
  /\ ResultsInInputOrder

\* The loops over c.shards are at shard i.
LoopAt ==
  /\ op \in BoolOps =>
       /\ i <= n /\ done = 0..(i - 1) /\ acc = <<noes = {}>>
       /\ db0 \subseteq Keys
       /\ noes = {} => \A s \in Shards : s < i => db[s] = {}
       /\ \A k \in db0 : route[k] >= i => k \in Stored
  /\ op = "Inspect" =>
       /\ i <= n /\ acc \in [Shards -> Int]
       /\ \A s \in Shards : s < i => acc[s] = s
  /\ AllShardsAnswer

-----------------------------------------------------------------------------
\* What the sharded client starts with satisfies every part of the invariant.
LEMMA InitHolds == Init => CallTypes /\ Routed /\ ConnsAt /\ KeyAt /\ MDelAt /\ LoopAt
<1> SUFFICES ASSUME Init PROVE CallTypes /\ Routed /\ ConnsAt /\ KeyAt /\ MDelAt /\ LoopAt
  OBVIOUS
<1>1. /\ n \in Nat /\ i = 0 /\ op = "New" /\ last = "New"
      /\ route \in [Keys -> Int] /\ arg = <<>> /\ todo = {}
      /\ conns = [s \in Shards |-> 0]
  BY CallsAssumption DEF Init
<1>2. db \in [Shards -> SUBSET Keys] /\ Routed
  BY DEF Init, Routed
<1>3. CallTypes
  BY <1>1, <1>2, CallsAssumption DEF CallTypes, Operations, KeyOps
<1>4. ConnsAt
  BY <1>1, CallsAssumption DEF ConnsAt, NoneLeftOpen, Returned, Shards
<1>5. KeyAt
  BY <1>1, <1>2 DEF KeyAt, OneDatabase, KeyOps, Routed
<1>6. MDelAt
  BY <1>1 DEF MDelAt, DeletesExactly, ResultsInInputOrder, Returned
<1>7. LoopAt
  BY <1>1 DEF LoopAt, AllShardsAnswer, Returned, BoolOps
<1> QED
  BY <1>2, <1>3, <1>4, <1>5, <1>6, <1>7

-----------------------------------------------------------------------------
\* An operation begins: the shards are as they were, all connections open.
Started ==
  /\ n' = n /\ route' = route /\ conns' = conns /\ db' = db
  /\ Shards' = Shards /\ Stored' = Stored /\ op = "none"
  /\ \A s \in Shards : conns[s] = PoolSize
  /\ i' = 0 /\ db0' = Stored /\ done' = {} /\ noes' = {} /\ resent' = FALSE

LEMMA BeginFacts ==
  ASSUME NEW o, NEW ks, Begin(o, ks)
  PROVE  Started /\ last' = o /\ arg' = ks
BY DEF Begin, Usable, Started, place, Shards, Stored

\* A command on one key begins.
LEMMA BeginKeyFacts ==
  BeginKey => /\ Started /\ todo' = {} /\ last' \in KeyOps
              /\ \E k \in Keys : arg' = <<k>> /\ (op' # "none" => InRange(k))
              /\ \/ op' = last'
                 \/ op' = "none" /\ outcome' = "range"
<1> SUFFICES ASSUME NEW o \in KeyOps, NEW k \in Keys, Begin(o, <<k>>), todo' = {},
                    IF InRange(k) THEN op' = o /\ UNCHANGED outcome
                                  ELSE Return("range")
             PROVE  /\ Started /\ todo' = {} /\ last' \in KeyOps
                    /\ \E kk \in Keys : arg' = <<kk>> /\ (op' # "none" => InRange(kk))
                    /\ \/ op' = last'
                       \/ op' = "none" /\ outcome' = "range"
  BY DEF BeginKey
<1>1. Started /\ last' = o /\ arg' = <<k>>
  BY BeginFacts
<1> QED
  BY <1>1 DEF Return

\* MDel begins: all its keys have a shard, or it returns at once.
LEMMA BeginMDelFacts ==
  BeginMDel => /\ Started /\ last' = "MDel" /\ arg' \in Seq(Keys)
               /\ acc' = [m \in 1..Len(arg') |-> FALSE]
               /\ \/ /\ op' = "MDel"
                     /\ \A m \in 1..Len(arg') : InRange(arg'[m])
                     /\ todo' = {s \in Shards :
                                   \E m \in 1..Len(arg') : route[arg'[m]] = s}
                  \/ op' = "none" /\ outcome' = "range" /\ todo' = {}
<1> SUFFICES ASSUME BeginMDel
             PROVE  /\ Started /\ last' = "MDel" /\ arg' \in Seq(Keys)
                    /\ acc' = [m \in 1..Len(arg') |-> FALSE]
                    /\ \/ /\ op' = "MDel"
                          /\ \A m \in 1..Len(arg') : InRange(arg'[m])
                          /\ todo' = {s \in Shards :
                                   \E m \in 1..Len(arg') : route[arg'[m]] = s}
                       \/ op' = "none" /\ outcome' = "range" /\ todo' = {}
  OBVIOUS
<1>1. PICK ks \in UNION {[1..len -> Keys] : len \in 0..MaxKeys} :
        /\ Begin("MDel", ks)
        /\ IF \A m \in 1..Len(ks) : InRange(ks[m])
           THEN /\ op' = "MDel" /\ UNCHANGED outcome
                /\ todo' = {s \in Shards : \E m \in 1..Len(ks) : route[ks[m]] = s}
           ELSE Return("range") /\ todo' = {}
        /\ acc' = [m \in 1..Len(ks) |-> FALSE]
  BY Zenon DEF BeginMDel
<1>2. ks \in Seq(Keys)
  BY CallsAssumption
<1>3. Started /\ last' = "MDel" /\ arg' = ks
  BY <1>1, BeginFacts
<1> QED
  BY <1>1, <1>2, <1>3, Zenon DEF Return

\* A command for every shard, or Close, begins.
LEMMA BeginAllFacts ==
  BeginAll => /\ Started /\ last' \in BoolOps \cup {"Inspect", "Close"}
              /\ op' = last' /\ arg' = <<>> /\ todo' = {}
              /\ acc' = IF last' = "Inspect" THEN [s \in Shards |-> -1]
                                             ELSE <<TRUE>>
<1> SUFFICES ASSUME NEW o \in BoolOps \cup {"Inspect", "Close"},
                    Begin(o, <<>>), op' = o, todo' = {},
                    acc' = IF o = "Inspect" THEN [s \in Shards |-> -1]
                                            ELSE <<TRUE>>
             PROVE  /\ Started /\ last' \in BoolOps \cup {"Inspect", "Close"}
                    /\ op' = last' /\ arg' = <<>> /\ todo' = {}
                    /\ acc' = IF last' = "Inspect" THEN [s \in Shards |-> -1]
                                                   ELSE <<TRUE>>
  BY DEF BeginAll
<1>1. Started /\ last' = o /\ arg' = <<>>
  BY BeginFacts, Zenon
<1> QED
  BY <1>1, Zenon

\* The types are kept by every step.
LEMMA TypesKept == CallTypes /\ [Next]_vars => CallTypes'
<1> SUFFICES ASSUME CallTypes, [Next]_vars PROVE CallTypes'
  OBVIOUS
<1> USE DEF CallTypes, Operations, KeyOps, BoolOps
<1>1. CASE NewRefused
  BY <1>1 DEF NewRefused, Return, place, Shards
<1>2. CASE NewConn
  <2>1. i \in Shards /\ n' = n /\ Shards' = Shards
    BY <1>2 DEF NewConn, place, Shards
  <2> QED
  BY <1>2, <2>1, CallsAssumption DEF NewConn, Return, place
<1>3. CASE NewConnFail
  BY <1>3, CallsAssumption DEF NewConnFail, Return, place, Shards
<1>4. CASE BeginKey
  <2>1. PICK k \in Keys : arg' = <<k>> /\ (op' # "none" => InRange(k))
    BY <1>4, BeginKeyFacts
  <2>2. arg' \in Seq(Keys) /\ arg'[1] = k
    BY <2>1
  <2>3. Started /\ todo' = {} /\ last' \in KeyOps /\ (op' = last' \/ op' = "none")
    BY <1>4, BeginKeyFacts
  <2> QED
    BY <2>1, <2>2, <2>3 DEF Started, InRange
<1>5. CASE KeyCommand
  BY <1>5, Zenon DEF KeyCommand, KeyShard, InRange, Return, Apply, place, Shards
<1>6. CASE KeyCommandFail
  <2>1. arg[1] \in Keys
    BY <1>6 DEF KeyCommandFail
  <2>2. db' \in [Shards -> SUBSET Keys]
    BY <1>6, <2>1 DEF KeyCommandFail, KeyShard, Apply
  <2> QED
    BY <1>6, <2>2 DEF KeyCommandFail, Return, place, Shards
<1>7. CASE BeginMDel
  BY <1>7, BeginMDelFacts DEF Started
<1>8. CASE MDelReturn
  BY <1>8 DEF MDelReturn, Return, place, Shards
<1>9. ASSUME NEW s \in Shards, ShardMDel(s) PROVE CallTypes'
  BY <1>9 DEF ShardMDel, place, Shards
<1>10. ASSUME NEW s \in Shards, ShardMDelFail(s) PROVE CallTypes'
  BY <1>10, Zenon DEF ShardMDelFail, Return, place, Shards
<1>11. CASE BeginAll
  <2>1. Started /\ todo' = {} /\ arg' \in Seq(Keys) /\ op' = last'
    BY <1>11, BeginAllFacts
  <2>2. last' \in BoolOps \cup {"Inspect", "Close"}
    BY <1>11, BeginAllFacts
  <2> QED
    BY <2>1, <2>2 DEF Started
<1>12. ASSUME NEW answer \in BOOLEAN, BoolShard(answer) PROVE CallTypes'
  BY <1>12 DEF BoolShard, place, Shards
<1>13. CASE InspectShard
  BY <1>13 DEF InspectShard, place, Shards
<1>14. CASE ShardFail
  BY <1>14, Zenon DEF ShardFail, Return, place, Shards
<1>15. CASE AllReturn
  BY <1>15 DEF AllReturn, Return, place, Shards
<1>16. CASE CloseShard
  <2>1. i \in Shards /\ n' = n /\ Shards' = Shards
    BY <1>16 DEF CloseShard, place, Shards
  <2> QED
    BY <1>16, <2>1, CallsAssumption DEF CloseShard, Return, place
<1>17. CASE Finished \/ UNCHANGED vars
  BY <1>17, Zenon DEF Finished, vars, place, Shards, InRange
<1> QED
  BY <1>1, <1>2, <1>3, <1>4, <1>5, <1>6, <1>7, <1>8, <1>9, <1>10, <1>11, Zenon,
     <1>12, <1>13, <1>14, <1>15, <1>16, <1>17 DEF Next

-----------------------------------------------------------------------------
\* No step of the client moves a key to a shard its name is not routed to.
LEMMA RoutedKept == CallTypes /\ Routed /\ [Next]_vars => Routed'
<1> SUFFICES ASSUME CallTypes, Routed, [Next]_vars PROVE Routed'
  OBVIOUS
<1>1. ASSUME n' = n, route' = route,
             \A s \in Shards : \A k \in db'[s] : k \in db[s] \/ route[k] = s
      PROVE  Routed'
  BY <1>1 DEF Routed, Shards
<1>2. CASE BeginKey \/ BeginMDel \/ BeginAll
  <2>1. Started
    BY <1>2, BeginKeyFacts, BeginMDelFacts, BeginAllFacts, Zenon
  <2> QED
    BY <1>1, <2>1 DEF Started
<1>3. CASE KeyCommand \/ KeyCommandFail
  <2>1. arg[1] \in Keys /\ route[arg[1]] \in Shards
    BY <1>3, Zenon DEF KeyCommand, KeyCommandFail, CallTypes, InRange
  <2>2. db' \in {db, [db EXCEPT ![route[arg[1]]] = Apply(op, {arg[1]}, @)]}
    BY <1>3 DEF KeyCommand, KeyCommandFail, KeyShard
  <2>3. \A s \in Shards : db'[s] = db[s] \/ (s = route[arg[1]] /\
                            db'[s] = Apply(op, {arg[1]}, db[s]))
    BY <2>1, <2>2 DEF CallTypes
  <2>4. \A keys : Apply(op, {arg[1]}, keys) \subseteq keys \cup {arg[1]}
    BY DEF Apply
  <2>5. \A s \in Shards : \A k \in db'[s] : k \in db[s] \/ route[k] = s
    BY <2>3, <2>4, Zenon
  <2> QED
    BY <1>1, <1>3, <2>5, Zenon DEF KeyCommand, KeyCommandFail, place
<1>4. ASSUME NEW s \in Shards, ShardMDel(s) \/ ShardMDelFail(s) PROVE Routed'
  <2>1. db' \in {db, [db EXCEPT ![s] = @ \ Range(KeysOf(s))]}
    BY <1>4 DEF ShardMDel, ShardMDelFail
  <2>2. \A t \in Shards : \A k \in db'[t] : k \in db[t]
    BY <2>1, Zenon DEF CallTypes
  <2> QED
    BY <1>1, <1>4, <2>2 DEF ShardMDel, ShardMDelFail, place
<1>5. ASSUME NEW answer \in BOOLEAN, BoolShard(answer) PROVE Routed'
  <2>1. \A t \in Shards : \A k \in db'[t] : k \in db[t]
    BY <1>5 DEF BoolShard, CallTypes
  <2> QED
    BY <1>1, <1>5, <2>1 DEF BoolShard, place
<1>6. CASE ShardFail
  <2>1. \A t \in Shards : \A k \in db'[t] : k \in db[t]
    BY <1>6 DEF ShardFail, CallTypes
  <2> QED
    BY <1>1, <1>6, <2>1 DEF ShardFail, place
<1>7. CASE \/ NewRefused \/ NewConn \/ NewConnFail \/ MDelReturn
           \/ InspectShard \/ AllReturn \/ CloseShard \/ Finished
           \/ UNCHANGED vars
  <2>1. n' = n /\ route' = route /\ db' = db
    BY <1>7 DEF NewRefused, NewConn, NewConnFail, MDelReturn, InspectShard,
                AllReturn, CloseShard, Finished, vars, place
  <2> QED
    BY <1>1, <2>1, Zenon
<1> QED
  BY <1>2, <1>3, <1>4, <1>5, <1>6, <1>7 DEF Next

-----------------------------------------------------------------------------
\* The connections are those of the place the loops have reached.
LEMMA ConnsKept == CallTypes /\ ConnsAt /\ [Next]_vars => ConnsAt'
<1> SUFFICES ASSUME CallTypes, ConnsAt, [Next]_vars PROVE ConnsAt'
  OBVIOUS
<1> USE CallsAssumption
<1>1. CASE NewRefused
  <2>1. /\ op' = "none" /\ outcome' = "error" /\ last' = "New"
        /\ Shards' = Shards /\ conns' = [s \in Shards |-> 0]
    BY <1>1, Zenon DEF NewRefused, Return, place, Shards, CallTypes
  <2> QED
    BY <2>1 DEF ConnsAt, NoneLeftOpen, Returned
<1>2. CASE NewConn
  <2>1. /\ op = "New" /\ last = "New" /\ last' = last /\ i \in Shards
        /\ Shards' = Shards /\ n' = n
        /\ conns' = [conns EXCEPT ![i] = @ + 1]
        /\ i' = IF conns'[i] = PoolSize THEN i + 1 ELSE i
        /\ IF i' = n THEN op' = "none" /\ outcome' = "ok"
                     ELSE UNCHANGED <<op, outcome>>
    BY <1>2 DEF NewConn, Return, place, Shards, CallTypes
  <2>a. /\ conns[i] \in Nat /\ conns[i] < PoolSize /\ conns'[i] = conns[i] + 1
        /\ \A s \in Shards : s # i => conns'[s] = conns[s]
    BY <2>1 DEF ConnsAt, CallTypes
  <2>2. \A s \in Shards : /\ s < i' => conns'[s] = PoolSize
                          /\ s = i' => conns'[s] < PoolSize
                          /\ s > i' => conns'[s] = 0
    <3> SUFFICES ASSUME NEW s \in Shards
                 PROVE  /\ s < i' => conns'[s] = PoolSize
                        /\ s = i' => conns'[s] < PoolSize
                        /\ s > i' => conns'[s] = 0
      OBVIOUS
    <3>0. s \in Nat /\ i \in Nat
      BY DEF CallTypes, Shards
    <3>1. /\ s < i => conns[s] = PoolSize
          /\ s = i => conns[s] < PoolSize
          /\ s > i => conns[s] = 0
      BY <2>1 DEF ConnsAt
    <3>2. CASE conns'[i] = PoolSize
      <4>1. i' = i + 1
        BY <2>1, <3>2
      <4> QED
        BY <2>a, <3>0, <3>1, <3>2, <4>1, SMTT(30)
    <3>3. CASE conns'[i] # PoolSize
      <4>1. i' = i
        BY <2>1, <3>3, Zenon
      <4> QED
        BY <2>a, <3>0, <3>1, <3>3, <4>1, SMTT(30)
    <3> QED
      BY <3>2, <3>3
  <2>3. i' = n => \A s \in Shards : conns'[s] = PoolSize
    BY <2>1, <2>2, SMTT(30) DEF Shards, CallTypes
  <2> QED
    BY <2>1, <2>2, <2>3, Zenon DEF ConnsAt, NoneLeftOpen, Returned
<1>3. CASE NewConnFail
  <2>1. /\ op = "New" /\ last' = "New" /\ Shards' = Shards /\ i' = i
        /\ conns' = [s \in Shards |-> IF s < i THEN 0 ELSE conns[s]]
        /\ op' = "none" /\ outcome' = "error"
    BY <1>3 DEF NewConnFail, Return, place, Shards, CallTypes
  <2>a. \A s \in Shards : /\ s = i => conns[s] < PoolSize
                          /\ s > i => conns[s] = 0
    BY <2>1 DEF ConnsAt
  <2>b. \A s \in Shards : s < i \/ s = i \/ s > i
    BY DEF CallTypes, Shards
  <2>2. \A s \in Shards : conns'[s] > 0 => s = i' /\ conns'[s] < PoolSize
    BY <2>1, <2>a, <2>b, SMTT(30)
  <2> QED
    BY <2>1, <2>2 DEF ConnsAt, NoneLeftOpen, Returned
<1>4. CASE BeginKey \/ BeginMDel \/ BeginAll
  <2>1. Started
    BY <1>4, BeginKeyFacts, BeginMDelFacts, BeginAllFacts, Zenon
  <2>2. /\ last' # "New" /\ op' # "New"
        /\ op' = "none" => last' \notin {"New", "Close"}
    BY <1>4, BeginKeyFacts, BeginMDelFacts, BeginAllFacts, Zenon DEF KeyOps, BoolOps
  <2>3. \A s \in Shards : conns'[s] = PoolSize /\ ~(s < i')
    BY <2>1 DEF Started, Shards, CallTypes
  <2> QED
    BY <2>1, <2>2, <2>3 DEF Started, ConnsAt, NoneLeftOpen, Returned
<1>5. CASE CloseShard
  <2>1. /\ op = "Close" /\ last' = "Close" /\ last = "Close" /\ i \in Shards
        /\ Shards' = Shards /\ n' = n /\ i' = i + 1
        /\ conns' = [conns EXCEPT ![i] = 0]
        /\ IF i' = n THEN op' = "none" /\ outcome' = "ok"
                     ELSE UNCHANGED <<op, outcome>>
    BY <1>5 DEF CloseShard, Return, place, Shards, CallTypes
  <2>2. \A s \in Shards : conns'[s] = IF s < i' THEN 0 ELSE PoolSize
    BY <2>1, SMTT(30) DEF ConnsAt, CallTypes, Shards
  <2>a. \A s \in Shards : s < n
    BY DEF Shards, CallTypes
  <2>3. i' = n => \A s \in Shards : conns'[s] = 0
    BY <2>2, <2>a
  <2> QED
    BY <2>1, <2>2, <2>3 DEF ConnsAt, NoneLeftOpen, Returned
<1>6. ASSUME last \notin {"New", "Close"}, last' = last,
             n' = n, conns' = conns, op' \in {"none", op}
      PROVE  ConnsAt'
  <2>1. \A s \in Shards : conns[s] = PoolSize
    BY <1>6 DEF ConnsAt
  <2>2. Shards' = Shards
    BY <1>6 DEF Shards
  <2>3. op' \notin {"New", "Close"}
    BY <1>6 DEF CallTypes
  <2> QED
    BY <1>6, <2>1, <2>2, <2>3 DEF ConnsAt, NoneLeftOpen, Returned
<1>7. CASE \/ KeyCommand \/ KeyCommandFail \/ MDelReturn
           \/ \E s \in Shards : ShardMDel(s) \/ ShardMDelFail(s)
           \/ \E answer \in BOOLEAN : BoolShard(answer)
           \/ InspectShard \/ ShardFail \/ AllReturn
  <2>1. /\ op \in KeyOps \cup BoolOps \cup {"MDel", "Inspect"}
        /\ last' = last /\ n' = n /\ conns' = conns /\ op' \in {"none", op}
    BY <1>7 DEF KeyCommand, KeyCommandFail, MDelReturn, ShardMDel, ShardMDelFail,
                BoolShard, InspectShard, ShardFail, AllReturn, Return, place
  <2>2. last \notin {"New", "Close"}
    BY <2>1, Zenon DEF CallTypes, KeyOps, BoolOps
  <2> QED
    BY <1>6, <2>1, <2>2, Zenon
<1>8. CASE Finished \/ UNCHANGED vars
  BY <1>8 DEF Finished, vars, place, ConnsAt, NoneLeftOpen, Returned, Shards
<1> QED
  BY <1>1, <1>2, <1>3, <1>4, <1>5, <1>7, <1>8, Zenon DEF Next

-----------------------------------------------------------------------------
\* A key is stored exactly if the shard its name is routed to has it.
LEMMA StoredWhere ==
  CallTypes /\ Routed =>
    \A k : k \in Stored <=> k \in Keys /\ InRange(k) /\ k \in db[route[k]]
BY DEF CallTypes, Routed, Stored, InRange

LEMMA StoredWhereNext ==
  (CallTypes /\ Routed)' =>
    (\A k : k \in Stored <=> k \in Keys /\ InRange(k) /\ k \in db[route[k]])'
BY StoredWhere, PTL

\* A command on one key acts on all shards together as on one set of keys.
LEMMA KeyKept == CallTypes /\ Routed /\ KeyAt /\ [Next]_vars => KeyAt'
<1> SUFFICES ASSUME CallTypes, Routed, KeyAt, [Next]_vars PROVE KeyAt'
  OBVIOUS
<1>0. Routed' /\ CallTypes'
  BY RoutedKept, TypesKept, Zenon
<1>1. ASSUME op' \in KeyOps => Stored' = db0',
             ~(op' = "none" /\ last' \in KeyOps /\ outcome' = "ok")
      PROVE  KeyAt'
  BY <1>0, <1>1 DEF KeyAt, OneDatabase, Routed
<1>2. CASE BeginKey \/ BeginMDel \/ BeginAll
  <2>1. Started
    BY <1>2, BeginKeyFacts, BeginMDelFacts, BeginAllFacts, Zenon
  <2>2. op' = "none" /\ last' \in KeyOps => outcome' = "range"
    <3>1. CASE BeginKey
      BY <3>1, BeginKeyFacts DEF KeyOps
    <3>2. CASE BeginMDel
      BY <3>2, BeginMDelFacts DEF KeyOps
    <3>3. CASE BeginAll
      BY <3>3, BeginAllFacts DEF KeyOps, BoolOps
    <3> QED
      BY <1>2, <3>1, <3>2, <3>3
  <2> QED
    BY <1>1, <2>1, <2>2 DEF Started
<1>3. CASE KeyCommand
  <2> DEFINE k == arg[1]
             s == route[k]
  <2>1. /\ op \in KeyOps /\ last = op /\ last' = op /\ op' = "none"
        /\ k \in Keys /\ s \in Shards /\ arg' = arg /\ db0' = db0
        /\ n' = n /\ route' = route /\ Stored = db0 /\ resent' \in BOOLEAN
        /\ db' = [db EXCEPT ![s] = Apply(op, {k}, db[s])]
        /\ acc'[1] = IF op = "Del" THEN k \in db[s] /\ ~resent'
                                   ELSE k \in Apply(op, {k}, db[s])
    BY <1>3 DEF KeyCommand, KeyShard, CallTypes, KeyAt, KeyOps, InRange, Return,
                place
  <2> HIDE DEF k, s
  <2>2. \A x : x \in Stored' <=> x \in Keys /\ route[x] \in Shards
                                 /\ x \in db'[route[x]]
    BY <1>0, <2>1, StoredWhereNext, Zenon DEF InRange, Shards
  <2>3. \A x : x \in db0 <=> x \in Keys /\ route[x] \in Shards
                             /\ x \in db[route[x]]
    BY <2>1, StoredWhere DEF InRange
  <2>4. db \in [Shards -> SUBSET Keys] /\ route[k] = s
    BY DEF CallTypes, s
  <2>5. Stored' = Apply(op, {k}, db0)
    <3>1. CASE op = "Incr"
      <4>1. db' = [db EXCEPT ![s] = @ \cup {k}]
        BY <2>1, <2>4, <3>1, Zenon DEF Apply
      <4>a. \A x \in Keys : route[x] \in Shards =>
              (x \in db'[route[x]] <=> x \in db[route[x]] \/ x = k)
        <5> SUFFICES ASSUME NEW x \in Keys, route[x] \in Shards
                     PROVE  x \in db'[route[x]] <=> x \in db[route[x]] \/ x = k
          OBVIOUS
        <5>1. CASE route[x] = s
          <6>1. db'[route[x]] = db[route[x]] \cup {k}
            BY <2>1, <2>4, <4>1, <5>1, Zenon
          <6> QED
            BY <6>1
        <5>2. CASE route[x] # s
          <6>1. db'[route[x]] = db[route[x]] /\ x # k
            BY <2>1, <2>4, <4>1, <5>2
          <6> QED
            BY <6>1
        <5> QED
          BY <5>1, <5>2
      <4>2. Stored' = db0 \cup {k}
        BY <2>1, <2>2, <2>3, <2>4, <4>a, Zenon
      <4> QED
        BY <3>1, <4>2 DEF Apply
    <3>2. CASE op = "Get"
      <4>1. db' = db
        BY <2>1, <2>4, <3>2, Zenon DEF Apply
      <4>2. Stored' = db0
        BY <2>2, <2>3, <4>1
      <4> QED
        BY <3>2, <4>2 DEF Apply
    <3>3. CASE op = "Del"
      <4>1. db' = [db EXCEPT ![s] = @ \ {k}]
        BY <2>1, <2>4, <3>3, Zenon DEF Apply
      <4>a. \A x \in Keys : route[x] \in Shards =>
              (x \in db'[route[x]] <=> x \in db[route[x]] /\ x # k)
        <5> SUFFICES ASSUME NEW x \in Keys, route[x] \in Shards
                     PROVE  x \in db'[route[x]] <=> x \in db[route[x]] /\ x # k
          OBVIOUS
        <5>1. CASE route[x] = s
          <6>1. db'[route[x]] = db[route[x]] \ {k}
            BY <2>1, <2>4, <4>1, <5>1, Zenon
          <6> QED
            BY <6>1
        <5>2. CASE route[x] # s
          <6>1. db'[route[x]] = db[route[x]] /\ x # k
            BY <2>1, <2>4, <4>1, <5>2, Zenon
          <6> QED
            BY <6>1
        <5> QED
          BY <5>1, <5>2, Zenon
      <4>2. Stored' = db0 \ {k}
        BY <2>1, <2>2, <2>3, <2>4, <4>a, Zenon
      <4> QED
        BY <3>3, <4>2 DEF Apply
    <3> QED
      BY <2>1, <3>1, <3>2, <3>3 DEF KeyOps
  <2>a. k \in db0 <=> k \in db[s]
    BY <2>1, <2>3, <2>4
  <2>b. op = "Incr" => acc'[1]
    BY <2>1, Zenon DEF Apply
  <2>c. op = "Get" => acc'[1] = (k \in db0)
    BY <2>1, <2>a, SMTT(30) DEF Apply
  <2>d. op = "Del" => acc'[1] = (k \in db0 /\ ~resent')
    BY <2>1, <2>a
  <2>6. /\ op = "Incr" => acc'[1]
        /\ op = "Get" => acc'[1] = (k \in db0)
        /\ op = "Del" => acc'[1] = (k \in db0 /\ ~resent')
    BY <2>b, <2>c, <2>d, Zenon
  <2> QED
    BY <1>0, <2>1, <2>5, <2>6, Zenon DEF KeyAt, OneDatabase, Routed, KeyOps, k
<1>4. CASE KeyCommandFail
  BY <1>1, <1>4 DEF KeyCommandFail, Return, KeyOps
<1>5. CASE \/ NewRefused \/ NewConn \/ NewConnFail \/ MDelReturn
           \/ \E s \in Shards : ShardMDel(s) \/ ShardMDelFail(s)
           \/ \E answer \in BOOLEAN : BoolShard(answer)
           \/ InspectShard \/ ShardFail \/ AllReturn \/ CloseShard
  <2>1. /\ op \in {"New", "MDel", "Inspect", "Close"} \cup BoolOps
        /\ last' = last /\ op' \in {"none", op}
    BY <1>5, Zenon DEF NewRefused, NewConn, NewConnFail, MDelReturn, ShardMDel,
                ShardMDelFail, BoolShard, InspectShard, ShardFail, AllReturn,
                CloseShard, Return
  <2>2. op' \notin KeyOps /\ last' \notin KeyOps
    BY <2>1, Zenon DEF CallTypes, KeyOps, BoolOps
  <2> QED
    BY <1>1, <2>2, Zenon
<1>6. CASE Finished \/ UNCHANGED vars
  <2>1. /\ op' = op /\ last' = last /\ outcome' = outcome /\ Stored' = Stored
        /\ db0' = db0 /\ arg' = arg /\ acc' = acc /\ resent' = resent
    BY <1>6 DEF Finished, vars, place, history, Stored, Shards
  <2> QED
    BY <1>0, <2>1, Zenon DEF KeyAt, OneDatabase, Routed
<1> QED
  BY <1>2, <1>3, <1>4, <1>5, <1>6 DEF Next

-----------------------------------------------------------------------------
\* The loops over all shards have asked exactly the shards before i.
LEMMA LoopKept == CallTypes /\ Routed /\ LoopAt /\ [Next]_vars => LoopAt'
<1> SUFFICES ASSUME CallTypes, Routed, LoopAt, [Next]_vars PROVE LoopAt'
  OBVIOUS
<1>0. Routed' /\ CallTypes' /\ n \in Nat /\ i \in Nat
  BY RoutedKept, TypesKept, Zenon DEF CallTypes
<1>1. ASSUME last' \notin BoolOps \cup {"Inspect"} PROVE LoopAt'
  BY <1>0, <1>1, Zenon DEF LoopAt, AllShardsAnswer, Returned, CallTypes, BoolOps
<1>2. CASE BeginKey \/ BeginMDel
  <2>1. CASE BeginKey
    BY <1>1, <2>1, BeginKeyFacts, Zenon DEF KeyOps, BoolOps
  <2>2. CASE BeginMDel
    BY <1>1, <2>2, BeginMDelFacts, Zenon DEF BoolOps
  <2> QED
    BY <1>2, <2>1, <2>2
<1>3. CASE BeginAll
  <2>1. /\ Started /\ op' # "none"
        /\ op' \in BoolOps => acc' = <<TRUE>>
        /\ op' = "Inspect" => acc' = [s \in Shards |-> -1]
    BY <1>3, BeginAllFacts, Zenon DEF BoolOps
  <2>2. i' = 0 /\ n' = n /\ Shards' = Shards /\ db0' = Stored'
        /\ done' = {} /\ noes' = {}
    BY <2>1 DEF Started
  <2>3. \A s \in Shards : ~(s < 0)
    BY <1>0 DEF Shards
  <2>4. done' = 0..(i' - 1)
    BY <2>2
  <2>5. ASSUME op' \in BoolOps PROVE acc' = <<noes' = {}>>
    <3>1. (noes' = {}) = TRUE
      BY <2>2
    <3> QED
      BY <2>1, <2>5, <3>1, Zenon
  <2>6. op' = "Inspect" => acc' \in [Shards' -> Int]
    BY <2>1, <2>2, SMTT(30)
  <2>7. AllShardsAnswer'
    BY <2>1 DEF AllShardsAnswer, Returned
  <2>8. Stored' \subseteq Keys
    BY <2>1, StoredWhere, Zenon DEF Started
  <2> QED
    BY <1>0, <2>2, <2>3, <2>4, <2>5, <2>6, <2>7, <2>8, SMTT(30) DEF LoopAt
<1>4. ASSUME NEW answer \in BOOLEAN, BoolShard(answer) PROVE LoopAt'
  <2>1. /\ op \in BoolOps /\ op' = op /\ i < n /\ n' = n /\ i' = i + 1
        /\ acc' = <<acc[1] /\ answer>> /\ done' = done \cup {i}
        /\ noes' = IF answer THEN noes ELSE noes \cup {i}
        /\ db' = IF answer THEN [db EXCEPT ![i] = {}] ELSE db
        /\ route' = route /\ db0' = db0 /\ op' # "none" /\ op' # "Inspect"
        /\ Shards' = Shards /\ i \in Shards
    BY <1>0, <1>4, SMTT(30) DEF BoolShard, place, BoolOps, Shards
  <2>2. /\ done = 0..(i - 1) /\ acc = <<noes = {}>> /\ db0 \subseteq Keys
        /\ noes = {} => \A s \in Shards : s < i => db[s] = {}
        /\ \A k \in db0 : route[k] >= i => k \in Stored
    BY <2>1, Zenon DEF LoopAt
  <2>3. done' = 0..(i' - 1) /\ i' <= n'
    BY <1>0, <2>1, <2>2
  <2>4. acc' = <<noes' = {}>>
    <3>1. (noes = {} /\ answer) = (noes' = {})
      BY <2>1
    <3>2. acc[1] = (noes = {})
      BY <2>2, Zenon
    <3> QED
      BY <2>1, <3>1, <3>2, Zenon
  <2>5. ASSUME noes' = {}, NEW s \in Shards, s < i' PROVE db'[s] = {}
    <3>1. answer /\ noes = {} /\ db' = [db EXCEPT ![i] = {}]
      BY <2>1, <2>5, Zenon
    <3>2. s < i \/ s = i
      BY <1>0, <2>1, <2>5, SMTT(30) DEF Shards
    <3>3. db[s] = {} \/ s = i
      BY <2>2, <3>1, <3>2
    <3> QED
      BY <2>1, <3>1, <3>3, Zenon DEF CallTypes
  <2>6. ASSUME NEW k \in db0, route[k] >= i' PROVE k \in Stored'
    <3>1. k \in Stored
      <4>1. route[k] \in Int
        BY <2>2, Zenon DEF CallTypes
      <4> QED
        BY <1>0, <2>1, <2>2, <2>6, <4>1, SMTT(30)
    <3>2. k \in Keys /\ route[k] \in Shards /\ k \in db[route[k]]
      BY <3>1, StoredWhere, Zenon DEF InRange
    <3>3. route[k] # i
      BY <1>0, <2>1, <2>6, <3>2, SMTT(30) DEF Shards
    <3>4. db'[route[k]] = db[route[k]]
      BY <2>1, <3>2, <3>3, Zenon DEF CallTypes
    <3> QED
      BY <1>0, <2>1, <3>2, <3>4, StoredWhereNext, Zenon DEF InRange
  <2>7. AllShardsAnswer'
    BY <2>1 DEF AllShardsAnswer, Returned
  <2> QED
    BY <2>1, <2>2, <2>3, <2>4, <2>5, <2>6, <2>7, Zenon DEF LoopAt
<1>5. CASE InspectShard
  <2>1. /\ op = "Inspect" /\ op' = op /\ i < n /\ n' = n /\ i' = i + 1
        /\ acc' = [acc EXCEPT ![i] = i] /\ acc \in [Shards -> Int]
        /\ \A s \in Shards : s < i => acc[s] = s
        /\ Shards' = Shards
    BY <1>5 DEF InspectShard, place, LoopAt, Shards
  <2>2. acc' \in [Shards -> Int] /\ i' <= n
    <3>1. i \in Int /\ i + 1 <= n
      BY <1>0, <2>1
    <3> QED
      BY <2>1, <3>1, Zenon
  <2>3. ASSUME NEW s \in Shards, s < i' PROVE acc'[s] = s
    <3>1. s < i \/ s = i
      BY <1>0, <2>1, <2>3, SMTT(30) DEF Shards
    <3> QED
      BY <2>1, <3>1
  <2>4. AllShardsAnswer'
    BY <2>1, Zenon DEF AllShardsAnswer, Returned
  <2> QED
    BY <2>1, <2>2, <2>3, <2>4, Zenon DEF LoopAt, BoolOps
<1>6. CASE ShardFail
  <2>1. /\ op \in BoolOps \cup {"Inspect"} /\ op' = "none" /\ outcome' = "error"
        /\ last' = last /\ i' = i /\ n' = n /\ route' = route /\ db0' = db0
        /\ done' \in {done, done \cup {i}} /\ Shards' = Shards
        /\ db' \in {db, [db EXCEPT ![i] = {}]}
    BY <1>6, Zenon DEF ShardFail, Return, place, Shards
  <2>2. ASSUME last \in BoolOps
        PROVE  /\ 0..(i' - 1) \subseteq done' /\ done' \subseteq 0..i'
               /\ \A k \in db0' : route'[k] > i' => k \in Stored'
    <3>1. /\ done = 0..(i - 1) /\ db0 \subseteq Keys
          /\ \A k \in db0 : route[k] >= i => k \in Stored
      BY <2>1, <2>2, Zenon DEF LoopAt, CallTypes, BoolOps
    <3>2. 0..(i' - 1) \subseteq done' /\ done' \subseteq 0..i'
      BY <1>0, <2>1, <3>1
    <3>3. ASSUME NEW k \in db0, route[k] > i PROVE k \in Stored'
      <4>0. route[k] >= i
        BY <1>0, <3>1, <3>3 DEF CallTypes
      <4>1. k \in Stored
        BY <3>1, <4>0, Zenon
      <4>2. k \in Keys /\ route[k] \in Shards /\ k \in db[route[k]]
        BY <4>1, StoredWhere DEF InRange
      <4>3. route[k] # i
        BY <1>0, <3>3, <4>2 DEF Shards
      <4>4. db'[route[k]] = db[route[k]]
        BY <2>1, <4>2, <4>3, Zenon DEF CallTypes
      <4> QED
        BY <1>0, <2>1, <4>2, <4>4, StoredWhereNext, Zenon DEF InRange
    <3> QED
      BY <2>1, <3>2, <3>3, Zenon
  <2> QED
    BY <2>1, <2>2, Zenon DEF LoopAt, AllShardsAnswer, Returned, BoolOps
<1>7. CASE AllReturn
  <2>1. /\ op \in BoolOps \cup {"Inspect"} /\ i = n /\ op' = "none"
        /\ outcome' = "ok" /\ last = op /\ last' = last /\ n' = n
        /\ done' = done /\ noes' = noes /\ acc' = acc
        /\ Shards' = Shards /\ Stored' = Stored
    BY <1>7 DEF AllReturn, Return, place, history, Shards, Stored, CallTypes,
                BoolOps
  <2>2. \A s \in Shards : s < n
    BY <1>0 DEF Shards
  <2>3. ASSUME op \in BoolOps
        PROVE  /\ done = Shards /\ acc = <<noes = {}>>
               /\ acc[1] => Stored = {}
    <3>1. /\ done = Shards /\ acc = <<noes = {}>>
          /\ noes = {} => \A s \in Shards : db[s] = {}
      BY <2>1, <2>2, <2>3 DEF LoopAt, Shards
    <3>2. acc[1] = (noes = {})
      BY <3>1
    <3>3. noes = {} => Stored = {}
      BY <3>1 DEF Stored
    <3> QED
      BY <3>1, <3>2, <3>3, Zenon
  <2>4. ASSUME op = "Inspect" PROVE acc = [s \in Shards |-> s]
    <3>1. acc \in [Shards -> Int] /\ \A s \in Shards : acc[s] = s
      BY <2>1, <2>2, <2>4 DEF LoopAt
    <3> QED
      BY <3>1, Zenon
  <2> QED
    BY <2>1, <2>3, <2>4, Zenon DEF LoopAt, AllShardsAnswer, Returned, BoolOps
<1>8. CASE \/ NewRefused \/ NewConn \/ NewConnFail \/ MDelReturn \/ CloseShard
           \/ KeyCommand \/ KeyCommandFail
           \/ \E s \in Shards : ShardMDel(s) \/ ShardMDelFail(s)
  <2>1. op \in {"New", "MDel", "Close"} \cup KeyOps
    BY <1>8, Zenon DEF NewRefused, NewConn, NewConnFail, MDelReturn, CloseShard,
                KeyCommand, KeyCommandFail, ShardMDel, ShardMDelFail
  <2>2. last' = last
    BY <1>8, Zenon DEF NewRefused, NewConn, NewConnFail, MDelReturn, CloseShard,
                KeyCommand, KeyCommandFail, ShardMDel, ShardMDelFail
  <2>3. op # "none" => last = op
    BY DEF CallTypes
  <2>4. last' \notin BoolOps \cup {"Inspect"}
    BY <2>1, <2>2, <2>3, Zenon DEF KeyOps, BoolOps
  <2> QED
    BY <1>1, <2>4, Zenon
<1>9. CASE Finished \/ UNCHANGED vars
  <2>1. /\ op' = op /\ last' = last /\ outcome' = outcome /\ Stored' = Stored
        /\ i' = i /\ done' = done /\ noes' = noes /\ acc' = acc /\ db0' = db0
        /\ n' = n /\ db' = db /\ route' = route /\ Shards' = Shards
    BY <1>9, Zenon DEF Finished, vars, place, history, Stored, Shards
  <2> QED
    BY <2>1, Zenon DEF LoopAt, AllShardsAnswer, Returned
<1> QED
  BY <1>2, <1>3, <1>4, <1>5, <1>6, <1>7, <1>8, <1>9, Zenon DEF Next

-----------------------------------------------------------------------------
(***************************************************************************)
(* MDel groups the indexes of its keys by shard, in order.                 *)
(***************************************************************************)
\* The places of a group's indexes are 1, 2, ..., in the order of the indexes.
LEMMA PlacesInOrder ==
  ASSUME CallTypes, NEW s \in Shards
  PROVE  /\ Cardinality(grouped(s)) \in Nat
         /\ \A m \in grouped(s) : PlaceOf(m) \in 1..Cardinality(grouped(s))
         /\ \A l, m \in grouped(s) : l < m => PlaceOf(l) < PlaceOf(m)
         /\ \A q \in 1..Cardinality(grouped(s)) :
              \E m \in grouped(s) : PlaceOf(m) = q
<1> DEFINE G == grouped(s)
           U(m) == {j \in G : j <= m}
           C == Cardinality(G)
<1>1. Len(arg) \in Nat /\ G \subseteq 1..Len(arg)
  BY DEF CallTypes, grouped
<1>2. IsFiniteSet(G) /\ C \in Nat
  <2>1. IsFiniteSet(1..Len(arg))
    BY <1>1, FS_Interval
  <2>2. IsFiniteSet(G)
    BY <1>1, <2>1, FS_Subset, Zenon
  <2> QED
    BY <2>2, FS_CardinalityType
<1>3. \A m \in G : PlaceOf(m) = Cardinality(U(m))
  <2> SUFFICES ASSUME NEW m \in G PROVE PlaceOf(m) = Cardinality(U(m))
    OBVIOUS
  <2>1. {j \in 1..m : route[arg[j]] = route[arg[m]]} = U(m)
    BY <1>1 DEF grouped
  <2> QED
    BY <2>1 DEF PlaceOf
<1>4. \A m \in G : /\ IsFiniteSet(U(m)) /\ Cardinality(U(m)) \in Nat
                   /\ Cardinality(U(m)) <= C /\ Cardinality(U(m)) # 0
  <2> SUFFICES ASSUME NEW m \in G
               PROVE  /\ IsFiniteSet(U(m)) /\ Cardinality(U(m)) \in Nat
                      /\ Cardinality(U(m)) <= C /\ Cardinality(U(m)) # 0
    OBVIOUS
  <2>1. U(m) \in SUBSET G /\ m \in U(m)
    BY <1>1
  <2>2. IsFiniteSet(U(m)) /\ Cardinality(U(m)) <= C
    BY <1>2, <2>1, FS_Subset
  <2>3. Cardinality(U(m)) \in Nat
    BY <2>2, FS_CardinalityType
  <2>4. Cardinality(U(m)) # 0
    BY <2>1, <2>2, FS_EmptySet, Zenon
  <2> QED
    BY <2>2, <2>3, <2>4, Zenon
<1>5. \A l, m \in G : l < m => Cardinality(U(l)) < Cardinality(U(m))
  <2> SUFFICES ASSUME NEW l \in G, NEW m \in G, l < m
               PROVE  Cardinality(U(l)) < Cardinality(U(m))
    OBVIOUS
  <2>1. U(l) \in SUBSET U(m)
    BY <1>1
  <2>2. m \in U(m) /\ m \notin U(l)
    BY <1>1
  <2>3. Cardinality(U(l)) <= Cardinality(U(m))
    BY <1>4, <2>1, FS_Subset, Zenon
  <2>4. Cardinality(U(l)) # Cardinality(U(m))
    BY <1>4, <2>1, <2>2, FS_Subset, Zenon
  <2> QED
    BY <1>4, <2>3, <2>4, SMTT(30)
<1>a. \A c \in Nat : c # 0 /\ c <= C => c \in 1..C
  BY <1>2
<1>6. \A m \in G : PlaceOf(m) \in 1..C
  BY <1>3, <1>4, <1>a, Zenon
<1>7. \A l, m \in G : l < m => PlaceOf(l) < PlaceOf(m)
  BY <1>3, <1>5, Zenon
<1> DEFINE f == [m \in G |-> PlaceOf(m)]
<1>8. f \in Injection(G, 1..C)
  <2>1. f \in [G -> 1..C]
    BY <1>6
  <2>2. ASSUME NEW l \in G, NEW m \in G, f[l] = f[m] PROVE l = m
    <3>1. PlaceOf(l) = PlaceOf(m) /\ PlaceOf(l) \in Nat /\ PlaceOf(m) \in Nat
      BY <1>2, <1>6, <2>2
    <3>2. ~(l < m) /\ ~(m < l)
      BY <1>7, <3>1
    <3> QED
      BY <1>1, <3>2
  <2> QED
    BY <2>1, <2>2 DEF Injection, IsInjective
<1>9. IsFiniteSet(1..C) /\ Cardinality(1..C) = C
  BY <1>2, FS_Interval, SMTT(30)
<1>10. f \in Surjection(G, 1..C)
  BY <1>8, <1>9, FS_Injection
<1>11. \A q \in 1..C : \E m \in G : f[m] = q
  BY <1>10, Zenon DEF Surjection
<1> QED
  BY <1>2, <1>6, <1>7, <1>11, Zenon

\* The keys sent to a shard are those of its group, each at its place.
LEMMA KeysInPlace ==
  ASSUME CallTypes, NEW s \in Shards
  PROVE  /\ Len(KeysOf(s)) = Cardinality(grouped(s))
         /\ \A m \in grouped(s) : KeysOf(s)[PlaceOf(m)] = arg[m]
         /\ \A q \in 1..Cardinality(grouped(s)) :
              \E m \in grouped(s) : PlaceOf(m) = q /\ KeysOf(s)[q] = arg[m]
         /\ Range(KeysOf(s)) = {arg[m] : m \in grouped(s)}
<1> DEFINE G == grouped(s)
           C == Cardinality(G)
           At(q) == CHOOSE m \in G : PlaceOf(m) = q
<1>0. G \subseteq Nat /\ \A m \in G : arg[m] \in Keys
  BY SMTT(30) DEF grouped, CallTypes
<1>1. /\ C \in Nat /\ \A m \in G : PlaceOf(m) \in 1..C
      /\ \A l, m \in G : l < m => PlaceOf(l) < PlaceOf(m)
      /\ \A q \in 1..C : \E m \in G : PlaceOf(m) = q
  BY PlacesInOrder
<1>2. KeysOf(s) = [q \in 1..C |-> arg[At(q)]]
  BY DEF KeysOf
<1>3. \A q \in 1..C : At(q) \in G /\ PlaceOf(At(q)) = q
  BY <1>1
<1>4. \A m \in G : At(PlaceOf(m)) = m
  <2> SUFFICES ASSUME NEW m \in G, NEW l \in G, PlaceOf(l) = PlaceOf(m)
               PROVE  l = m
    BY <1>1, <1>3, Zenon
  <2>1. PlaceOf(m) \in Nat /\ ~(l < m) /\ ~(m < l)
    BY <1>1, SMTT(30)
  <2> QED
    BY <1>0, <2>1, SMTT(30)
<1> HIDE DEF At
<1>5. KeysOf(s) \in Seq(Keys) /\ Len(KeysOf(s)) = C
  BY <1>0, <1>1, <1>2, <1>3, SMTT(30)
<1>6. \A m \in G : KeysOf(s)[PlaceOf(m)] = arg[m]
  BY <1>1, <1>2, <1>4, SMTT(30)
<1>7. \A q \in 1..C : \E m \in G : PlaceOf(m) = q /\ KeysOf(s)[q] = arg[m]
  BY <1>2, <1>3
<1>8. Range(KeysOf(s)) = {KeysOf(s)[q] : q \in 1..C}
  BY <1>2, Zenon DEF Range
<1>9. Range(KeysOf(s)) = {arg[m] : m \in G}
  BY <1>1, <1>6, <1>7, <1>8, SMTT(30)
<1> QED
  BY <1>5, <1>6, <1>7, <1>9, Zenon

\* What the shard answers at the place of index m is about the m-th key.
LEMMA AnswerInPlace ==
  ASSUME CallTypes, NEW s \in Shards, NEW keys, NEW m \in grouped(s)
  PROVE  Deleted(KeysOf(s), keys)[PlaceOf(m)] =
           (arg[m] \in keys /\ \A j \in 1..(m - 1) : arg[j] # arg[m])
<1> DEFINE G == grouped(s)
           C == Cardinality(G)
           p == PlaceOf(m)
<1>1. /\ C \in Nat /\ \A l \in G : PlaceOf(l) \in 1..C
      /\ \A l, k \in G : l < k => PlaceOf(l) < PlaceOf(k)
  BY PlacesInOrder, Zenon
<1>2. /\ Len(KeysOf(s)) = C
      /\ \A l \in G : KeysOf(s)[PlaceOf(l)] = arg[l]
      /\ \A q \in 1..C : \E l \in G : PlaceOf(l) = q /\ KeysOf(s)[q] = arg[l]
  BY KeysInPlace, Zenon
<1>3. G \subseteq 1..Len(arg) /\ Len(arg) \in Nat
  BY SMTT(30) DEF grouped, CallTypes
<1>4. p \in 1..C /\ KeysOf(s)[p] = arg[m]
  BY <1>1, <1>2, Zenon
<1>5. Deleted(KeysOf(s), keys)[p] =
        (arg[m] \in keys /\ \A j \in 1..(p - 1) : KeysOf(s)[j] # arg[m])
  BY <1>2, <1>4, Zenon DEF Deleted
<1>6. ASSUME NEW j \in 1..(m - 1), arg[j] = arg[m]
      PROVE  \E q \in 1..(p - 1) : KeysOf(s)[q] = arg[m]
  <2>1. j \in G /\ j < m
    BY <1>3, <1>6 DEF grouped
  <2>2. PlaceOf(j) \in 1..C /\ PlaceOf(j) < p /\ KeysOf(s)[PlaceOf(j)] = arg[m]
    BY <1>1, <1>2, <1>6, <2>1, Zenon
  <2>3. PlaceOf(j) \in 1..(p - 1)
    BY <1>1, <1>4, <2>2
  <2> QED
    BY <2>2, <2>3, Zenon
<1>7. ASSUME NEW q \in 1..(p - 1), KeysOf(s)[q] = arg[m]
      PROVE  \E j \in 1..(m - 1) : arg[j] = arg[m]
  <2>1. q \in 1..C /\ q < p
    BY <1>1, <1>4, SMTT(30)
  <2>2. PICK l \in G : PlaceOf(l) = q /\ KeysOf(s)[q] = arg[l]
    BY <1>2, <2>1, Zenon
  <2>3. ~(m < l) /\ l # m
    BY <1>1, <1>4, <2>1, <2>2
  <2>4. l \in 1..(m - 1)
    BY <1>3, <2>3, SMTT(30)
  <2> QED
    BY <1>7, <2>2, <2>4, Zenon
<1> QED
  BY <1>5, <1>6, <1>7

-----------------------------------------------------------------------------
\* A shard deletes the keys of its group: nothing else goes.
LEMMA GroupGone ==
  ASSUME CallTypes, Routed, Routed', CallTypes', n' = n, route' = route,
         NEW s \in Shards, db' \in {db, [db EXCEPT ![s] = @ \ Range(KeysOf(s))]}
  PROVE  Stored' \subseteq Stored /\ Stored \ Range(arg) \subseteq Stored'
<1>1. \A k : k \in Stored' <=> /\ k \in Keys /\ route[k] \in Shards
                               /\ k \in db'[route[k]]
  BY StoredWhereNext, Zenon DEF InRange, Shards
<1>2. \A k : k \in Stored <=> /\ k \in Keys /\ route[k] \in Shards
                              /\ k \in db[route[k]]
  BY StoredWhere DEF InRange
<1>3. Range(KeysOf(s)) \subseteq Range(arg)
  <2>1. Range(KeysOf(s)) = {arg[m] : m \in grouped(s)}
    BY KeysInPlace, Zenon
  <2>2. Range(arg) = {arg[m] : m \in 1..Len(arg)}
    BY SMTT(30) DEF Range, CallTypes
  <2> QED
    BY <2>1, <2>2, Zenon DEF grouped
<1>4. \A t \in Shards : db'[t] \subseteq db[t] /\ db[t] \ Range(arg) \subseteq db'[t]
  BY <1>3, Zenon DEF CallTypes
<1> QED
  BY <1>1, <1>2, <1>4

\* The steps of MDel keep what they have computed and delete what they must.
LEMMA MDelKept == CallTypes /\ Routed /\ MDelAt /\ [Next]_vars => MDelAt'
<1> SUFFICES ASSUME CallTypes, Routed, MDelAt, [Next]_vars PROVE MDelAt'
  OBVIOUS
<1>0. Routed' /\ CallTypes'
  BY RoutedKept, TypesKept
<1>1. ASSUME last' # "MDel" PROVE MDelAt'
  BY <1>0, <1>1, Zenon DEF MDelAt, DeletesExactly, ResultsInInputOrder, Returned,
                    CallTypes
<1>2. CASE BeginKey \/ BeginAll
  <2>1. CASE BeginKey
    BY <1>1, <2>1, BeginKeyFacts, Zenon DEF KeyOps
  <2>2. CASE BeginAll
    BY <1>1, <2>2, BeginAllFacts, Zenon DEF BoolOps
  <2> QED
    BY <1>2, <2>1, <2>2
<1>3. CASE BeginMDel
  <2>1. /\ Started /\ last' = "MDel" /\ arg' \in Seq(Keys)
        /\ acc' = [m \in 1..Len(arg') |-> FALSE]
        /\ \/ /\ op' = "MDel"
              /\ \A m \in 1..Len(arg') : InRange(arg'[m])
              /\ todo' = {s \in Shards : \E m \in 1..Len(arg') : route[arg'[m]] = s}
           \/ op' = "none" /\ outcome' = "range" /\ todo' = {}
    BY <1>3, BeginMDelFacts
  <2>2. /\ n' = n /\ route' = route /\ db' = db /\ Shards' = Shards
        /\ Stored' = Stored /\ db0' = Stored
    BY <2>1, Zenon DEF Started
  <2>3. DeletesExactly'
    BY <2>1, <2>2, Zenon DEF DeletesExactly
  <2>4. ResultsInInputOrder'
    BY <2>1, Zenon DEF ResultsInInputOrder, Returned
  <2>5. CASE op' = "MDel"
    <3>1. \A m \in 1..Len(arg') : route[arg'[m]] \in Shards
      BY <2>1, <2>5 DEF InRange
    <3>2. todo' = {s \in Shards : \E m \in 1..Len(arg') : route[arg'[m]] = s}
      BY <2>1, <2>5, Zenon
    <3>3. \A m \in 1..Len(arg') : InRange(arg[m])'
      BY <2>2, <3>1 DEF InRange
    <3>4. ASSUME NEW s \in Shards PROVE ShardAt(s)'
      <4>1. \A k : k \in Stored <=> k \in Keys /\ InRange(k) /\ k \in db[route[k]]
        BY StoredWhere, Zenon
      <4>2. CASE s \in todo'
        <5>1. db[s] = {k \in Stored : route[k] = s}
          BY <4>1, SMTT(30) DEF CallTypes, Routed, InRange
        <5> QED
          BY <2>2, <4>2, <5>1, Zenon DEF ShardAt
      <4>3. CASE s \notin todo'
        <5>1. \A m \in 1..Len(arg') : arg'[m] \notin db[s]
          BY <3>2, <4>3 DEF Routed
        <5>2. db[s] \cap Range(arg') = {}
          BY <2>1, <5>1, SMTT(30) DEF Range
        <5> QED
          BY <2>2, <4>3, <5>2, Zenon DEF ShardAt
      <4> QED
        BY <4>2, <4>3, Zenon
    <3>5. \A m \in 1..Len(arg') : ResultAt(m)'
      BY <2>2, <3>1, <3>2 DEF ResultAt
    <3>6. acc' \in [1..Len(arg') -> BOOLEAN]
      BY <2>1
    <3> QED
      BY <2>2, <2>3, <2>4, <3>3, <3>4, <3>5, <3>6, Zenon DEF MDelAt
  <2>6. CASE op' = "none"
    BY <2>3, <2>4, <2>6 DEF MDelAt
  <2> QED
    BY <2>1, <2>5, <2>6, Zenon
<1>4. ASSUME NEW s \in Shards, ShardMDel(s) PROVE MDelAt'
  <2>1. /\ op = "MDel" /\ op' = op /\ last' = last /\ s \in todo
        /\ arg' = arg /\ n' = n /\ route' = route /\ db0' = db0
        /\ Shards' = Shards /\ todo' = todo \ {s}
        /\ db' = [db EXCEPT ![s] = @ \ Range(KeysOf(s))]
    BY <1>4, Zenon DEF ShardMDel, place, Shards
  <2>2. /\ \A m \in 1..Len(arg) : InRange(arg[m])
        /\ \A t \in Shards : ShardAt(t)
        /\ acc \in [1..Len(arg) -> BOOLEAN]
        /\ \A m \in 1..Len(arg) : ResultAt(m)
        /\ db0 \ Range(arg) \subseteq Stored /\ Stored \subseteq db0
    BY <2>1, Zenon DEF MDelAt, DeletesExactly, CallTypes
  <2>3. Range(KeysOf(s)) = {arg[m] : m \in grouped(s)}
    BY KeysInPlace, Zenon
  <2>4. DeletesExactly'
    <3>1. Stored' \subseteq Stored /\ Stored \ Range(arg) \subseteq Stored'
      BY <1>0, <2>1, GroupGone, Zenon
    <3> QED
      BY <2>1, <2>2, <3>1 DEF DeletesExactly
  <2>5. ASSUME NEW t \in Shards PROVE ShardAt(t)'
    <3>1. CASE t # s
      <4>1. db'[t] = db[t] /\ (t \in todo' <=> t \in todo)
        BY <2>1, <3>1 DEF CallTypes
      <4> QED
        BY <2>1, <2>2, <4>1, Zenon DEF ShardAt
    <3>2. CASE t = s
      <4>1. db'[s] = db[s] \ {arg[m] : m \in grouped(s)} /\ s \notin todo'
        BY <2>1, <2>3 DEF CallTypes
      <4>2. \A m \in 1..Len(arg) : arg[m] \notin db'[s]
        BY <4>1, Zenon DEF Routed, grouped
      <4>3. db'[s] \cap Range(arg) = {}
        BY <4>2 DEF Range, CallTypes
      <4> QED
        BY <2>1, <3>2, <4>1, <4>3, Zenon DEF ShardAt
    <3> QED
      BY <3>1, <3>2, Zenon
  <2>6. ASSUME NEW m \in grouped(s)
        PROVE  acc'[m] \in BOOLEAN /\ ResultAt(m)'
    <3>1. m \in 1..Len(arg) /\ route[arg[m]] = s
      BY DEF grouped
    <3> DEFINE first == \A j \in 1..(m - 1) : arg[j] # arg[m]
    <3>2. Deleted(arg, db0)[m] = (arg[m] \in db0 /\ first)
      BY <3>1, Zenon DEF Deleted
    <3>3. /\ Deleted(KeysOf(s), db[s])[PlaceOf(m)] = (arg[m] \in db[s] /\ first)
          /\ Deleted(KeysOf(s), db'[s])[PlaceOf(m)] = (arg[m] \in db'[s] /\ first)
      BY AnswerInPlace, Zenon
    <3> HIDE DEF first
    <3>4. arg[m] \in db[s] <=> arg[m] \in db0
      BY <2>1, <2>2, <3>1 DEF ShardAt
    <3>5. arg[m] \notin db'[s]
      <4>1. db'[s] = db[s] \ Range(KeysOf(s))
        BY <2>1, Zenon DEF CallTypes
      <4> QED
        BY <2>3, <4>1, Zenon
    <3>6. \/ acc'[m] = (arg[m] \in db0 /\ first) /\ resent' = resent
          \/ acc'[m] = FALSE /\ resent' = TRUE
      <4>1. CASE acc' = Place(s, Deleted(KeysOf(s), db[s])) /\ UNCHANGED resent
        BY <3>1, <3>3, <3>4, <4>1 DEF Place
      <4>2. CASE acc' = Place(s, Deleted(KeysOf(s), db'[s])) /\ resent' = TRUE
        BY <3>1, <3>3, <3>5, <4>2, Zenon DEF Place
      <4> QED
        BY <1>4, <4>1, <4>2, Zenon DEF ShardMDel
    <3>7. Deleted(arg, db0)[m]' = Deleted(arg, db0)[m]
      BY <2>1 DEF Deleted
    <3> QED
      BY <3>2, <3>6, <3>7, Zenon DEF ResultAt
  <2>7. ASSUME NEW m \in 1..Len(arg), m \notin grouped(s)
        PROVE  acc'[m] \in BOOLEAN /\ ResultAt(m)'
    <3>1. acc'[m] = acc[m] /\ (resent' = resent \/ resent' = TRUE)
      BY <1>4, <2>7, Zenon DEF ShardMDel, Place
    <3>2. route[arg[m]] \in todo' <=> route[arg[m]] \in todo
      BY <2>1, <2>7, Zenon DEF grouped
    <3>3. Deleted(arg, db0)[m]' = Deleted(arg, db0)[m]
      BY <2>1 DEF Deleted
    <3>4. ResultAt(m)
      BY <2>2
    <3>a. ~resent' => ~resent
      BY <3>1, Zenon
    <3>b. route[arg[m]]' = route[arg[m]]
      BY <2>1
    <3>5. ResultAt(m)'
      BY <3>1, <3>2, <3>3, <3>4, <3>a, <3>b, Zenon DEF ResultAt
    <3> QED
      BY <2>2, <2>7, <3>1, <3>5, Zenon
  <2>8. acc' \in [1..Len(arg) -> BOOLEAN]
    <3>1. acc' = [m \in 1..Len(arg) |-> acc'[m]]
      BY <1>4, Zenon DEF ShardMDel, Place
    <3> QED
      BY <2>6, <2>7, <3>1, Zenon
  <2>9. ResultsInInputOrder'
    BY <2>1, Zenon DEF ResultsInInputOrder, Returned
  <2>10. \A m \in 1..Len(arg) : InRange(arg[m])'
    BY <2>1, <2>2 DEF InRange
  <2>11. \A m \in 1..Len(arg) : ResultAt(m)'
    BY <2>6, <2>7, Zenon
  <2> QED
    BY <2>1, <2>4, <2>5, <2>8, <2>9, <2>10, <2>11, Zenon DEF MDelAt
<1>5. ASSUME NEW s \in Shards, ShardMDelFail(s) PROVE MDelAt'
  <2>1. /\ op = "MDel" /\ op' = "none" /\ outcome' = "error" /\ last' = last
        /\ arg' = arg /\ n' = n /\ route' = route /\ db0' = db0
        /\ db' \in {db, [db EXCEPT ![s] = @ \ Range(KeysOf(s))]}
    BY <1>5, Zenon DEF ShardMDelFail, Return, place, history
  <2>2. db0 \ Range(arg) \subseteq Stored /\ Stored \subseteq db0
    BY <2>1, Zenon DEF MDelAt, DeletesExactly, CallTypes
  <2>3. Stored' \subseteq Stored /\ Stored \ Range(arg) \subseteq Stored'
    BY <1>0, <2>1, GroupGone, Zenon
  <2>4. DeletesExactly'
    BY <2>1, <2>2, <2>3 DEF DeletesExactly
  <2> QED
    BY <2>1, <2>4, Zenon DEF MDelAt, ResultsInInputOrder, Returned
<1>6. CASE MDelReturn
  <2>1. /\ op = "MDel" /\ last = "MDel" /\ todo = {} /\ op' = "none"
        /\ outcome' = "ok" /\ last' = last /\ arg' = arg /\ db0' = db0
        /\ acc' = acc /\ resent' = resent /\ Stored' = Stored
        /\ Shards' = Shards /\ db' = db
    BY <1>6, Zenon DEF MDelReturn, Return, place, history, Stored, Shards, CallTypes
  <2>2. /\ \A m \in 1..Len(arg) : ResultAt(m)
        /\ \A s \in Shards : ShardAt(s)
        /\ acc \in [1..Len(arg) -> BOOLEAN]
        /\ db0 \ Range(arg) \subseteq Stored /\ Stored \subseteq db0
    BY <2>1 DEF MDelAt, DeletesExactly
  <2>3. Stored \cap Range(arg) = {}
    <3>1. \A s \in Shards : db[s] \cap Range(arg) = {}
      BY <2>1, <2>2, Zenon DEF ShardAt
    <3> QED
      BY <3>1, Zenon DEF Stored
  <2>4. DeletesExactly'
    <3>1. Stored = db0 \ Range(arg)
      BY <2>2, <2>3
    <3> QED
      BY <2>1, <2>2, <3>1, Zenon DEF DeletesExactly
  <2>5. Len(acc) = Len(arg)
    <3>1. Len(arg) \in Nat
      BY DEF CallTypes
    <3> QED
      BY <2>2, <3>1, SMTT(30)
  <2>6. \A m \in 1..Len(arg) : /\ acc[m] => Deleted(arg, db0)[m]
                               /\ ~resent => acc[m] = Deleted(arg, db0)[m]
    BY <2>1, <2>2, Zenon DEF ResultAt
  <2>7. Deleted(arg, db0)' = Deleted(arg, db0)
    BY <2>1 DEF Deleted
  <2>8. ResultsInInputOrder'
    BY <2>1, <2>5, <2>6, <2>7, Zenon DEF ResultsInInputOrder
  <2> QED
    BY <2>1, <2>4, <2>8, Zenon DEF MDelAt
<1>7. CASE \/ NewRefused \/ NewConn \/ NewConnFail \/ CloseShard
           \/ KeyCommand \/ KeyCommandFail
           \/ \E answer \in BOOLEAN : BoolShard(answer)
           \/ InspectShard \/ ShardFail \/ AllReturn
  <2>1. op \in {"New", "Inspect", "Close"} \cup KeyOps \cup BoolOps /\ last' = last
    BY <1>7, Zenon DEF NewRefused, NewConn, NewConnFail, CloseShard, KeyCommand,
                KeyCommandFail, BoolShard, InspectShard, ShardFail, AllReturn
  <2>2. op # "none" => last = op
    BY DEF CallTypes
  <2>3. last' # "MDel"
    BY <2>1, <2>2 DEF KeyOps, BoolOps
  <2> QED
    BY <1>1, <2>3, Zenon
<1>8. CASE Finished \/ UNCHANGED vars
  <2>1. UNCHANGED vars
    BY <1>8 DEF Finished
  <2>2. /\ op' = op /\ last' = last /\ arg' = arg /\ todo' = todo /\ acc' = acc
        /\ outcome' = outcome /\ db0' = db0 /\ resent' = resent
        /\ db' = db /\ route' = route /\ Shards' = Shards
    BY <2>1, Zenon DEF vars, place, history, Shards
  <2>3. Stored' = Stored /\ Deleted(arg, db0)' = Deleted(arg, db0)
    BY <2>2 DEF Stored, Deleted
  <2>4. DeletesExactly' /\ ResultsInInputOrder'
    BY <2>2, <2>3, Zenon DEF MDelAt, DeletesExactly, ResultsInInputOrder, Returned
  <2> QED
    BY <2>2, <2>3, <2>4, Zenon DEF MDelAt, ShardAt, ResultAt, InRange
<1> QED
  BY <1>2, <1>3, <1>4, <1>5, <1>6, <1>7, <1>8 DEF Next

-----------------------------------------------------------------------------
\* Connections are open exactly while there is a client to close them with: on
\* every path through NewSharded and Close, for any number of shards.
THEOREM ConnectionsAccountedFor == Spec => []NoneLeftOpen
<1>1. Init => CallTypes /\ ConnsAt
  BY InitHolds
<1>2. CallTypes /\ ConnsAt /\ [Next]_vars => (CallTypes /\ ConnsAt)'
  BY TypesKept, ConnsKept
<1>3. CallTypes /\ ConnsAt => NoneLeftOpen
  BY DEF ConnsAt
<1> QED
  BY <1>1, <1>2, <1>3, PTL DEF Spec

\* Commands on a key see all shards as one database, whatever shardingFunc
\* returns.
THEOREM ShardsAreOneDatabase == Spec => []OneDatabase
<1>1. Init => CallTypes /\ Routed /\ KeyAt
  BY InitHolds
<1>2. CallTypes /\ Routed /\ KeyAt /\ [Next]_vars => (CallTypes /\ Routed /\ KeyAt)'
  BY TypesKept, RoutedKept, KeyKept
<1>3. CallTypes /\ Routed /\ KeyAt => OneDatabase
  BY DEF KeyAt
<1> QED
  BY <1>1, <1>2, <1>3, PTL DEF Spec

\* MDel returns its results in the order of its keys, in whatever order the
\* loop over the map visits the shards.
THEOREM MDelAnswersInOrder == Spec => []ResultsInInputOrder
<1>1. Init => CallTypes /\ Routed /\ MDelAt
  BY InitHolds, Zenon
<1>2. CallTypes /\ Routed /\ MDelAt /\ [Next]_vars => (CallTypes /\ Routed /\ MDelAt)'
  BY TypesKept, RoutedKept, MDelKept
<1>3. CallTypes /\ Routed /\ MDelAt => ResultsInInputOrder
  BY Zenon DEF MDelAt
<1> QED
  BY <1>1, <1>2, <1>3, PTL DEF Spec

\* MDel deletes the keys it is called with and no other, and nothing when a key
\* has no shard.
THEOREM MDelDeletesItsKeys == Spec => []DeletesExactly
<1>1. Init => CallTypes /\ Routed /\ MDelAt
  BY InitHolds
<1>2. CallTypes /\ Routed /\ MDelAt /\ [Next]_vars => (CallTypes /\ Routed /\ MDelAt)'
  BY TypesKept, RoutedKept, MDelKept
<1>3. CallTypes /\ Routed /\ MDelAt => DeletesExactly
  BY DEF MDelAt
<1> QED
  BY <1>1, <1>2, <1>3, PTL DEF Spec

\* FlushDB, Truncate and Inspect return a result only when every shard has
\* answered, and stop at the first shard that fails.
THEOREM EveryShardAnswers == Spec => []AllShardsAnswer
<1>1. Init => CallTypes /\ Routed /\ LoopAt
  BY InitHolds, Zenon
<1>2. CallTypes /\ Routed /\ LoopAt /\ [Next]_vars => (CallTypes /\ Routed /\ LoopAt)'
  BY TypesKept, RoutedKept, LoopKept
<1>3. CallTypes /\ Routed /\ LoopAt => AllShardsAnswer
  BY DEF LoopAt
<1> QED
  BY <1>1, <1>2, <1>3, PTL DEF Spec

=============================================================================
