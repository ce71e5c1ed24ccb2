---------------------------- MODULE ShardedCalls ----------------------------
(***************************************************************************)
(* A ShardedClient (sharded_client.go) from NewSharded to Close: commands  *)
(* on one key (Incr, Get, Del and the other methods that use shardByKey),  *)
(* MDel, the commands sent to every shard (FlushDB, Truncate, Inspect) and *)
(* Close.  Scan is module ShardedScan, the streams module StreamEvents.    *)
(*                                                                         *)
(* What a shard does with one command is one step.  The command can fail   *)
(* before or after the shard carried it out, and sendWithReconnect can     *)
(* deliver it twice (module TCPClient).  That a closed Client refuses      *)
(* calls is shown in ConnPool.                                             *)
(***************************************************************************)
EXTENDS Integers, Sequences, FiniteSets, Functions

CONSTANTS
  Keys,
  MaxShards,  \* bound: addresses passed to NewSharded
  PoolSize,
  MaxKeys,    \* bound: keys of one MDel
  MaxOps      \* bound: operations after NewSharded

ASSUME CallsAssumption ==
  /\ MaxShards \in Nat /\ PoolSize \in Nat \ {0}
  /\ MaxKeys \in Nat /\ MaxOps \in Nat

VARIABLES
  n,        \* len(addresses), then len(c.shards)
  route,    \* shardingFunc; some values are no shard's index
  conns,    \* conns[s]: open connections of the Client of shard s
  db,       \* db[s]: the keys shard s holds
  op,       \* the operation under way, or "none"
  last,     \* the last operation begun
  arg,      \* its argument: the keys it is about
  i,        \* the shard the loop over c.shards visits next
  todo,     \* the shards MDel's loop over grouped has not visited
  acc,      \* what the operation has computed so far
  outcome,  \* what the last operation returned
  db0,      \* history: the keys stored when the operation began
  done,     \* history: shards that carried out the operation
  noes,     \* history: shards that answered it with false
  resent,   \* history: a command of the operation was applied twice
  ops       \* operations begun

place == <<n, route>>
history == <<db0, done, noes, resent>>
vars == <<place, conns, db, op, last, arg, i, todo, acc, outcome, history, ops>>

Shards == 0..(n - 1)

Stored == UNION {db[s] : s \in Shards}

KeyOps == {"Incr", "Get", "Del"}

BoolOps == {"FlushDB", "Truncate"}

Init ==
  /\ n \in 0..MaxShards
  /\ route \in [Keys -> (-1)..n]
  /\ conns = [s \in Shards |-> 0]
  /\ \E ks \in SUBSET Keys : db = [s \in Shards |-> {k \in ks : route[k] = s}]
  /\ op = "New" /\ last = "New" /\ arg = <<>> /\ i = 0 /\ todo = {}
  /\ acc = <<>> /\ outcome = "none"
  /\ db0 = {} /\ done = {} /\ noes = {} /\ resent = FALSE /\ ops = 0

\* The operation returns; acc holds its value when there is one.
Return(how) == op' = "none" /\ outcome' = how

-----------------------------------------------------------------------------
(***************************************************************************)
(* NewSharded.  New opens the PoolSize connections of one shard one after  *)
(* the other.                                                              *)
(***************************************************************************)
\* ErrNoShards or ErrNilShardingFunc; the caller may pass a nil function.
NewRefused ==
  /\ op = "New" /\ i = 0 /\ conns = [s \in Shards |-> 0]
  /\ Return("error")
  /\ UNCHANGED <<place, conns, db, last, arg, i, todo, acc, history, ops>>

NewConn ==
  /\ op = "New" /\ i < n
  /\ conns' = [conns EXCEPT ![i] = @ + 1]
  /\ i' = IF conns'[i] = PoolSize THEN i + 1 ELSE i
  /\ IF i' = n THEN Return("ok") ELSE UNCHANGED <<op, outcome>>
  /\ UNCHANGED <<place, db, last, arg, todo, acc, history, ops>>

\* Faulty variant: the shards made before are not closed.
NewConnFailLeaking ==
  /\ op = "New" /\ i < n
  /\ Return("error")
  /\ UNCHANGED <<place, conns, db, last, arg, i, todo, acc, history, ops>>

\* newConn fails: the Clients made before are closed.  The Client being made
\* is dropped by New with the connections it has opened.
NewConnFail ==
  /\ op = "New" /\ i < n
  /\ conns' = [s \in Shards |-> IF s < i THEN 0 ELSE conns[s]]
  /\ Return("error")
  /\ UNCHANGED <<place, db, last, arg, i, todo, acc, history, ops>>

-----------------------------------------------------------------------------
\* The client exists: NewSharded succeeded and Close has not been called.
Usable == op = "none" /\ n > 0 /\ \A s \in Shards : conns[s] = PoolSize

Begin(o, ks) ==
  /\ Usable /\ ops < MaxOps
  /\ last' = o /\ arg' = ks /\ ops' = ops + 1 /\ i' = 0
  /\ db0' = Stored /\ done' = {} /\ noes' = {} /\ resent' = FALSE
  /\ UNCHANGED <<place, conns, db>>

\* shardIndexByKey accepts the index.
InRange(k) == route[k] \in Shards

BeginKey ==
  \E o \in KeyOps, k \in Keys :
    /\ Begin(o, <<k>>)
    /\ IF InRange(k) THEN op' = o /\ UNCHANGED outcome ELSE Return("range")
    /\ todo' = {} /\ acc' = <<>>

\* The first loop of MDel: the indexes of the keys of each shard.
grouped(s) == {m \in 1..Len(arg) : route[arg[m]] = s}

\* Each is appended to its group in turn, which gives index m this place in it.
PlaceOf(m) == Cardinality({j \in 1..m : route[arg[j]] = route[arg[m]]})

BeginMDel ==
  \E len \in 0..MaxKeys : \E ks \in [1..len -> Keys] :
    /\ Begin("MDel", ks)
    /\ IF \A m \in 1..Len(ks) : InRange(ks[m])
       THEN /\ op' = "MDel" /\ UNCHANGED outcome
            /\ todo' = {s \in Shards : \E m \in 1..Len(ks) : route[ks[m]] = s}
       ELSE Return("range") /\ todo' = {}
    /\ acc' = [m \in 1..Len(ks) |-> FALSE]

BeginAll ==
  \E o \in BoolOps \cup {"Inspect", "Close"} :
    /\ Begin(o, <<>>)
    /\ op' = o /\ todo' = {} /\ UNCHANGED outcome
    /\ acc' = IF o = "Inspect" THEN [s \in Shards |-> -1] ELSE <<TRUE>>

-----------------------------------------------------------------------------
(***************************************************************************)
(* Commands on one key.  The shard (external) answers whether it has the   *)
(* key after Incr and Get, and whether it had it for Del.                  *)
(***************************************************************************)
Apply(o, ks, keys) == CASE o = "Incr" -> keys \cup ks
                        [] o = "Get"  -> keys
                        [] OTHER      -> keys \ ks

\* Faulty variant: every key is sent to the first shard.
KeyShardFirst(k) == 0

KeyShard(k) == route[k]

KeyCommand ==
  /\ op \in KeyOps
  /\ LET k == arg[1]
         s == KeyShard(k)
         after == Apply(op, {k}, db[s])
     IN /\ db' = [db EXCEPT ![s] = after]
        /\ resent' \in BOOLEAN
        /\ acc' = <<IF op = "Del" THEN k \in db[s] /\ ~resent' ELSE k \in after>>
        /\ done' = {s}
  /\ Return("ok")
  /\ UNCHANGED <<place, conns, last, arg, i, todo, db0, noes, ops>>

\* An error; the shard may have carried the command out.
KeyCommandFail ==
  /\ op \in KeyOps
  /\ LET s == KeyShard(arg[1])
     IN db' \in {db, [db EXCEPT ![s] = Apply(op, {arg[1]}, @)]}
  /\ Return("error")
  /\ UNCHANGED <<place, conns, last, arg, i, todo, acc, history, ops>>

-----------------------------------------------------------------------------
(***************************************************************************)
(* The second loop of MDel, over the map grouped, in any order.  MDEL on a *)
(* shard (external) deletes its keys one after the other; the answer says  *)
(* of each whether it was there.                                           *)
(***************************************************************************)
KeysOf(s) ==
  [q \in 1..Cardinality(grouped(s)) |->
     arg[CHOOSE m \in grouped(s) : PlaceOf(m) = q]]

Deleted(ks, keys) ==
  [m \in 1..Len(ks) |-> ks[m] \in keys /\ \A j \in 1..(m - 1) : ks[j] # ks[m]]

\* Faulty variant: answers are placed by their position in the group.
PlaceByGroup(s, answer) ==
  [m \in 1..Len(arg) |-> IF m <= Len(answer) THEN answer[m] ELSE acc[m]]

\* results[indexedKeys[i].index] = shardResult
Place(s, answer) ==
  [m \in 1..Len(arg) |->
     IF m \in grouped(s) THEN answer[PlaceOf(m)] ELSE acc[m]]

ShardMDel(s) ==
  /\ op = "MDel" /\ s \in todo
  /\ db' = [db EXCEPT ![s] = @ \ Range(KeysOf(s))]
  /\ \/ acc' = Place(s, Deleted(KeysOf(s), db[s])) /\ UNCHANGED resent
     \/ acc' = Place(s, Deleted(KeysOf(s), db'[s])) /\ resent' = TRUE
  /\ todo' = todo \ {s} /\ done' = done \cup {s}
  /\ UNCHANGED <<place, conns, op, last, arg, i, outcome, db0, noes, ops>>

\* Faulty variant: a failing shard is skipped.
ShardMDelFailSkipped(s) ==
  /\ op = "MDel" /\ s \in todo
  /\ todo' = todo \ {s}
  /\ UNCHANGED <<place, conns, db, op, last, arg, i, acc, outcome, history, ops>>

\* An error, or an answer of the wrong length; the shard may have applied it.
ShardMDelFail(s) ==
  /\ op = "MDel" /\ s \in todo
  /\ db' \in {db, [db EXCEPT ![s] = @ \ Range(KeysOf(s))]}
  /\ Return("error")
  /\ UNCHANGED <<place, conns, last, arg, i, todo, acc, history, ops>>

MDelReturn ==
  /\ op = "MDel" /\ todo = {}
  /\ Return("ok")
  /\ UNCHANGED <<place, conns, db, last, arg, i, todo, acc, history, ops>>

-----------------------------------------------------------------------------
(***************************************************************************)
(* The loops over c.shards.                                                *)
(***************************************************************************)
\* Faulty variant: the command is skipped once the result is false.
BoolShardLazy(answer) ==
  /\ op \in BoolOps /\ i < n
  /\ acc' = <<acc[1] /\ answer>>
  /\ done' = IF acc[1] THEN done \cup {i} ELSE done
  /\ noes' = IF acc[1] /\ ~answer THEN noes \cup {i} ELSE noes
  /\ db' = IF acc[1] /\ answer THEN [db EXCEPT ![i] = {}] ELSE db
  /\ i' = i + 1
  /\ UNCHANGED <<place, conns, op, last, arg, todo, outcome, db0, resent, ops>>

\* boolCommandOnAllShards: one shard carries out the command and answers; with
\* true its keys are gone (integration_test.go:355-380).
BoolShard(answer) ==
  /\ op \in BoolOps /\ i < n
  /\ acc' = <<acc[1] /\ answer>>
  /\ done' = done \cup {i}
  /\ noes' = IF answer THEN noes ELSE noes \cup {i}
  /\ db' = IF answer THEN [db EXCEPT ![i] = {}] ELSE db
  /\ i' = i + 1
  /\ UNCHANGED <<place, conns, op, last, arg, todo, outcome, db0, resent, ops>>

\* reports[i] = report; the entry names the shard that wrote the report.
InspectShard ==
  /\ op = "Inspect" /\ i < n
  /\ acc' = [acc EXCEPT ![i] = i]
  /\ done' = done \cup {i} /\ i' = i + 1
  /\ UNCHANGED <<place, conns, db, op, last, arg, todo, outcome, db0, noes,
                 resent, ops>>

\* The command fails on one shard: the loop ends there.
ShardFail ==
  /\ op \in BoolOps \cup {"Inspect"} /\ i < n
  /\ done' \in {done, done \cup {i}}
  /\ db' = IF i \in done' /\ op \in BoolOps THEN [db EXCEPT ![i] = {}] ELSE db
  /\ Return("error")
  /\ UNCHANGED <<place, conns, last, arg, i, todo, acc, db0, noes, resent, ops>>

AllReturn ==
  /\ op \in BoolOps \cup {"Inspect"} /\ i = n
  /\ Return("ok")
  /\ UNCHANGED <<place, conns, db, last, arg, i, todo, acc, history, ops>>

CloseShard ==
  /\ op = "Close" /\ i < n
  /\ conns' = [conns EXCEPT ![i] = 0] /\ i' = i + 1
  /\ IF i' = n THEN Return("ok") ELSE UNCHANGED <<op, outcome>>
  /\ UNCHANGED <<place, db, last, arg, todo, acc, history, ops>>

-----------------------------------------------------------------------------
Finished == op = "none" /\ (~Usable \/ ops = MaxOps) /\ UNCHANGED vars

Next ==
  \/ NewRefused \/ NewConn \/ NewConnFail
  \/ BeginKey \/ KeyCommand \/ KeyCommandFail
  \/ BeginMDel \/ MDelReturn
  \/ \E s \in Shards : ShardMDel(s) \/ ShardMDelFail(s)
  \/ BeginAll
  \/ \E answer \in BOOLEAN : BoolShard(answer)
  \/ InspectShard \/ ShardFail \/ AllReturn \/ CloseShard
  \/ Finished

Spec == Init /\ [][Next]_vars

-----------------------------------------------------------------------------
Returned(o) == op = "none" /\ last = o

(***************************************************************************)
(* Connections are open exactly while the caller has a client to close     *)
(* them with, except that a failed NewSharded leaves behind what New had   *)
(* opened for the shard that failed: fewer than PoolSize, on that shard    *)
(* only.                                                                   *)
(***************************************************************************)
NoneLeftOpen ==
  /\ Returned("New") /\ outcome = "error" =>
       \A s \in Shards : conns[s] > 0 => s = i /\ conns[s] < PoolSize
  /\ Returned("Close") => \A s \in Shards : conns[s] = 0
  /\ op = "none" /\ outcome # "error" /\ last # "Close" =>
       \A s \in Shards : conns[s] = PoolSize

(***************************************************************************)
(* All shards together are one set of keys: a key is only ever on the      *)
(* shard its name is routed to, and a command on a key answers as if the   *)
(* keys were in one place.  Only a Del delivered twice may deny the key it *)
(* has deleted.                                                            *)
(***************************************************************************)
OneDatabase ==
  /\ \A s \in Shards : \A k \in db[s] : route[k] = s
  /\ op = "none" /\ last \in KeyOps /\ outcome = "ok" =>
       LET k == arg[1]
       IN /\ Stored = Apply(last, {k}, db0)
          /\ last = "Incr" => acc[1]
          /\ last = "Get" => acc[1] = (k \in db0)
          /\ last = "Del" => acc[1] = (k \in db0 /\ ~resent)

(***************************************************************************)
(* MDel "returns results in the input order" (README.md:42): the m-th      *)
(* result says whether the m-th key was there, counting a repeated key     *)
(* once, whatever the order in which shards were visited.  A command       *)
(* delivered twice can only turn a TRUE into a FALSE.                      *)
(***************************************************************************)
ResultsInInputOrder ==
  Returned("MDel") /\ outcome = "ok" =>
    /\ Len(acc) = Len(arg)
    /\ \A m \in 1..Len(arg) :
         /\ acc[m] => Deleted(arg, db0)[m]
         /\ ~resent => acc[m] = Deleted(arg, db0)[m]

(***************************************************************************)
(* After a successful MDel every key of the call is gone and no other key  *)
(* is; when a key has no shard nothing has been deleted, because all keys  *)
(* are routed before the first command is sent.                            *)
(***************************************************************************)
DeletesExactly ==
  last = "MDel" =>
    /\ db0 \ Range(arg) \subseteq Stored /\ Stored \subseteq db0
    /\ op = "none" /\ outcome = "ok" => Stored = db0 \ Range(arg)
    /\ op = "none" /\ outcome = "range" => Stored = db0

(***************************************************************************)
(* FlushDB and Truncate "fan out to every shard" (README.md:43): a result  *)
(* means that every shard has answered the command, and true that no shard *)
(* has a key left.  After an error the shards before the failing one have  *)
(* carried it out, and the shards behind it still have all their keys.     *)
(* Inspect returns the report of every shard, that of shard s at index s.  *)
(***************************************************************************)
AllShardsAnswer ==
  /\ Returned("Inspect") /\ outcome = "ok" => acc = [s \in Shards |-> s]
  /\ op = "none" /\ last \in BoolOps =>
      /\ outcome = "ok" => done = Shards /\ acc = <<noes = {}>>
      /\ outcome = "ok" /\ acc[1] => Stored = {}
      /\ outcome = "error" =>
           /\ 0..(i - 1) \subseteq done /\ done \subseteq 0..i
           /\ \A k \in db0 : route[k] > i => k \in Stored

=============================================================================
