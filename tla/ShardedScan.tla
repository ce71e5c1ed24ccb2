---------------------------- MODULE ShardedScan -----------------------------
(***************************************************************************)
(* A caller walks the keys of all shards page by page with                 *)
(* ShardedClient.Scan or PScan (sharded_client.go), passing each returned  *)
(* cursor to the next call until ScanCursorInitial comes back.  Each       *)
(* iteration of the loop in scan, which is one SCAN command to one shard,  *)
(* is a step; any of them may fail, and the caller then repeats the call.  *)
(***************************************************************************)
EXTENDS Integers, Sequences, FiniteSets, SequencesExt

CONSTANTS
  Content,    \* Content[i]: the keys of shard i, in the order of its cursor
  Wanted,     \* the keys with the prefix of PScan; all of them for Scan
  Counts,     \* the page sizes the caller asks for
  Foreign,    \* cursors that did not come from this client
  MaxErrors   \* bound: SCAN commands that fail

NumShards == Len(Content)

\* The slice c.shards is indexed from 0, Content from 1.
ShardKeys(i) == Content[i + 1]

Keys == UNION {Range(Content[i]) : i \in 1..NumShards}

ASSUME ScanAssumption ==
  /\ Content \in Seq(Seq(Keys)) /\ NumShards > 0
  /\ Counts \subseteq Nat
  /\ MaxErrors \in Nat

(***************************************************************************)
(* A cursor is the sequence of its parts around the first separator: the   *)
(* client's own has a shard index and that shard's cursor.  A shard's      *)
(* cursor is how many of its keys it has returned; 0 also means all.       *)
(***************************************************************************)
ScanCursorInitial == 0

Initial == <<ScanCursorInitial>>

NoCursor == -1

VARIABLES
  pc,           \* "idle", "loop" or "zero" (inside scan), "done"
  cursor,       \* the cursor the caller holds
  count,        \* the argument count of the call in progress
  shardIndex,
  shardCursor,
  keys,         \* keys, the page collected so far
  seen,         \* history: the keys of all pages returned
  page,         \* history: length of the last page returned, and its count
  errors,       \* number of failed commands
  refused       \* history: the last call returned ErrCorruptedResponse

vars == <<pc, cursor, count, shardIndex, shardCursor, keys, seen, page,
          errors, refused>>

-----------------------------------------------------------------------------
(***************************************************************************)
(* The cursor conversions.                                                 *)
(***************************************************************************)
Parsed(i, c) == [ok |-> TRUE, shard |-> i, at |-> c]

Corrupted == [ok |-> FALSE, shard |-> 0, at |-> NoCursor]

parseScanCursor(cur) ==
  IF cur \in {<<>>, Initial} THEN Parsed(0, ScanCursorInitial)
  ELSE IF Len(cur) # 2 \/ cur[Len(cur)] = NoCursor THEN Corrupted
  ELSE IF cur[1] \notin 0..(NumShards - 1) THEN Corrupted
  ELSE Parsed(cur[1], cur[2])

makeScanCursor(i, c) == IF i >= NumShards THEN Initial ELSE <<i, c>>

-----------------------------------------------------------------------------
Init ==
  /\ pc = "idle" /\ cursor \in {<<>>, Initial} /\ count = 0
  /\ shardIndex = 0 /\ shardCursor = ScanCursorInitial /\ keys = <<>>
  /\ seen = <<>> /\ page = [len |-> 0, count |-> 0]
  /\ errors = 0 /\ refused = FALSE

\* The caller asks for the next page.
Call ==
  /\ pc = "idle"
  /\ \E n \in Counts \ {0} : count' = n
  /\ LET p == parseScanCursor(cursor) IN
       /\ p.ok
       /\ shardIndex' = p.shard /\ shardCursor' = p.at
  /\ pc' = "loop" /\ keys' = <<>> /\ refused' = FALSE
  /\ UNCHANGED <<cursor, seen, page, errors>>

\* A count of 0 goes to the first shard, whatever the cursor.
CallZero ==
  /\ pc = "idle" /\ 0 \in Counts
  /\ pc' = "zero" /\ count' = 0 /\ keys' = <<>> /\ refused' = FALSE
  /\ shardIndex' = 0 /\ shardCursor' = ScanCursorInitial
  /\ UNCHANGED <<cursor, seen, page, errors>>

\* A call with a cursor that parseScanCursor refuses reaches no shard.
CallRefused ==
  /\ pc = "idle"
  /\ \E cur \in Foreign \cup {cursor} : ~parseScanCursor(cur).ok
  /\ refused' = TRUE
  /\ UNCHANGED <<pc, cursor, count, shardIndex, shardCursor, keys, seen, page,
                 errors>>

\* scan returns the page and a cursor.
ReturnPage(ks, cur) ==
  /\ seen' = seen \o ks
  /\ page' = [len |-> Len(ks), count |-> count]
  /\ cursor' = cur
  /\ pc' = IF cur = Initial THEN "done" ELSE "idle"

\* Faulty variant: every shard is asked for a whole page.
RemainingWhole == count

Remaining == count - Len(keys)

(***************************************************************************)
(* SCAN on one shard (external): the shard looks at some keys after the    *)
(* cursor and returns those wanted, at most as many as asked for, with the *)
(* cursor behind the last one it looked at.                                *)
(***************************************************************************)
OnlyWanted(ks) ==
  FlattenSeq([n \in 1..Len(ks) |-> IF ks[n] \in Wanted THEN <<ks[n]>> ELSE <<>>])

Reply(n) ==
  LET all == ShardKeys(shardIndex) IN
  [keys   |-> OnlyWanted(SubSeq(all, shardCursor + 1, shardCursor + n)),
   cursor |-> IF shardCursor + n = Len(all) THEN ScanCursorInitial
                                            ELSE shardCursor + n]

Replies ==
  LET left == Len(ShardKeys(shardIndex)) - shardCursor IN
  {r \in {Reply(n) : n \in 0..left} :
     /\ Len(r.keys) <= Remaining
     /\ r.cursor # shardCursor \/ left = 0}

\* The loop's condition.
More(i, ks) == i < NumShards /\ Len(ks) < count

\* Faulty variant: a page without keys comes with the cursor of the call.
ScanShardPartStuck ==
  /\ pc = "loop"
  /\ \E r \in Replies :
       /\ r.cursor # ScanCursorInitial
       /\ keys' = keys \o r.keys
       /\ ReturnPage(keys', makeScanCursor(shardIndex,
                       IF r.keys = <<>> THEN shardCursor ELSE r.cursor))
  /\ UNCHANGED <<count, shardIndex, shardCursor, errors, refused>>

\* The shard has more keys: its cursor is part of the one returned.
ScanShardPart ==
  /\ pc = "loop"
  /\ \E r \in Replies :
       /\ r.cursor # ScanCursorInitial
       /\ keys' = keys \o r.keys
       /\ ReturnPage(keys', makeScanCursor(shardIndex, r.cursor))
  /\ UNCHANGED <<count, shardIndex, shardCursor, errors, refused>>

\* The shard is exhausted: on to the next one, if the page has room.
ScanShardEnd ==
  /\ pc = "loop"
  /\ \E r \in Replies :
       /\ r.cursor = ScanCursorInitial
       /\ keys' = keys \o r.keys
  /\ shardIndex' = shardIndex + 1 /\ shardCursor' = ScanCursorInitial
  /\ IF More(shardIndex', keys')
     THEN UNCHANGED <<pc, cursor, seen, page>>
     ELSE ReturnPage(keys', makeScanCursor(shardIndex', ScanCursorInitial))
  /\ UNCHANGED <<count, errors, refused>>

\* The answer to a count of 0, no keys and any cursor of the first shard, is
\* returned as the shard gave it.
ScanZero ==
  /\ pc = "zero"
  /\ \E c \in 0..Len(ShardKeys(0)) : ReturnPage(<<>>, <<c>>)
  /\ UNCHANGED <<count, shardIndex, shardCursor, keys, errors, refused>>

\* Faulty variant: the keys collected before the error count as returned.
ScanShardErrorPartial ==
  /\ pc \in {"loop", "zero"} /\ errors < MaxErrors
  /\ errors' = errors + 1 /\ pc' = "idle" /\ seen' = seen \o keys
  /\ UNCHANGED <<cursor, count, shardIndex, shardCursor, keys, page, refused>>

\* The command fails: the page is dropped, the caller keeps the old cursor.
ScanShardError ==
  /\ pc \in {"loop", "zero"} /\ errors < MaxErrors
  /\ errors' = errors + 1 /\ pc' = "idle"
  /\ UNCHANGED <<cursor, count, shardIndex, shardCursor, keys, seen, page,
                 refused>>

Finished == pc = "done" /\ UNCHANGED vars

Scan == Call \/ CallZero \/ ScanZero \/ ScanShardPart \/ ScanShardEnd

Next == Scan \/ CallRefused \/ ScanShardError \/ Finished

Spec == Init /\ [][Next]_vars

\* The caller goes on, and after at most MaxErrors failures commands succeed.
FairSpec == Spec /\ WF_vars(Scan)

-----------------------------------------------------------------------------
(***************************************************************************)
(* scan never returns more keys than asked for, over all shards it visits. *)
(***************************************************************************)
PageWithinCount == page.len <= page.count

(***************************************************************************)
(* A walk gives each wanted key of each shard exactly once, in shard order,*)
(* also when commands failed on the way: at any time what the caller has   *)
(* seen is a prefix of those keys, and at the end it is all of them,       *)
(* unless the walk was ended by a page of count 0.  Every cursor the       *)
(* caller is given is accepted when it is passed back, but for the cursor  *)
(* of a page of count 0, which may be the first shard's own.               *)
(***************************************************************************)
Expected == OnlyWanted(FlattenSeq(Content))

WalkIsExact ==
  /\ IsPrefix(seen, Expected)
  /\ parseScanCursor(cursor).ok \/ page.count = 0
  /\ pc = "done" /\ page.count > 0 => seen = Expected

(***************************************************************************)
(* The walk ends: ScanCursorInitial comes back, or the cursor of a page of *)
(* count 0 that cannot be passed back.                                     *)
(***************************************************************************)
WalkEnds == <>(pc = "done" \/ ~parseScanCursor(cursor).ok)
=============================================================================
