\* Two shards: the handler after the return of the call.
SPECIFICATION Spec
CONSTANTS
  Shards = {s1, s2}
  NoShard = NoShard
INVARIANTS
  NoHandleAfterReturn
