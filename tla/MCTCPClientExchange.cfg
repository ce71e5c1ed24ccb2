\* Calls of all kinds, one after the other, with a fair goroutine.
SPECIFICATION FairSpec
CONSTANTS
  Kinds = {"send", "chunked", "stream"}
  MaxReconnect = 2
  MaxCalls = 2
  MaxChunks = 2
  MaxBody = 2
  SocketBuffer = 2
INVARIANTS
  AuthenticatedFirst
  OwnAnswer
  OnlyOwnFrames
  AppliedPerAttempt
PROPERTIES
  CallsReturn
  StreamEndsWhenCut
