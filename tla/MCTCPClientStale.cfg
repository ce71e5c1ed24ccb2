\* Two unary calls, one after the other, on one pooled connection.
SPECIFICATION Spec
CONSTANTS
  Kinds = {"send"}
  MaxReconnect = 1
  MaxCalls = 2
  MaxChunks = 1
  MaxBody = 1
  SocketBuffer = 2
INVARIANTS
  AnswersMatch
