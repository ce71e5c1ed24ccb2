SPECIFICATION Spec
CONSTANTS
  Callers = {"p1", "p2"}
  Buffers = {b1, b2}
  NoBuffer = NoBuffer
  Answered = {"p1"}
  Texts <- MCTexts
  Counts <- MCCounts
  Calls <- MCCalls
INVARIANTS
  OwnCommandSent
  CommandsTellApart
  AnswerKept
  NothingInvented
  ErrorsKept
