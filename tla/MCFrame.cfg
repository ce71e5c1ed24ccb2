SPECIFICATION FairSpec
CONSTANTS
  Base = 2
  HeaderSize = 2
  MaxMessageSize = 2
  Payloads <- MCPayloads
  MaxFrames = 3
  MaxFails = 1
PROPERTIES
  ImplementsChannel
  FramesArrive
CHECK_DEADLOCK FALSE
