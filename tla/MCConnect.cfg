SPECIFICATION FairSpec
CONSTANTS
  OptionLists <- MCOptionLists
  Servers <- MCServers
  RequestSizes <- MCRequestSizes
  HelloSize <- MCHelloSize
  MaxReconnect = 2
  MaxRestarts = 3
INVARIANTS
  WithinServerLimit
  BufferFits
  OptionsDecide
  AuthFailureReported
PROPERTIES
  Recovers
CHECK_DEADLOCK FALSE
