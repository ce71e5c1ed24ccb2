\* Pages of no to three keys, and failing commands.
SPECIFICATION FairSpec
CONSTANTS
  Content <- MCContent
  Wanted <- MCWanted
  Counts = {0, 1, 2, 3}
  Foreign <- MCForeign
  MaxErrors = 2
INVARIANTS
  PageWithinCount
  WalkIsExact
PROPERTIES
  WalkEnds
