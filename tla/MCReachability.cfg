SPECIFICATION FairSpec
CONSTANTS
  NumStates = 4
  Descriptions <- MCDescriptions
INVARIANTS
  Exact
PROPERTIES
  Terminates
CHECK_DEADLOCK FALSE
