SPECIFICATION FairSpec
CONSTANTS
  MachineStates <- MCMachineStates
  StartingState = "s0"
  ObjectVariables <- MCObjectVariables
  Parameters <- MCParameters
  Values <- MCValues
  Interfaces <- MCInterfaces
  Methods <- MCMethods
  Properties <- MCProperties
  InArgs <- MCInArgs
  InitialObject <- MCInitialObject
  Descriptions <- MCDescriptions
  Filtered <- MCFiltered
  Unit = Unit
  FailedError = FailedError
INVARIANTS
  TypeOK
  AnsweredOnce
  MovesAlongTransition
  RefusalLeavesNoTrace
  ThrowsOnlyAsLastResort
  RefusesOnlyIfNoneEligible
  LocalsRestored
  VariablesExist
  NeverUnreachable
PROPERTIES
  StateMovesOnlyAtEnd
  CallReturns
CHECK_DEADLOCK FALSE
