SPECIFICATION Spec
CONSTANTS
  MachineStates <- MCMachineStates
  StartingState = "s0"
  ObjectVariables <- MCObjectVariables
  Parameters <- MCParameters
  Values <- MCValues
  Interfaces <- MCInterfaces
  Methods <- MCMethods
  Properties <- MCProperties
  InArgs <- MCInArgs
  InitialObject <- MCInitialObject
  Descriptions <- MCDescriptions
  Filtered <- MCFiltered
  Unit = Unit
  FailedError = FailedError
INVARIANT
  OneOutcome
CHECK_DEADLOCK FALSE
