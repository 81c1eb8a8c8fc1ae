SPECIFICATION FairSpec
CONSTANTS
  Objects <- MCObjects
  BusNames <- MCBusNames
  Exports <- MCExports
  MethodOutputs <- MCMethodOutputs
  OtherOutputs <- MCOtherOutputs
  unfuzzed_transition_limit = 1
  MaxResults = 1
INVARIANTS
  TypeOK
  Coupled
  Answered
PROPERTIES
  ImplementsLifecycle
  RegistrationCompletes
