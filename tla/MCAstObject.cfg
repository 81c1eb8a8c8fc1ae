\* Every description, loaded in every order and run for MaxCalls transitions.
SPECIFICATION Spec
CONSTANTS
    Descriptions <- MCDescriptions
    Introspection <- MCIntrospection
    Arguments <- MCArguments
    GreatestValue <- MCGreatestValue
    FuzzedValues <- MCFuzzedValues
    ValidNames <- MCValidNames
    ObjectPaths <- MCObjectPaths
    TypeStrings <- MCTypeStrings
    Signatures <- MCSignatures
    PreCheck <- PreCheckOf
    Check <- CheckOf
    CalculateType <- CalculateTypeOf
    Evaluate <- EvaluateOf
    ToVariant <- ToVariantOf
    IsVariable <- IsVariableOf
    SetFromVariant <- SetFromVariantOf
    IsSubtype <- IsSubtypeOf
    IsDefinite <- IsDefiniteOf
    IsType <- IsTypeOf
    IsParsed <- IsParsedOf
    LeavesOf <- LeavesIn
    MaxNesting = 6
    IsValue <- IsValueOf
    IsBuilt <- IsBuiltOf
    PlacesFit <- PlacesFitIn
    MaxCalls = 2
INVARIANTS
    ValuesAreOfTheirTypes
    SentAsDeclared
    OnlyFuzzyVaries
    AssignmentStores
    BuiltinsUndoOneAnother
    AcceptedObjectsAreMachines
    OnlyKnownAborts
    ExpressionsAreSound
\* A description that is refused, and one that has run its transitions, ends.
CHECK_DEADLOCK FALSE
