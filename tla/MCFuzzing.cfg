\* Every draw, every edit of every string of the set, twice over.
SPECIFICATION Spec
CONSTANTS
    Literals <- MCLiterals
    Separators <- MCSeparators
    MaxByte = 10
    MaxInt16 = 10
    MaxInt32 = 21
    MaxGenerated = 2
    MaxPad = 1
INVARIANTS
    IntegersStayInRange
    OnlyTopWordsAbort
    StringsAreWhole
    BufferIsBigEnough
    EditsLoseNothing
PROPERTIES
    EvaluationEnds
\* The program ends where an assertion fails.
CHECK_DEADLOCK FALSE
