\* Every order of loads, reads, writes and deaths.
SPECIFICATION FairSpec
CONSTANTS
    Characters = {"u", "n", "i", "x"}
    Addresses <- MCAddresses
    PieceSize = 2
    Sources <- MCSources
INVARIANTS
    CompletesTwiceOnlyIfBothFail
    AddressIsWhole
    AddressAssertionsHold
PROPERTIES
    AddressReported
\* main () exits when something fails, and the simulation is elsewhere.
CHECK_DEADLOCK FALSE
