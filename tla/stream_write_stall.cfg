\* A server that accepts the connection and never reads the request.
SPECIFICATION FairSpec
CONSTANTS
    MaxStream = 1
    OutputLimit = 1
    IdleTicks = 1
    SlowOutput = TRUE
    MaxEvents = 1
PROPERTIES
    EveryTurnEnds
