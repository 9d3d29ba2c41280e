\* What returns under the fairness of the goroutines, whatever the server does.
SPECIFICATION FairSpec
CONSTANTS
    MaxStream = 1
    OutputLimit = 1
    IdleTicks = 2
    SlowOutput = TRUE
    MaxEvents = 2
PROPERTIES
    CancelEndsTurn
    EndsOnceWritten
