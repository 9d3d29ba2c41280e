\* Output that may take as long as the idle timeout.
SPECIFICATION Spec
CONSTANTS
    MaxStream = 2
    OutputLimit = 2
    IdleTicks = 2
    SlowOutput = TRUE
    MaxEvents = 2
INVARIANTS
    IdleMeansSilence
