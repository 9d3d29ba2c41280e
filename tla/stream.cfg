\* Output that is written at once.
SPECIFICATION Spec
CONSTANTS
    MaxStream = 3
    OutputLimit = 2
    IdleTicks = 2
    SlowOutput = FALSE
    MaxEvents = 4
INVARIANTS
    TypeOK
    TextIsTheStream
    CompleteOrNothing
    BlameIsRight
    ReplContract
    StopsPromptly
    IdleMeansSilence
