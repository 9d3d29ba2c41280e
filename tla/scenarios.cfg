\* The catalogue against a client with every credential, with limits that no
\* scenario reaches; the decoder on every short input.
SPECIFICATION MCSpec
CONSTANTS
    MaxStream = 6
    OutputLimit = 4
    IdleTicks = 1
    SlowOutput = FALSE
    MaxEvents = 6
    Tokens = {sentinel, other}
    MaxBytes = 6
    MaxText = 5
INVARIANTS
    NotesHold
    AnsweredMeansRecorded
    SSEReadsTheStandard
    SSEDeliversAtOnce
    RedactionIsWhole
