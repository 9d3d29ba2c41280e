\* Two processes that may name the same files, and one change by others; and
\* documents two edits away from a complete one.
SPECIFICATION MCSpec
CONSTANTS
    Procs = {p, q}
    Others = others
    NoFile = NoFile
    MaxChanges = 1
    MaxInt64 = 9
    maxEnvName = 2
    maxTokenBytes = 2
    NoConfig = NoConfig
    MaxEdits = 2
INVARIANTS
    TypeOK
    OneWriterPerFile
    FailureLeavesNothing
    SessionStartsValid
    ParseFollowsTheRules
PROPERTIES
    SignalEndsStartup
