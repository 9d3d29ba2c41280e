\* Whole sessions: every mix of lines, failures and replies, with up to two
\* signals at every point.
SPECIFICATION Spec
CONSTANTS
    sys = sys
    short = short
    huge = huge
    empty = empty
    reply = reply
    NoTurn = NoTurn
    NoText = NoText
    NoItem = NoItem
    Texts <- MCTexts
    Size <- MCSize
    SystemPrompt <- MCSystemPrompt
    UserTexts <- MCUserTexts
    Replies <- MCReplies
    MaxInt = 100000
    Budget = 255
    Reserve = 20
    MaxLines = 3
    MaxSignals = 2
INVARIANTS
    TypeOK
    StagedIffInFlight
    RecordsReplayToHistory
    RequestsExplainedByRecords
    OneRecordPerLine
    ExitCodeMeaning
    FirstSignalDecides
    InterruptEndsTheRun
PROPERTIES
    ImplementsContract
