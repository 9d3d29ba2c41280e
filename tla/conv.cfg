\* MaxInt a little over the budget: candidates fit, are too big or overflow.
SPECIFICATION ConvSpec
CONSTANTS
    sys = sys
    short = short
    long = long
    huge = huge
    empty = empty
    NoTurn = NoTurn
    Texts <- MCTexts
    Size <- MCSize
    SystemPrompt <- MCSystemPrompt
    UserTexts <- MCUserTexts
    Replies <- MCReplies
    MaxInt = 450
    Budget = 420
    Reserve = 20
INVARIANTS
    ConvTypeOK
    HistoryIsPairs
    StagedIsLongestThatFits
    HistoryWasARequest
    TrimmingEnds
    EstimateIsExact
