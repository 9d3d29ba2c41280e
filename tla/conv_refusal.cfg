\* Budget and reserve both near the widest integer: the reserve leaves 400 units,
\* and 430 units with the reserve overflow.
SPECIFICATION ConvSpec
CONSTANTS
    sys = sys
    short = short
    long = long
    huge = huge
    empty = empty
    NoTurn = NoTurn
    Texts <- MCTexts
    Size <- MCSize
    SystemPrompt <- MCSystemPrompt
    UserTexts <- MCUserTexts
    Replies <- MCReplies
    MaxInt = 10030
    Budget = 10000
    Reserve = 9600
PROPERTIES
    RefusesOnlyOversizedMessages
