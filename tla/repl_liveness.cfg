\* A signal ends the process once what it writes is read.
SPECIFICATION PausedSpec
CONSTANTS
    sys = sys
    short = short
    huge = huge
    empty = empty
    reply = reply
    NoTurn = NoTurn
    NoText = NoText
    NoItem = NoItem
    Texts <- MCTexts
    Size <- MCSize
    SystemPrompt <- MCNoSystemPrompt
    UserTexts <- MCShort
    Replies <- MCReply
    MaxInt = 100000
    Budget = 255
    Reserve = 20
    MaxLines = 1
    MaxSignals = 2
PROPERTIES
    SignalEndsTheRun
