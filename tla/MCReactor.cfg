SPECIFICATION ReactorSpec
CONSTANTS
    WordBytes = 2
    DefaultCapacity = 8
    Sizes = {}
    MaxRegions = 6
    MaxLive = 12
    MaxMarks = 3
    Strings <- MCStrings
    Pieces <- MCPieces
    Capacity = 3
    MaxBufs = 2
    Names <- MCNames
    BodySizes <- MCBodySizes
    OutSize = 8
    ErrorText <- MCErrorText
    MaxRequests = 3
    MaxSteps = 4
    NoRequest = NoRequest
INVARIANTS
    TextsReadBack
    TextsEnd
PROPERTIES
    RetryIsAnswered
    AnswerIsRead
CHECK_DEADLOCK FALSE
