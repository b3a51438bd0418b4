SPECIFICATION FairSpec
CONSTANTS
    Urls <- MCUrls
    Addresses = 2
    BodySizes = {0, 3, 12, 13}
    OutSizes = {3, 9}
    Answers <- MCAnswers
    HostMax = 3
    PortMax = 2
    PathMax = 4
    HeadMax = 11
    HeadFixed = 5
    ReadBuf = 7
    RecordSize = 12
INVARIANTS
    CleanReturn
    BuffersHold
    WholeUnlessCut
    StallsOnlyOnLongBodies
PROPERTIES
    PostReturns
    IsExchange
CHECK_DEADLOCK FALSE
