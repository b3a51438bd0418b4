SPECIFICATION Spec
CONSTANTS
    LongMax = 99999
    NoId = NoId
    Ids <- MCIds
    MethodNames <- CallMethod
    Tools <- WriteTools
    ArgumentMembers <- MCArguments
    MaxArguments = 3
INVARIANTS
    CreatePlaced
CHECK_DEADLOCK FALSE
