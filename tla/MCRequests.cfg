SPECIFICATION Spec
CONSTANTS
    LongMax = 99999
    NoId = NoId
    Ids <- MCIds
    MethodNames <- MCMethods
    Tools <- MCTools
    ArgumentMembers <- MCArguments
    MaxArguments = 3
INVARIANTS
    CallIsMeant
    CompleteCallsPlaced
    IdAnswered
CHECK_DEADLOCK FALSE
