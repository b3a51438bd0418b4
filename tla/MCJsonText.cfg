SPECIFICATION TextSpec
CONSTANTS
    LongMax = 99999
    Alphabet <- PlainAlphabet
    MaxLength = 8
INVARIANTS
    ConvertsToItsTree
    ScanCopiesOneValue
    IteratesOwnMembers
CHECK_DEADLOCK FALSE
