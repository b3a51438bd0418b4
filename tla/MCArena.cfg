SPECIFICATION Spec
CONSTANTS
    WordBytes = 2
    DefaultCapacity = 4
    Sizes <- MCSizes
    MaxRegions = 3
    MaxLive = 4
    MaxMarks = 2
INVARIANTS
    TypeOK
    Disjoint
    InsideRegion
    NoLeak
    MarksSound
