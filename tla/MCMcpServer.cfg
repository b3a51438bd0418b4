SPECIFICATION Spec
CONSTANTS
    LongMax = 99999
    w1 = w1
    w2 = w2
    Workers <- MCWorkers
    Documents <- MCDocuments
    TextOf <- MCTextOf
    ReqMax = 100
    Uids = {7, 12}
    Faults = {"lost", "refuse"}
SYMMETRY Symmetry
INVARIANTS
    TypeOK
    UidIssued
    CgiHealthIsLive
PROPERTIES
    KeepsPromise
