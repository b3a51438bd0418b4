SPECIFICATION Spec
CONSTANTS
    LongMax = 99999
    w1 = w1
    w2 = w2
    Workers = {w1}
    Documents <- CallDocuments
    TextOf <- CallTextOf
    ReqMax = 100
    Uids = {7, 12}
    Faults = {"cut"}
INVARIANTS
    UidIssued
