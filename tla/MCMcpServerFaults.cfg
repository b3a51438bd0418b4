SPECIFICATION Spec
CONSTANTS
    LongMax = 99999
    w1 = w1
    w2 = w2
    Workers = {w1}
    Documents <- MCDocuments
    TextOf <- MCTextOf
    ReqMax <- TightMax
    Uids = {7, 12}
    Faults = {"cut", "page", "refuse"}
INVARIANTS
    OneCallPerRequest

    
