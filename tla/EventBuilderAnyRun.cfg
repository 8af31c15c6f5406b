CONSTANTS
    Sources = {s1, s2}
    Delay = 0
    NoBuffer = NoBuffer
    NoSource = NoSource
    MaxTriggers = 2
    MaxRuns = 2
    MaxSkews = 0
    MaxResends = 1
    MaxGarbage = 1

SPECIFICATION FairSpec

INVARIANTS
    HandedByNumber
    NoneWaits

PROPERTIES
    StoredIsConsumed
    StopReturns

CHECK_DEADLOCK FALSE
