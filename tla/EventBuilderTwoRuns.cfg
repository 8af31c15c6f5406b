CONSTANTS
    Sources = {s1, s2}
    Delay = 1
    NoBuffer = NoBuffer
    NoSource = NoSource
    MaxTriggers = 2
    MaxRuns = 2
    MaxSkews = 0
    MaxResends = 0
    MaxGarbage = 0

SPECIFICATION Spec

INVARIANT SameTimeTag

CHECK_DEADLOCK FALSE
