CONSTANTS
    Sources = {s1, s2}
    Delay = 1
    NoBuffer = NoBuffer
    NoSource = NoSource
    MaxTriggers = 3
    MaxRuns = 1
    MaxSkews = 1
    MaxResends = 0
    MaxGarbage = 0

SPECIFICATION Spec

INVARIANTS
    TypeOK
    OneFragmentPerSource
    Custody

PROPERTIES
    DropsOnlyLate
    ImplementsAssembly

CHECK_DEADLOCK FALSE
