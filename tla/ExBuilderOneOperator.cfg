SPECIFICATION Spec
CONSTANTS
    Sources = {s1, s2}
    MaxEvent = 2
    MaxRestarts = 1
    MaxRegistered = 2
    Garbled = Garbled
    NoSource = NoSource
INVARIANTS
    TypeOK
    RulesKeepItAlive
    RegisteredIsSubscribed
 
CONSTRAINT Explored
SYMMETRY Symmetric
CHECK_DEADLOCK FALSE
