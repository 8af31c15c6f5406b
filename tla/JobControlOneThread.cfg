SPECIFICATION Spec
CONSTANTS
    Threads = {web}
    Names = {A, B}
    Pids = {1, 2, 3}
    Fatal = {TRUE}
    NoJob = NoJob
    Garbled = Garbled
INVARIANTS
    TypeOK
    ChildrenAreKnown
    NoChildUnlessRunning
    NoEntryUnlessRunning
    OneProcessPerJob
