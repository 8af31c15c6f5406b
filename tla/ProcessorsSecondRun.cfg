SPECIFICATION Spec
CONSTANTS
    Order <- WriterFirst
    N = 2
    Sizes = {1, 3}
    Header = 1
    Limit = 3
    Backlog = 1
    Runs = {7}
    NoFile = NoFile
    MaxEvents = 4
    MaxStarts = 2
    MaxTime = 4
CHECK_DEADLOCK FALSE
INVARIANT RunIsOnDisk
