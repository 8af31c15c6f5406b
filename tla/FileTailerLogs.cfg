\* All files of up to 9 characters, the last 1 to 3 lines, buffers of 2 to 8.
SPECIFICATION Spec
CONSTANTS
    MaxLength = 9
    Requests = {1, 2, 3}
    Sizes = {2, 3, 5, 7, 8}
INVARIANTS
    TypeOK
    HoldsLastLines
    GivesUpOnlyIfFull
    PrintsLastLines
CHECK_DEADLOCK FALSE
