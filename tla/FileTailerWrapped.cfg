SPECIFICATION Spec
CONSTANTS
    MaxLength = 6
    Requests = {1, 2}
    Sizes = {5}
INVARIANT PrintsWrappedLines
CHECK_DEADLOCK FALSE
