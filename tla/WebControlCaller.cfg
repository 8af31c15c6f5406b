SPECIFICATION Spec
CONSTANTS
    Documents <- Configurations
    Self <- Process
    Given = {"s"}
    Null = Null
    Garbled = Garbled
INVARIANT ToldIsDone
