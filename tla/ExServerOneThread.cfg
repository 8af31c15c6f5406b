SPECIFICATION FairSpec
CONSTANTS
    Threads = {web}
    Sources = {s1}
    Copies = 2
    MaxEvent = 3
    MaxRuns = 2
    Garbled = Garbled
INVARIANTS
    TypeOK
    HeaderNotOlder
    ReadersHaveSources
    OneReaderPerSource
PROPERTIES
    NumbersIncrease
    CommandsReturn
