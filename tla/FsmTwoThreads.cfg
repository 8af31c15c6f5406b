SPECIFICATION FairSpec
CONSTANTS
    Threads = {rpc, web}
    Commands = {"CONFIGURE", "START", "STOP", "HALT", "RESUME"}
    States = {"CREATED", "CONFIGURED", "RUNNING"}
    Callbacks = {"configure", "start", "stop", "halt"}
    Created = "CREATED"
    Table <- ServerTable
    Garbled = Garbled
INVARIANTS
    TypeOK
    PublishedIsState
PROPERTIES
    EveryCallAnswered
