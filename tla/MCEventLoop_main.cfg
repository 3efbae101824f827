CONSTANTS
    ServerFd = 3
    PipeFd = 4
    Clients <- MCClients
    Replicas <- MCReplicas
    Commands <- MCCommands
    Slow <- MCSlow
    Closers <- MCClosers
    Resetters <- MCResetters
    MaxCount = 1
SPECIFICATION FairSpec
INVARIANTS
    TypeOK
    ParsedAsSent
    NothingUnreadAtClose
    StallsOnlyAfterWait
    
PROPERTIES
    NothingAfterSignal
    WholeCommandsAreRead
    SignalEndsLoop
CHECK_DEADLOCK FALSE
