CONSTANTS
    c1 = c1
    r1 = r1
    r2 = r2
    Clients <- OneClient
    Replicas <- OneReplica
    TxClients <- OnlyC1
    SubClients <- OnlyC1
    Mortal <- OnlyR1
    Cmds <- SetAndIncr
    MaxFds = 2
    MaxWrites = 3
    MaxWaits = 2
SPECIFICATION FairSpec
INVARIANTS
    Converges
PROPERTIES
    JoinsEventually
    WritesArrive
CHECK_DEADLOCK FALSE
