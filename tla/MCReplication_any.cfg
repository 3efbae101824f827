CONSTANTS
    c1 = c1
    r1 = r1
    r2 = r2
    Clients <- OneClient
    Replicas <- TwoReplicas
    TxClients <- Nobody
    SubClients <- Nobody
    Mortal <- OnlyR1
    Cmds <- SetAndIncr
    MaxFds = 3
    MaxWrites = 2
    MaxWaits = 2
SPECIFICATION Spec
INVARIANTS
    ReplicaInv
    WaitCountSound
    
PROPERTIES
    ImplementsLog
CHECK_DEADLOCK FALSE
