CONSTANTS
    c1 = c1
    c2 = c2
    c3 = c3
    k1 = k1
    k2 = k2
    NoClient = NoClient
    Clients <- MCClients
    Keys <- MCKeys
    FdOf <- DistinctFds
    BlockKeys <- CompetingKeys
    Impatient <- Nobody
    Ranges <- NoRanges
    MaxElems = 3
    MaxPush = 2
SPECIFICATION FairSpec
INVARIANTS
    TypeOK
    OneResponder
PROPERTIES
    OnlyRacesCrash
    BlocksOnlyOnEmpty
    ImplementsService
    EveryCommandAnswered
