CONSTANTS
    c1 = c1
    c2 = c2
    c3 = c3
    k1 = k1
    k2 = k2
    NoClient = NoClient
    Clients <- MCClients
    Keys <- OneKey
    FdOf <- SharedFds
    BlockKeys <- SameKey
    Impatient <- OnlyC1
    Ranges <- MCRanges
    MaxElems = 3
    MaxPush = 2
SPECIFICATION Spec
INVARIANTS
    ElementsConserved
    LRangeExact
