CONSTANTS
    c1 = c1
    c2 = c2
    c3 = c3
    NoClient = NoClient
    Clients <- MCClients
    FdOf <- SharedFds
    Impatient <- MCImpatient
    Blockers <- MCBlockers
    MaxAsked = 5
SPECIFICATION Spec
INVARIANTS
    TypeOK
    OneReplyEach
    TransactionsAccountedFor
PROPERTIES
    SubscribedRunsNoData
