CONSTANTS
    r1 = r1
    r2 = r2
    a = a
    b = b
    Dollar = Dollar
    NoReader = NoReader
    Readers <- MCReaders
    Streams <- MCStreams
    Word = 4
    Times <- MCTimes
    AddArgs <- MCAddArgs
    Asks <- MCAsks
    Ranges <- MCRanges
SPECIFICATION FairSpec
INVARIANTS
    TypeOK
    NoStalePlace
    HolderIsSignalled
    RangeOmitsNothing
PROPERTIES
    IdsIncrease
    ImplementsStreams
    EveryReadAnswered
CHECK_DEADLOCK FALSE
