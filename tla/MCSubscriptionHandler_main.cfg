CONSTANTS
    a = a
    b = b
    NoObject = NoObject
    Fds <- MCFds
    Channels <- MCChannels
    Objects <- MCObjects
    ChannelArgs <- MCArgs
    MaxHeld = 2
SPECIFICATION Spec
INVARIANTS
    MapsInv
    CountTellsTheMode
PROPERTIES
    ImplementsPubSub
