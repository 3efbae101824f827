CONSTANTS
    k1 = k1
    k2 = k2
    word = word
    digits = digits
    empty = empty
    NoValue = NoValue
    Keys <- MCKeys
    Texts <- MCTexts
    Empty <- empty
    LengthOf <- MCLengths
    Leading <- MCLeading
    Matches <- MCMatches
    SetValues <- MCValues
    Px <- ShortPx
    MaxInt = 7
    UsecPerMs = 2
    MsPerSec = 2
    Files <- MCFiles
    MaxTime = 7
    MaxWrites = 2
SPECIFICATION Spec
INVARIANT
    AcknowledgedIsReadable
