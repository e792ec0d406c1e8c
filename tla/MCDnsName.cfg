CONSTANTS
    Alphabet = {0, 1, 2, 3, 192, 193}
    MaxLen = 5
    Packets <- MCPackets
    Starts <- MCStarts
    NONE = none
SPECIFICATION FairSpec
INVARIANTS NoOverread DecodesExactly
PROPERTY Terminates
CHECK_DEADLOCK FALSE
