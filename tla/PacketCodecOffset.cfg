SPECIFICATION Spec
CONSTANTS
    Packets <- MCPackets
    Leftover <- MCLeftover
    MaxPackets = 3
    WellFormed <- IsValidContent
    Meanings <- MCMeanings

PROPERTY NextReadAfterLength
CHECK_DEADLOCK FALSE
