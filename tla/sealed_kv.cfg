CONSTANTS
    devkey = devkey
    psk = psk
    chip = chip
    otherchip = otherchip
    a = a
    b = b
    Absent = Absent
    Names <- MCNames
    Blocks <- MCBlocks
    Lists <- MCLists
    Values <- MCValues
    MaxValue = 256
    Overhead = 32
    Faults = TRUE
SPECIFICATION Spec
INVARIANTS
    NeverAnotherValue
    SealedMeansSealed
PROPERTY SealingLosesNothing
