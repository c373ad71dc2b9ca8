CONSTANTS
    identity = identity
    nvs = nvs
    None = None
    Labels <- MCLabels
    Tables <- MCTables
    MaxAddr = 31
    PageSize = 4
    WordSize = 2
    Capacity = 16
    Offsets <- MCOffsets
    Counts <- MCCounts
SPECIFICATION Spec
INVARIANT StaysInside
