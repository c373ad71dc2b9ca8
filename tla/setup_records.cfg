CONSTANTS
    Keys = {v, f, n}
    VerifierKey = v
    FailuresKey = f
    NameKey = n
    Values <- MCValues
    None = None
    TooSmall = TooSmall
    Corrupt = Corrupt
    NUL = 0
    Room = 4
    Builds <- MCBuilds
    VerifierLen = 2
    Names <- MCNames
    Images <- MCImages
    Worn <- MCWorn
    Limit = 2
SPECIFICATION Spec
INVARIANTS
    GuessesAreLimited
    CodeIsCurrent
PROPERTY
    KeepsContract
