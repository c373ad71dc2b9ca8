CONSTANTS
    KeyBase = 4
    Radix = 3
    KeyLen = 2
    MaxBase58 = 3
    Tags = {2, 3}
    Curve <- MCCurve
    Prefix <- MCPrefix
    NoKey = NoKey
    Keys <- MCKeys
    Byte <- MCByte
    MaxLen = 8
    MaxTime = 3
    MaxTtl = 2
    NonceLen = 1
    Be16 <- MCBe16
    Be64 <- MCBe64
    EnvelopeVersion = 1
    StatusVersion = 1
    Domain <- MCDomain
    Claims <- MCClaims
    Requests <- MCRequests
    Roster <- MCRoster
    Json <- MCJson
    MaxSigned = 2
SPECIFICATION Spec
INVARIANTS
    TypeOK
    AcceptedWasMeant
    NotMalleable
    OneSpelling
    SignInsWereAsked
