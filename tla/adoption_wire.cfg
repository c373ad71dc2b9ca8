CONSTANTS
    None = None
    Base = 4
    NotText = 3
    Colon = 1
    At = 2
    Names <- MCNames
    NoCap = NoCap
    NoScope = NoScope
    Needs <- MCNeeds
    MaxField = 5
    MaxCaps = 2
    DomainByte = 2
    Version = 1
    OwnerKeyLen = 1
    HubLen = 1
    RosterLen = 1
    TimeLen = 1
    SigLen = 1
    Grants <- MCGrants
    Rooms <- MCRooms
    Signature <- MCSignature
    MaxDamage = 2
SPECIFICATION WireSpec
INVARIANTS
    WireTypeOK
    FitsItsBuffer
    ReadAsSigned
    OneReading
    GrantedAsMeant
