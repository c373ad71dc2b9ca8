CONSTANTS
    s1 = s1
    s2 = s2
    manifest = manifest
    h1 = h1
    h2 = h2
    None = None
    Damaged = Damaged
    Secrets <- MCSecrets
    Names <- MCNames
    Prehashes <- MCPrehashes
    GenerateAttempts = 3
    Faults = TRUE
SPECIFICATION Spec
SYMMETRY Symmetry
INVARIANTS
    TypeOK
    DidStable
    RunningKeyIsStored
    PublicIsSecrets
    SignatureIsFresh
PROPERTIES
    NeverMintsOver
    PublicIsRemembered
