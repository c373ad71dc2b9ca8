CONSTANTS
    ann = ann
    bob = bob
    me = me
    other = other
    None = None
    Owners <- MCOwners
    Devices <- MCDevices
    Me = me
    MaxVersion = 2
    MaxTime = 1
    Deliverable <- MCDeliverable
    Envelopes <- MCEnvelopes
    AtomicReplace = TRUE
    SettingsHeld = FALSE
    Faults = TRUE
SPECIFICATION Spec
SYMMETRY Symmetry
INVARIANTS
    TypeOK
    GrantBacksPin
    RedoAdmitted
    NeverSilentlyRebound
PROPERTY ImplementsBinding
