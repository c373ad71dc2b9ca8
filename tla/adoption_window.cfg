CONSTANTS
    ann = ann
    bob = bob
    me = me
    other = other
    None = None
    Owners <- MCOwners
    Devices <- MCDevices
    Me = me
    MaxVersion = 2
    MaxTime = 1
    Deliverable <- MCDeliverable
    Envelopes <- NoEnvelopes
    AtomicReplace = FALSE
    SettingsHeld = FALSE
    Faults = FALSE
SPECIFICATION Spec
INVARIANT NeverSilentlyRebound
