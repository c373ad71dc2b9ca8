CONSTANTS
    ann = ann
    bob = bob
    me = me
    other = other
    None = None
    Owners <- MCOwners
    Devices <- MCDevices
    Me = me
    MaxVersion = 2
    MaxTime = 1
    Deliverable <- MCDeliverable
    Envelopes <- NoEnvelopes
    AtomicReplace = FALSE
    SettingsHeld = TRUE
    Faults = FALSE
SPECIFICATION FairSpec
INVARIANTS
    NeverSilentlyRebound
    SettingsClearedByBoot
    StatementPinMarked
PROPERTIES
    GrantNeverGoesBack
    BegunIsCompleted
    SettingsEmptied
