CONSTANTS
    cam = cam
    bell = bell
    ann = ann
    a1 = a1
    n1 = n1
    n2 = n2
    Other = Other
    None = None
    Devices <- MCDevices
    Grants <- MCGrants
    Nonces <- MCNonces
    Extras <- MCExtras
    MaxBodies = 2
SPECIFICATION Spec
SYMMETRY Symmetry
INVARIANTS
    AcceptedWasHeld
    AnswersVerify
