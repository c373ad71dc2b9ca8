CONSTANTS
    zero = zero
    n1 = n1
    n2 = n2
    n3 = n3
    n4 = n4
    Nonces <- MCNonces
    ZeroNonce = zero
    N = 3
SPECIFICATION Spec
INVARIANTS
    RemembersLastN
PROPERTY IsQueue
