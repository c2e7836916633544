\* Four credentials of one lifetime, issued and rotated at different times.
SPECIFICATION Spec
CONSTANTS
    c1 = c1
    c2 = c2
    c3 = c3
    c4 = c4
    t1 = t1
    t2 = t2
    NULL = NULL
    LOCAL_ADMINISTRATOR = LOCAL_ADMINISTRATOR
    Id <- FourIds
    Thread <- TwoThreads
    Lifetimes <- SomeLifetimes
    OVERLAP = 2
    LAST = 3
SYMMETRY Symmetry
INVARIANTS
    HandoverPair
    NeverLockedOut
    RevocationReaches
