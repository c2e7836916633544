\* The same agents, for what the README says of enrolling again.
CONSTANTS
    t1 = t1
    t2 = t2
    d1 = d1
    d2 = d2
    p1 = p1
    p2 = p2
    q1 = q1
    near = near
    far = far
    Token <- TwoTokens
    Device <- TwoDevices
    Home <- TwoHomes
    Process <- ThreeAgents
    home <- HomeOf
    LIFETIME = 1
    MAX_CLOCK = 2
    NULL = NULL
SPECIFICATION Spec
SYMMETRY Symmetry
INVARIANT ReenrolledRuns
