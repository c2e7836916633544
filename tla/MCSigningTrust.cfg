\* Three processes of two releases, two agents, keys that replace each other.
SPECIFICATION Spec
CONSTANTS
    p1 = p1
    p2 = p2
    p3 = p3
    g1 = g1
    g2 = g2
    t1 = t1
    t2 = t2
    k1 = k1
    k2 = k2
    EMPTY = EMPTY
    UNSIGNED = UNSIGNED
    NULL = NULL
    Portal <- ThreePortals
    Release <- TwoReleases
    Token <- TwoTokens
    Key <- TwoKeys
    Agent <- TwoAgents
SYMMETRY Symmetry
INVARIANTS
    OneAdministrator
    LadderHolds
    NoneRefused
