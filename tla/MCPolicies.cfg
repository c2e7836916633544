\* Two sessions, pages of one, collections limited to two objects; an age and a
\* tolerance of one, and time for reports to grow old.
SPECIFICATION Policies
CONSTANTS
    e1 = e1
    e2 = e2
    NULL = NULL
    NONE = NONE
    Editor <- TwoEditors
    GroupId = {1}
    PolicyId = {1, 2, 3}
    Device = {1, 2}
    MAX_OBJECTS = 2
    LIMIT = 1
    MAX_SAVES = 4
    MAX_AGE = 1
    SKEW = 1
    QUERY = 1
    Offset <- Offsets
    FLIGHT = 1
    LAST = 4
SYMMETRY Symmetry
INVARIANTS
    PagedOnce
    VerdictIsRecent
PROPERTY
    NoLostEdit
