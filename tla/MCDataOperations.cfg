\* Four jobs, pages of two, a window of one.
SPECIFICATION DataSpec
CONSTANTS
    j1 = j1
    j2 = j2
    j3 = j3
    j4 = j4
    NONE = NONE
    JobId <- FourJobs
    WINDOW = 1
    LIMIT = 2
    LAST = 2
SYMMETRY Symmetry
INVARIANTS
    PagedOnce
PROPERTIES
    RemovedIsBackedUp
