\* Two jobs with two attempts each compete for two places in the journal.
SPECIFICATION Spec
CONSTANTS
    j1 = j1
    j2 = j2
    x = x
    y = y
    NULL = NULL
    JobId <- Jobs
    Digest <- Digests
    MAX_ATTEMPTS = 2
    MAX_RECORDS = 2
    RETENTION = 1
    LOOKUPS = 1
    LAST = 3
SYMMETRY Symmetry
CHECK_DEADLOCK FALSE
INVARIANTS
    TypeOK
    MutationsSerialized
    ResultsComplete
PROPERTIES
    EvidenceKept
