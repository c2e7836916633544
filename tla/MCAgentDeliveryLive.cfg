\* One job, a refresh, with a window or without, or a preview, with two deliveries
\* and one abandoned request under way, under fair scheduling.
SPECIFICATION FairSpec
CONSTANTS
    d1 = d1
    j1 = j1
    j2 = j2
    r1 = r1
    NULL = NULL
    UNREPORTED = UNREPORTED
    Agent = d1
    JobId <- OneJob
    Request <- OneRequest
    MAX_ATTEMPTS = 2
    LEASE_SECONDS = 1
    WINDOW_HORIZON = 1
    WINDOW_LENGTH = 1
    PLAN_LIFETIME = 2
    PLAN_SKEW = 1
    BUSY_TIMEOUT = 0
    SECOND = 1
    IDLE = 0
    MAX_RECORDS = 4
    RETENTION = 100
    LOOKUPS = 2
    LEAD = 0
    LATE = 1
CONSTRAINT Resolvable
ACTION_CONSTRAINT ScansAfresh
PROPERTIES
    EvidenceResolved
