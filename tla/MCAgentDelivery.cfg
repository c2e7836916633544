\* One job with two deliveries and one abandoned request under way, or two jobs
\* in succession and a journal that has to make room.
SPECIFICATION Spec
CONSTANTS
    d1 = d1
    j1 = j1
    j2 = j2
    r1 = r1
    NULL = NULL
    UNREPORTED = UNREPORTED
    Agent = d1
    JobId <- TwoJobs
    Request <- OneRequest
    MAX_ATTEMPTS = 2
    LEASE_SECONDS = 1
    WINDOW_HORIZON = 1
    WINDOW_LENGTH = 1
    PLAN_LIFETIME = 2
    PLAN_SKEW = 1
    BUSY_TIMEOUT = 0
    SECOND = 1
    IDLE = 2
    MAX_RECORDS = 2
    RETENTION = 1
    LOOKUPS = 2
    LEAD = 0
    LATE = 1
SYMMETRY Symmetry
CONSTRAINT Succession
ACTION_CONSTRAINT Pause
INVARIANTS
    AcknowledgedIsCompleted
    CompletedIsRecorded
    VerdictsHold
