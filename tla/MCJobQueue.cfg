\* Times are in half seconds, plans in whole ones.
\* One device, two job ids in succession, two deliveries per job, windows
\* shorter and longer than a lease.
SPECIFICATION FairSpec
CONSTANTS
    d1 = d1
    j1 = j1
    j2 = j2
    plain = plain
    capable = capable
    r1 = r1
    NULL = NULL
    UNREPORTED = UNREPORTED
    Device <- OneDevice
    JobId <- TwoJobs
    Inventory <- Inventories
    PreviewCapable <- Capable
    Request <- OneRequest
    MAX_ATTEMPTS = 2
    LEASE_SECONDS = 2
    WINDOW_HORIZON = 3
    WINDOW_LENGTH = 2
    PLAN_LIFETIME = 3
    PLAN_SKEW = 1
    BUSY_TIMEOUT = 1
    SECOND = 2
    IDLE = 0
\* Once every device is revoked the queue rightly stops.
CHECK_DEADLOCK FALSE
INVARIANTS
    TypeOK
    CompletedInWindow
    VerifiedCompletion
    FailedForCause
    OneActionPerDevice
    RevokedDeviceIdle
    AuditAccountsForJobs
PROPERTIES
    SettledJobsStay
    LeasesDisjoint
    ImplementsLifecycle
    PendingJobsSettle
