\* Two processes, an upgrade and its reversal, a host that may end up broken.
SPECIFICATION Spec
CONSTANTS
    w1 = w1
    w2 = w2
    j1 = j1
    j2 = j2
    base = base
    upgraded = upgraded
    broken = broken
    NULL = NULL
    Worker <- TwoWorkers
    JobId <- TwoJobs
    Host <- Hosts
    Before <- Bases
    After <- Targets
    Expires <- Leases
    Policies <- SomePolicies
    Trusts <- SomeTrusts
    MAX_RECORDS = 3
    LAST = 2
SYMMETRY Symmetry
PROPERTIES
    CommittedOnce
    ResultsTrue
    NoCommitOverDoubt
    CommitAsApproved
