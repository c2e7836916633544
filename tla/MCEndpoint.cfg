\* Two agents on one home and one on another, two tokens and two devices; three
\* releases, two receipt schemas, interruptions anywhere; an application and its
\* library, three states of the sources, two surprises.
SPECIFICATION Endpoint
CONSTANTS
    t1 = t1
    t2 = t2
    d1 = d1
    d2 = d2
    p1 = p1
    p2 = p2
    q1 = q1
    near = near
    far = far
    Token <- TwoTokens
    Device <- TwoDevices
    Home <- TwoHomes
    Process <- ThreeAgents
    home <- HomeOf
    LIFETIME = 1
    MAX_CLOCK = 1
    NULL = NULL
    r1 = r1
    r2 = r2
    r3 = r3
    NONE = NONE
    Release <- ThreeReleases
    Supports <- Schemas
    app = app
    lib = lib
    a1 = a1
    a2 = a2
    NOTHING = NOTHING
    Package <- TwoPackages
    VERSIONS = 2
    Artifact <- Archives
    Needs <- Dependency
    Hosts <- SomeHosts
    Sources <- SomeSources
    Requests <- SomeRequests
    Policies <- SomePolicies
    PLAN_LIFETIME = 1
    MAX_CHANGES = 2
    MAX_PLANS = 2
    SURPRISES = 2
    LAST = 2
SYMMETRY EndpointSymmetry
CONSTRAINT FewStrays
INVARIANTS
    OneDevicePerToken
    OneIdentityPerHome
    CurrentComplete
    PlanWhole
PROPERTIES
    RollbackOpens
    CommitAsShown
