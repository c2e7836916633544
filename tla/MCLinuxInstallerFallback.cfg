\* Three releases and two receipt schemas, against the documented fallback.
SPECIFICATION Installer
CONSTANTS
    r1 = r1
    r2 = r2
    r3 = r3
    NONE = NONE
    Release <- ThreeReleases
    Supports <- Schemas
SYMMETRY SameSchema
PROPERTY
    PreviousRestored
