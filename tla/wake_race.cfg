SPECIFICATION StoppedSpec
CONSTANTS
    Specs = {"a"}
    ValidSpecs = {"a"}
    SpecIdle <- InheritIdle
    IdleTimeout = 0
    ErrorClasses = {"APIError"}
    GuardSeq <- OneGuard
    DynamicKinds = {"egress"}
    RbacKinds = {}
    Images = {"v1"}
    PodFailures = {}
    Disruptions = {"api","delete"}
    MaxDisruptions = 2
    MaxTime = 2
    MaxUid = 1
    Requests = {"r1"}
    RequestKinds = {"page","terminal"}
    ClaimSpecs = {"a"}
INVARIANTS
    NeverQuietMidway
    RunningIsTrue
PROPERTIES
    LastAccessedKept
    LeftAlone
