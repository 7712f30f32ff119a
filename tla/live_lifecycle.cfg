SPECIFICATION FairLifecycleSpec
CONSTANTS
    Specs = {"a","b"}
    ValidSpecs = {"a","b"}
    SpecIdle <- WindowOfA
    IdleTimeout = 0
    ErrorClasses = {"APIError"}
    GuardSeq <- OneGuard
    DynamicKinds = {"egress"}
    RbacKinds = {}
    Images = {"v1"}
    PodFailures = {}
    Disruptions = {"api","delete"}
    MaxDisruptions = 1
    MaxTime = 3
    MaxUid = 1
    Requests = {"r1","r2"}
    RequestKinds = {"page"}
    ClaimSpecs = {"b"}
PROPERTIES
    IdleStops
    DeletionCompletes
    WakesUp
CHECK_DEADLOCK FALSE
