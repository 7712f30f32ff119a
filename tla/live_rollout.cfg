SPECIFICATION FairRolloutSpec
CONSTANTS
    Specs = {"a"}
    ValidSpecs = {"a"}
    SpecIdle <- InheritIdle
    IdleTimeout = 0
    ErrorClasses = {"APIError"}
    GuardSeq <- OneGuard
    DynamicKinds = {"egress"}
    RbacKinds = {}
    Images = {"v1","v2"}
    PodFailures = {}
    Disruptions = {"api","restart","resync"}
    MaxDisruptions = 3
    MaxTime = 1
    MaxUid = 1
    Requests = {}
    RequestKinds = {"page"}
    ClaimSpecs = {"a"}
PROPERTIES
    Converges
CHECK_DEADLOCK FALSE
