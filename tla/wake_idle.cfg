SPECIFICATION FairStoppedSpec
CONSTANTS
    Specs = {"a"}
    ValidSpecs = {"a"}
    SpecIdle <- InheritIdle
    IdleTimeout = 1
    ErrorClasses = {"APIError"}
    GuardSeq <- OneGuard
    DynamicKinds = {"egress"}
    RbacKinds = {}
    Images = {"v1"}
    PodFailures = {}
    Disruptions = {}
    MaxDisruptions = 0
    MaxTime = 3
    MaxUid = 1
    Requests = {"r1"}
    RequestKinds = {"terminal"}
    ClaimSpecs = {"a"}
PROPERTIES
    WakesUp
