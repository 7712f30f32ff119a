SPECIFICATION RunningSpec
CONSTANTS
    Specs = {"a"}
    ValidSpecs = {"a"}
    SpecIdle <- InheritIdle
    IdleTimeout = 0
    ErrorClasses = {"APIError"}
    GuardSeq <- OneGuard
    DynamicKinds = {"egress"}
    RbacKinds = {}
    Images = {"v1"}
    PodFailures = {}
    Disruptions = {"delete"}
    MaxDisruptions = 1
    MaxTime = 1
    MaxUid = 2
    Requests = {"r1"}
    RequestKinds = {"page"}
    ClaimSpecs = {"a"}
INVARIANTS
    VolumeIsOwned
