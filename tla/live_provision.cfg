SPECIFICATION FairSpec
CONSTANTS
    Specs = {"a"}
    ValidSpecs = {"a"}
    SpecIdle <- InheritIdle
    IdleTimeout = 0
    ErrorClasses = {"APIError"}
    GuardSeq <- OneGuard
    DynamicKinds = {"egress"}
    RbacKinds = {}
    Images = {"v1"}
    PodFailures = {"Stuck"}
    Disruptions = {"api","pod","restart"}
    MaxDisruptions = 1
    MaxTime = 1
    MaxUid = 1
    Requests = {}
    RequestKinds = {"page"}
    ClaimSpecs = {"a"}
PROPERTIES
    Converges
CHECK_DEADLOCK FALSE
