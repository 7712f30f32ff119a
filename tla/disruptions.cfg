SPECIFICATION FirstImageSpec
CONSTANTS
    Specs = {"a","b","bad"}
    ValidSpecs = {"a","b"}
    SpecIdle <- OwnIdle
    IdleTimeout = 0
    ErrorClasses = {"APIError"}
    GuardSeq <- TwoGuards
    DynamicKinds = {"egress"}
    RbacKinds = {"role"}
    Images = {"v1","v2"}
    PodFailures = {"Failed","Unknown","Stuck"}
    Disruptions = {"api","edit","restart","pod","volume"}
    MaxDisruptions = 1
    MaxTime = 1
    MaxUid = 1
    Requests = {}
    RequestKinds = {"page"}
    ClaimSpecs = {"a"}
INVARIANTS
    TypeOK
    NeverQuietMidway
    RunningIsTrue
    FailureIsTrue
    IdleIsWatched
CHECK_DEADLOCK FALSE
