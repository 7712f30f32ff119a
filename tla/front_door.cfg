SPECIFICATION MCSpec
SYMMETRY Interchangeable
CONSTANTS
    Requests = {r1, r2}
    Tokens = {"old", "bobs", "foreign"}
    Genuine = {"old", "bobs"}
    Foreign = {"foreign"}
    Bearers = {"bobs"}
    Minted = {"old", "foreign"}
    Expiry <- ExpiryOf
    Sub <- SubOf
    Users = {"alice", "bob"}
    ClockSkew = 1
    TokenCacheTTL = 2
    TokenCacheMax = 2
    ElementIds <- Ids
    MaxClock = 4
    MaxLogins = 2
    GlobalRPS = 1
    GlobalBurst = 2
    UserRPS = 1
    UserBurst = 0
INVARIANTS TypeOK CacheBounded IndexSound WithinLimits CookieIsGenuine
PROPERTIES  LatestLoginOnly
