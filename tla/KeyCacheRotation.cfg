SPECIFICATION FairSpec
CONSTANTS
    None = None
    k1 = k1
    k2 = k2
    forged = forged
    kid1 = kid1
    kid2 = kid2
    Requests = {x1, x2}
    Keys = {k1, k2, forged}
    Kids = {kid1, kid2}
    StaticKey = None
    SigningKeys <- TwoOfAnId
    Foreign <- ForgedTokens
    Faulty = TRUE
INVARIANTS
    TypeOK
    TrustedOnly
    CacheIsPublished
PROPERTIES
    FetchedOnceAMinute
    GenuineTokenAccepted
    CacheMovesForward
    RequestsEnd
CHECK_DEADLOCK FALSE
