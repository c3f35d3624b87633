SPECIFICATION FairSpec
CONSTANTS
    None = None
    k1 = k1
    u1 = u1
    u2 = u2
    s1 = s1
    ClientIDs = {k1}
    URIs = {u1, u2}
    Scopes = {s1}
    Bad = not_a_url
    Blank = blank
    Requests = {x1, x2}
    Inputs <- AllInputs
    Faulty = TRUE
INVARIANTS
    TypeOK
    NoOrphanRows
    RegistrationsDoNotMix
    NoLastingWait
PROPERTIES
    SetOverwrites
    NeverFoundEmpty
    AcknowledgedIsThere
    TableSpec
    RequestsEnd
CHECK_DEADLOCK FALSE
