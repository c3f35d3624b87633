SPECIFICATION Spec
CONSTANTS
    None = None
    k1 = k1
    k2 = k2
    v1 = v1
    v2 = v2
    s1 = s1
    ClientIDs = {k1, k2}
    DefaultClient = k1
    URIs = {1}
    Scopes = {}
    Users = {u}
    StoredUsers = {u}
    Verifiers = {v1, v2}
    Authorizers = {a1, a2}
    Exchangers = {x1, x2}
    AuthorizeInputs <- TwoClientQueries
    TokenInputs <- TwoClientForms
    CodeTTL = 1
    UseRedis = FALSE
    Faulty = FALSE
SYMMETRY MCSymmetry
INVARIANTS
    TokensMatchGrant
