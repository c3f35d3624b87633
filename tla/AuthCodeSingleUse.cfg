SPECIFICATION Spec
CONSTANTS
    None = None
    k1 = k1
    k2 = k2
    v1 = v1
    v2 = v2
    s1 = s1
    ClientIDs = {k1}
    DefaultClient = k1
    URIs = {1, 2}
    Scopes = {s1}
    Users = {u}
    StoredUsers = {u}
    Verifiers = {v1, v2}
    Authorizers = {a1}
    Exchangers = {x1, x2}
    AuthorizeInputs <- OneClientQueries
    TokenInputs <- OneClientForms
    CodeTTL = 1
    UseRedis = TRUE
    Faulty = FALSE
SYMMETRY MCSymmetry
INVARIANTS
    SingleUse
