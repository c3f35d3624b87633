SPECIFICATION Spec
CONSTANTS
    None = None
    Browsers = {b1}
    Users = {u1}
    Logins = {l1}
    Logouts = {o1}
    Attempts = {t1, t2}
    Visits = {v1}
    Callbacks = {x1, x2}
    SessionTTL = 1
    StateTTL = 1
    Faulty = TRUE
SYMMETRY MCSymmetry
INVARIANTS
    TypeOK
    OneExchangePerState
    CodeRedeemedOnce
    TokensOfAttempt
    DeadSessionNeverAuthorizes
CHECK_DEADLOCK FALSE
