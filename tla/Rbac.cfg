SPECIFICATION Spec
CONSTANTS
    None = None
    u1 = u1
    r1 = r1
    r2 = r2
    p1 = p1
    Users = {u1}
    Roles = {r1, r2}
    Permissions = {p1}
    Texts <- MCTexts
    Normal <- MCNormal
    Invalid = invalid
    Requests = {x1, x2, x3}
    Inputs <- AllInputs
    Faulty = TRUE
SYMMETRY MCSymmetry
INVARIANTS
    TypeOK
    CreatedOnce
    ReportsCurrent
CHECK_DEADLOCK FALSE
