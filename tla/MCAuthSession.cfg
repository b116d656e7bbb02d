\* Two overlapping logins of one user, tokens that expire.
CONSTANTS
    Users = {u1}
    Nonces = {n1, n2}
    Reqs = {r1, r2}
    MaxSessions = 1
    MaxTokens = 3
    MaxExpired = 1
    r2 = r2
    r1 = r1
    n2 = n2
    n1 = n1
    u1 = u1
SPECIFICATION Spec
SYMMETRY Symmetry
INVARIANTS
    TypeOK
    SessionBound
    NonceBound
    ClosedFamilyStays
