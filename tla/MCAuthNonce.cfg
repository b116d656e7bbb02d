\* Two overlapping logins with one nonce.
CONSTANTS
    Users = {u1}
    Nonces = {n1}
    Reqs = {r1, r2}
    MaxSessions = 2
    MaxTokens = 2
    MaxExpired = 0
    r1 = r1
    r2 = r2
    n1 = n1
    u1 = u1
SPECIFICATION Spec
INVARIANTS
    NonceUsedOnce
