\* A login and a refresh with its token.
CONSTANTS
    Users = {u1}
    Nonces = {n1}
    Reqs = {r1}
    MaxSessions = 1
    MaxTokens = 1
    MaxExpired = 0
    r1 = r1
    n1 = n1
    u1 = u1
SPECIFICATION Spec
INVARIANTS
    RefreshKnowsToken
