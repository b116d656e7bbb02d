\* A token is replayed while a rotation of its family is under way.
CONSTANTS
    Users = {u1}
    Nonces = {n1}
    Reqs = {r1, r2}
    MaxSessions = 2
    MaxTokens = 3
    MaxExpired = 0
    r1 = r1
    r2 = r2
    n1 = n1
    u1 = u1
SPECIFICATION Spec
PROPERTIES
    EntireFamilyRevoked
