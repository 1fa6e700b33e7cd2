CONSTANTS
    Requests = {q1, q2}
    Sids = {s1, s2}
    Ttl = 2
    MaxHash = 2
    MaxProofs = 1
SPECIFICATION Spec
PROPERTY LogoutRevokesAll
