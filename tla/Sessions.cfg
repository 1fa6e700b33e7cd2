CONSTANTS
    Requests = {q1, q2, q3}
    Sids = {s1}
    Ttl = 1
    MaxHash = 3
    MaxProofs = 2
SPECIFICATION Spec
INVARIANTS
    TypeOK
PROPERTIES
    EndedStaysEnded
    ProofStable
    DeletedStaysOut
    ResetSticks
SYMMETRY Interchange
