CONSTANTS
    Requests = {p1, p2}
    MaxTries = 2
    ChallengeTtl = 2
    Cooldown = 1
    RequestLimit = 2
    RequestWindow = 3
    AttemptLimit = 2
    AttemptWindow = 2
    MaxNow = 4
    MaxCodes = 5
SPECIFICATION Spec
INVARIANTS
    TypeOK
    BoundedGuesses
    HourlyBudget
PROPERTY SingleUse
SYMMETRY Interchange
