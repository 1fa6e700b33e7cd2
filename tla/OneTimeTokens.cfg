CONSTANTS
    Requests = {p1, p2, p3}
    Purposes = {"email_verify", "password_reset"}
    MaxTries = 3
    MaxTokens = 2
SPECIFICATION Spec
INVARIANTS
    TypeOK
    NoTokenLost
PROPERTIES
    ReplacedIsRefused
SYMMETRY Interchange
