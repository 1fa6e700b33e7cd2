CONSTANTS
    Requests = {p1, p2, p3}
    Purposes = {"password_reset"}
    MaxTries = 3
    MaxTokens = 2
SPECIFICATION Spec
INVARIANT ResetOnce
SYMMETRY Interchange
