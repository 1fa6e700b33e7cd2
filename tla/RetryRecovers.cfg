CONSTANTS
    Parts = {"plan"}
    Requests = {d1, d2}
    GiveUp = 2
    Prune = 3
    Plus = {"monthly", "annual"}
    Pro = {"pro"}
    MaxPeriod = 1
    MaxScheds = 2
    Prices = {"monthly", "annual"}
    Life = 3
    MinLeft = 2
    MaxNow = 4
    MaxKeys = 2
    Standings = {"free", "monthly", "annual"}
    Legacy = {1}
    MaxEvents = 3
SPECIFICATION AllSpec
PROPERTIES
    RetryRecovers
CHECK_DEADLOCK FALSE
