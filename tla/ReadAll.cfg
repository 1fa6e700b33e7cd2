SPECIFICATION AllSpec
CONSTANTS
    Parts = {"notices"}
    Requests = {q1, q2}
    Keys = {a, b, c}
    Clients = {q1, q2, q3}
    FailLimit = 3
    Emails = {"e"}
    Subjects = {"git", "goo"}
    States = {"s"}
    EmailOf <- MCEmailOf
    ProviderOf <- MCProviderOf
    MaxUsers = 2
    Threads = {"t"}
    Replies = {"m1", "m2"}
    MaxMessages = 2
    Producers = {q1, q2}
    DeliveryKeys = {"k"}
    MaxId = 2
    Uses = {q1, q2}
    Changes = {q3}
    MaxCount = 2
    Customers = {q1, q2, q3}
    Broken = {q3}
    BatchLimit = 2
    MaxVersion = 2
    Workers = {q1, q2}
    MaxRetries = 1
    MaxFaults = 2
    Processes = {q1, q2}
    N = 3
    Backend = {1}
    Builders = {2}
    Package = 3
    Jobs = 2
    Contents = {"x", "y"}
    Good <- MCGood
    Releases = {1, 2, 3}
    Fitting = {1, 2}
PROPERTY KeepsNewUnread
CHECK_DEADLOCK FALSE
