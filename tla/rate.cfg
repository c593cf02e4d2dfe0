SPECIFICATION FairSpec
CONSTANTS
    Req = {p1, p2}
    Addr = {a1}
    MaxAttempts = 2
    Window = 3
    Block = 4
    MaxRetries = 1
    MaxLate = 2
    AdminRoutes = TRUE
INVARIANT TypeOK
INVARIANT WindowHolds
PROPERTY BlockHolds
PROPERTY QuietIsUnblocked
