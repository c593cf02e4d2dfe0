SPECIFICATION Spec
CONSTANTS
    User = {alice, bob}
    File = {f1, f2, f3}
    Req = {p1}
    NoRow = NoRow
    NoPassword = NoPassword
    MaxSize = 1
    IntMax = 7
    DefaultLimit = 2
    MaxLimit = 3
    MaxChanges = 2
    MaxUploadedFiles = 2
    MaxFilesSizeForUser = 2
    MaxFilesSizeForVip = 3
    Page <- MCPage
    Limit <- MCLimit
    RoleSets <- MCRoleSets
SYMMETRY Symmetry
INVARIANT TypeOK
INVARIANT PageFollowsTotal
INVARIANT ListedWereSeen
INVARIANT ReportedLimitsAreEnforced
