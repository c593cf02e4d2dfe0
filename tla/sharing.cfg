SPECIFICATION Spec
CONSTANTS
    Req = {r1, r2}
    Worker = worker
    Alias = {a1, a2}
    Spelling = {s1}
    User = {alice, root}
    alice = alice
    bob = bob
    root = root
    Password = {open}
    NoPassword = open
    RolesOf <- MCRolesOf
    Limits = {2}
    TTLs = {1}
    Sizes = {1}
    AliasReuse = FALSE
    MaxUploadedFiles = 2
    MaxFilesSizeForUser = 10
    MaxFilesSizeForVip = 20
    BatchLimit = 1
    MaxId = 2
    MaxTime = 2
    Faults = {"disconnect", "db", "io", "crash"}
    MaxFaults = 1
    NoRow = NoRow
    NoUpload = NoUpload
    None = None
SYMMETRY Symmetry
INVARIANT NoChargeWithoutService
INVARIANT ServedWhole
PROPERTY Implements
