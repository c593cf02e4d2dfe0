SPECIFICATION Spec
CONSTANTS
    Req = {r1, r2}
    Worker = worker
    Alias = {a1}
    Spelling = {s1, s2}
    User = {alice}
    alice = alice
    bob = bob
    root = root
    Password = {open}
    NoPassword = open
    RolesOf <- MCRolesOf
    Limits = {2}
    TTLs = {1}
    Sizes = {1}
    AliasReuse = TRUE
    MaxUploadedFiles = 2
    MaxFilesSizeForUser = 10
    MaxFilesSizeForVip = 20
    BatchLimit = 1
    MaxId = 2
    MaxTime = 2
    Faults = {"disconnect", "db", "lost", "io", "crash"}
    MaxFaults = 2
    NoRow = NoRow
    NoUpload = NoUpload
    None = None
SYMMETRY Symmetry
INVARIANT TypeOK
INVARIANT FolderHasOneWriter
INVARIANT PublishedBlobsHaveRow
INVARIANT NoExhaustedRow
