SPECIFICATION FairSpec
CONSTANTS
    Req = {r1, r2}
    Worker = worker
    Alias = {a1, a2}
    Spelling = {s1}
    User = {alice}
    alice = alice
    bob = bob
    root = root
    Password = {open}
    NoPassword = open
    RolesOf <- MCRolesOf
    Limits = {1}
    TTLs = {0, 1}
    Sizes = {1}
    AliasReuse = FALSE
    MaxUploadedFiles = 2
    MaxFilesSizeForUser = 10
    MaxFilesSizeForVip = 20
    BatchLimit = 1
    MaxId = 2
    MaxTime = 2
    Faults = {"io", "crash"}
    MaxFaults = 1
    NoRow = NoRow
    NoUpload = NoUpload
    None = None
PROPERTIES ExpiredCollected RequestsReturn
