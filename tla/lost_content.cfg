SPECIFICATION Spec
CONSTANTS
    Req = {r1}
    Worker = worker
    Alias = {a1}
    Spelling = {s1}
    User = {alice}
    alice = alice
    bob = bob
    root = root
    Password = {open}
    NoPassword = open
    RolesOf <- MCRolesOf
    Limits = {2}
    TTLs = {1}
    Sizes = {1}
    AliasReuse = FALSE
    MaxUploadedFiles = 1
    MaxFilesSizeForUser = 10
    MaxFilesSizeForVip = 20
    BatchLimit = 1
    MaxId = 1
    MaxTime = 0
    Faults = {"disconnect"}
    MaxFaults = 1
    NoRow = NoRow
    NoUpload = NoUpload
    None = None
INVARIANT LiveFileHasContent
