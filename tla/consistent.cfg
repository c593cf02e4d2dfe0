SPECIFICATION Spec
CONSTANTS
    Req = {r1, r2}
    Worker = worker
    Alias = {a1, a2, a3}
    Spelling = {s1, s2}
    User = {bob}
    alice = alice
    bob = bob
    root = root
    Password = {open}
    NoPassword = open
    RolesOf <- MCRolesOf
    Limits = {1}
    TTLs = {1}
    Sizes = {1, 3}
    AliasReuse = FALSE
    MaxUploadedFiles = 1
    MaxFilesSizeForUser = 2
    MaxFilesSizeForVip = 3
    BatchLimit = 2
    MaxId = 3
    MaxTime = 2
    Faults = {"lost"}
    MaxFaults = 1
    NoRow = NoRow
    NoUpload = NoUpload
    None = None
SYMMETRY Symmetry
INVARIANT TableMatchesStore
INVARIANT QuotaOvershoot
INVARIANT SizeOvershoot
