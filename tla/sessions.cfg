SPECIFICATION Spec
CONSTANTS
    alice = alice
    bob = bob
    root = root
    Req = {p1, p2}
    Token = {t1, t2}
    User = {alice, bob, zero}
    Newcomers = {}
    Alias = {f1}
    Password = {NoPassword}
    DefaultUser = zero
    Routes = {"login", "refresh", "logout", "upload", "fileDelete", "adminFileDelete", "roleAssign"}
    RolesAsked = {"admin"}
    Bodies = {"good"}
    Leavers = {}
    Signals = FALSE
    RolesOf <- MCRolesOf
    NoToken = NoToken
    NoUser = NoUser
    NoFile = NoFile
    NoClaims = NoClaims
    NoPassword = NoPassword
    MaxUploadedFiles = 1
    MaxFilesSizeForUser = 1
    MaxFilesSizeForVip = 1
SYMMETRY Symmetry
INVARIANT OwnerOrAdmin
INVARIANT LoggedOutIsRefused
