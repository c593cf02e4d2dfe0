SPECIFICATION FairSpec
CONSTANTS
    alice = alice
    bob = bob
    root = root
    Req = {p1}
    Token = {t1}
    User = {alice, bob, zero}
    Newcomers = {bob}
    Alias = {f1}
    Password = {NoPassword}
    DefaultUser = zero
    Routes = {"logout", "upload", "fileStat", "fileDelete", "login", "register", "usersGetAll", "userGet", "userFiles", "roleAssign", "roleRevoke", "adminFileGet", "download"}
    RolesAsked = {"vip"}
    Bodies = {"bad", "invalid", "good"}
    Leavers = {p1}
    Signals = TRUE
    RolesOf <- MCRolesOf
    NoToken = NoToken
    NoUser = NoUser
    NoFile = NoFile
    NoClaims = NoClaims
    NoPassword = NoPassword
    MaxUploadedFiles = 1
    MaxFilesSizeForUser = 1
    MaxFilesSizeForVip = 1
INVARIANT TypeOK
INVARIANT EmptyAnswerHasReason
INVARIANT ServedOnlyWhenReady
PROPERTY SignalEndsProcess
