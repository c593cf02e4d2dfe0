------------------------------- MODULE Gateway -------------------------------
(***************************************************************************)
(* A request on its way through the router of app.go: the middlewares of   *)
(* its route, one after the other, then its handler and its answer, while  *)
(* other requests change tokens, roles and files, and while main closes    *)
(* the connections under it.  A call of the file service is one step here; *)
(* what happens inside of it is FileService.                               *)
(***************************************************************************)
EXTENDS AuthService, Sequences

CONSTANTS
    Req,          \* request goroutines
    Alias,
    Password,     \* passwords, NoPassword among them
    NoFile,
    DefaultUser,  \* the user id 0 of NewAdminUserContext
    Routes,       \* the routes requests are sent to
    RolesAsked,   \* the roles administrators assign and revoke
    Bodies,       \* what the bodies of requests may be
    Leavers,      \* the requests whose client may leave
    NoClaims

ASSUME GatewayAssumption ==
    /\ NoPassword \in Password
    /\ RolesAsked \subseteq UserRole
    /\ "good" \in Bodies /\ Bodies \subseteq {"bad", "invalid", "good"}
    /\ Leavers \subseteq Req
    /\ DefaultUser \in User
    /\ NoUser \notin User
    /\ NoToken \notin Token

VARIABLES
    files,     \* [Alias -> [owner, hash] or NoFile]
    req,       \* [Req -> the request the goroutine serves]
    goodbye,   \* history: tokens whose logout was answered with success
    admins     \* history: users that held the admin role at some time

gatewayVars == <<files, req, goodbye, admins>>

vars == <<processVars, accountVars, gatewayVars>>

-----------------------------------------------------------------------------
(* The routes: the middlewares in front of each handler.  The deadlines of *)
(* NewTimeoutLimiter and the logger decide nothing here.                   *)
DownloadRoute == [download |-> <<"rateLimiter">>]

AdminUserRoutes ==
    [usersGetAll |-> <<"adminAuth">>,
     userGet     |-> <<"adminAuth", "adminContext">>,
     userFiles   |-> <<"adminAuth", "adminContext">>,
     userStat    |-> <<"adminAuth", "adminContext">>,
     roleAssign  |-> <<"adminAuth", "bodyParser">>,
     roleRevoke  |-> <<"adminAuth", "bodyParser">>]

(* Mutant: the routes are mounted outside of the group with AdminAuth. *)
AdminFileRoutesOpen ==
    [adminFileGet    |-> <<"adminContext">>,
     adminFileDelete |-> <<"adminContext">>]

AdminFileRoutes ==
    [adminFileGet    |-> <<"adminAuth", "adminContext">>,
     adminFileDelete |-> <<"adminAuth", "adminContext">>]

FileRoutes ==
    [upload     |-> <<"auth">>,
     fileGetAll |-> <<"auth">>,
     fileStat   |-> <<"auth">>,
     fileGet    |-> <<"auth">>,
     fileDelete |-> <<"auth">>]

AuthRoutes ==
    [login    |-> <<"bodyParser", "validator">>,
     register |-> <<"rateLimiter", "bodyParser", "validator">>,
     refresh  |-> <<"bodyParser", "validator">>,
     logout   |-> <<"bodyParser", "validator">>]

ASSUME RoutesAssumption ==
    Routes \subseteq UNION {DOMAIN DownloadRoute, DOMAIN AdminUserRoutes,
                            DOMAIN AdminFileRoutes, DOMAIN FileRoutes,
                            DOMAIN AuthRoutes}

Chain(route) ==
    IF route \in DOMAIN DownloadRoute THEN DownloadRoute[route]
    ELSE IF route \in DOMAIN AdminUserRoutes THEN AdminUserRoutes[route]
    ELSE IF route \in DOMAIN AdminFileRoutes THEN AdminFileRoutes[route]
    ELSE IF route \in DOMAIN FileRoutes THEN FileRoutes[route]
    ELSE AuthRoutes[route]

Uses(route, middleware) ==
    \E i \in DOMAIN Chain(route) : Chain(route)[i] = middleware

(* What a client may send; what its route does not look at is fixed.       *)
OnAlias == {"download", "fileGet", "fileDelete", "adminFileGet",
            "adminFileDelete"}
OnUserId == {"userGet", "userFiles", "userStat", "roleAssign", "roleRevoke"}
OnBearer == DOMAIN FileRoutes
OnRefresh == {"refresh", "logout"}
OnBody == DOMAIN AuthRoutes \union {"roleAssign", "roleRevoke", "upload"}

Only(cond, values, default) == IF cond THEN values ELSE {default}

(* The user of a login or a registration, or the id in the path, where     *)
(* NoUser is one that is not a number.  A body is empty or undecodable,    *)
(* invalid, or good; only a validator tells the invalid ones.  An admin    *)
(* secret is right, or missing or wrong.                                   *)
Request(route) ==
    [route    : {route},
     token    : IF route \in OnRefresh THEN Token
                ELSE Only(route \in OnBearer, Token \union {NoToken}, NoToken),
     secret   : Only(Uses(route, "adminAuth"), {"wrong", "right"}, "wrong"),
     alias    : Only(route \in OnAlias \union {"upload"}, Alias,
                     CHOOSE a \in Alias : TRUE),
     user     : IF route \in {"login", "register"} THEN User
                ELSE Only(route \in OnUserId, User \union {NoUser}, NoUser),
     role     : Only(route \in {"roleAssign", "roleRevoke"}, RolesAsked,
                     "user"),
     password : Only(route \in {"download", "upload"}, Password, NoPassword),
     body     : Only(route \in OnBody,
                     IF Uses(route, "validator") THEN Bodies
                     ELSE Bodies \ {"invalid"},
                     "good")]

Claims == [user : User, roles : SUBSET UserRole]

Idle == [pc |-> "idle"]

(* todo are the middlewares still ahead, gone says that the client has     *)
(* left.  stale, did, touched and failed are history: the token had been   *)
(* logged out before the request came; the operation of the handler was    *)
(* carried out, on the files of the user touched; how a call of the        *)
(* auth-service for it failed.                                             *)
Serving(r) ==
    [pc |-> "chain", r |-> r, todo |-> Chain(r.route), parsed |-> FALSE,
     claims |-> NoClaims, answer |-> Unwritten, gone |-> FALSE,
     did |-> FALSE, touched |-> NoUser, failed |-> "no",
     stale |-> r.token \in goodbye]

Active(p) == req[p].pc # "idle"

TypeOK ==
    /\ ProcessTypeOK
    /\ AccountTypeOK
    /\ files \in [Alias -> [owner : User, hash : Password] \union {NoFile}]
    /\ goodbye \subseteq Token
    /\ admins \subseteq User
    /\ \A p \in Req : Active(p) =>
          /\ req[p].pc \in {"chain", "done"}
          /\ req[p].r.route \in Routes
          /\ req[p].claims \in Claims \union {NoClaims}
          /\ req[p].answer \in Answer

-----------------------------------------------------------------------------
(* The middlewares. *)

Keep == UNCHANGED <<processVars, goodbye, admins>>

KeepAll == Keep /\ UNCHANGED <<accountVars, files>>

Arrive(p) ==
    /\ listening
    /\ req[p].pc = "idle"
    /\ \E route \in Routes : \E r \in Request(route) :
          req' = [req EXCEPT ![p] = Serving(r)]
    /\ KeepAll

At(p, middleware) ==
    /\ req[p].pc = "chain"
    /\ req[p].todo # <<>>
    /\ Head(req[p].todo) = middleware

NextServe(p, q) == req' = [req EXCEPT ![p] = [q EXCEPT !.todo = Tail(@)]]

Reply(p, answer) ==
    req' = [req EXCEPT ![p].pc = "done", ![p].answer = answer]

(* The answer to a call of the auth-service that failed. *)
ReplyToError(p, answer, result) ==
    req' = [req EXCEPT ![p] =
              [@ EXCEPT !.pc = "done", !.answer = answer,
                        !.failed = IF result \in Unanswered THEN "unanswered"
                                   ELSE "refused"]]

(* A limiter that refuses answers; one that allows, or met an error of     *)
(* Redis, serves the next handler.                                         *)
RateLimiter(p) ==
    /\ At(p, "rateLimiter")
    /\ \/ "redis" \in open /\ Reply(p, 429)
       \/ NextServe(p, req[p])
    /\ KeepAll

AdminAuth(p) ==
    /\ At(p, "adminAuth")
    /\ \/ "redis" \in open /\ Reply(p, 429)
       \/ req[p].r.secret # "right" /\ Reply(p, 401)
       \/ req[p].r.secret = "right" /\ NextServe(p, req[p])
    /\ KeepAll

(* Mutant: a user id that is not a number is passed on. *)
AdminUserIDUnchecked(id) == id

AdminUserID(id) == IF id = NoUser THEN DefaultUser ELSE id

AdminUserContext(p) ==
    /\ At(p, "adminContext")
    /\ NextServe(p, [req[p] EXCEPT
                       !.claims = [user  |-> AdminUserID(req[p].r.user),
                                   roles |-> {"admin"}]])
    /\ KeepAll

ValidateResult == {"ok"} \union Unanswered \union {TokenError[s] : s \in DOMAIN TokenError}

Auth(p) ==
    /\ At(p, "auth")
    /\ \/ /\ req[p].r.token = NoToken
          /\ Reply(p, 401)
          /\ UNCHANGED accountVars
       \/ /\ req[p].r.token # NoToken
          /\ \E result \in ValidateResult :
                /\ ValidateToken(req[p].r.token, result)
                /\ IF result # "ok" THEN ReplyToError(p, AuthFailure(result), result)
                   ELSE LET u == holder[req[p].r.token]
                        IN  NextServe(p, [req[p] EXCEPT
                               !.claims = [user |-> u, roles |-> roles[u]]])
    /\ Keep
    /\ UNCHANGED files

BodyParser(p) ==
    /\ At(p, "bodyParser")
    /\ IF req[p].r.body = "bad" THEN Reply(p, 400)
       ELSE NextServe(p, [req[p] EXCEPT !.parsed = TRUE])
    /\ KeepAll

Validator(p) ==
    /\ At(p, "validator")
    /\ IF ~req[p].parsed THEN Reply(p, 500)
       ELSE IF req[p].r.body = "invalid" THEN Reply(p, 422)
       ELSE NextServe(p, req[p])
    /\ KeepAll

-----------------------------------------------------------------------------
(* The handlers. *)

InHandler(p, routes) ==
    /\ req[p].pc = "chain"
    /\ req[p].todo = <<>>
    /\ req[p].r.route \in routes

Done(p, answer, touched) ==
    req' = [req EXCEPT ![p].pc = "done", ![p].answer = answer,
                       ![p].did = TRUE, ![p].touched = touched]

(* GetUserClaims and GetParsedBodyRequest fail only behind a chain without *)
(* the middleware that stores what they look for.                          *)
WithClaims(p, action) ==
    IF req[p].claims = NoClaims THEN Reply(p, 500) /\ KeepAll ELSE action

WithBody(p, action) ==
    IF ~req[p].parsed THEN Reply(p, 500) /\ KeepAll ELSE action

(* An error of the database or the disk; with the database closed there is *)
(* no other result.                                                        *)
ServiceFails(p, render) ==
    Reply(p, Failure(render, "InternalError")) /\ KeepAll

FileError(row, p) ==
    IF row = NoFile THEN "ErrFileNotFound"
    ELSE IF ~CheckAccess(row, req[p].claims.user, req[p].claims.roles)
    THEN "ErrForbidden"
    ELSE "ok"

Refuse(p, render, e) ==
    /\ e # "ok"
    /\ Reply(p, Failure(render, e))
    /\ KeepAll

Db == "mysql" \in open

FileAt(p) == files[req[p].r.alias]

PasswordError(p) ==
    IF FileAt(p) = NoFile THEN "ErrFileNotFound"
    ELSE CASE CheckPassword(FileAt(p), req[p].r.password) = "required"
                -> "ErrFilePasswordRequired"
           [] CheckPassword(FileAt(p), req[p].r.password) = "invalid"
                -> "ErrFilePasswordInvalid"
           [] OTHER -> "ok"

(* A row that is found need not have its folder, which may be spelled      *)
(* otherwise.  The last download takes the file away.  The status is sent  *)
(* before the content; a copy that breaks changes it no more.              *)
Download(p) ==
    /\ InHandler(p, {"download"})
    /\ \/ ServiceFails(p, RenderFileServiceError)
       \/ Db /\ Refuse(p, RenderFileServiceError, PasswordError(p))
       \/ /\ Db
          /\ PasswordError(p) = "ok"
          /\ Refuse(p, RenderFileServiceError, "ErrFileNotFound")
       \/ /\ Db
          /\ PasswordError(p) = "ok"
          /\ Done(p, 200, NoUser)
          /\ files' \in {files, [files EXCEPT ![req[p].r.alias] = NoFile]}
          /\ Keep
          /\ UNCHANGED accountVars

UploadFile(p) ==
    /\ InHandler(p, {"upload"})
    /\ WithClaims(p,
          \/ req[p].r.body # "good" /\ Reply(p, 400) /\ KeepAll
          \/ req[p].r.body = "good" /\ ServiceFails(p, RenderFileServiceError)
          \/ /\ req[p].r.body = "good"
             /\ Db
             /\ \E e \in {"ErrUploadLimitExceeded", "ErrFileSizeTooBig"} :
                   Refuse(p, RenderFileServiceError, e)
          \/ /\ req[p].r.body = "good"
             /\ Db
             /\ FileAt(p) = NoFile
             /\ files' = [files EXCEPT ![req[p].r.alias] =
                            [owner |-> req[p].claims.user,
                             hash  |-> req[p].r.password]]
             /\ Done(p, 201, req[p].claims.user)
             /\ Keep
             /\ UNCHANGED accountVars)

GetFile(p) ==
    /\ InHandler(p, {"fileGet", "adminFileGet"})
    /\ WithClaims(p,
          \/ ServiceFails(p, RenderFileServiceError)
          \/ Db /\ Refuse(p, RenderFileServiceError, FileError(FileAt(p), p))
          \/ /\ Db
             /\ FileError(FileAt(p), p) = "ok"
             /\ Done(p, 200, FileAt(p).owner)
             /\ KeepAll)

DeleteFile(p) ==
    /\ InHandler(p, {"fileDelete", "adminFileDelete"})
    /\ WithClaims(p,
          \/ ServiceFails(p, RenderFileServiceError)
          \/ Db /\ Refuse(p, RenderFileServiceError, FileError(FileAt(p), p))
          \/ /\ Db
             /\ FileError(FileAt(p), p) = "ok"
             /\ files' = [files EXCEPT ![req[p].r.alias] = NoFile]
             /\ Done(p, 204, FileAt(p).owner)
             /\ Keep
             /\ UNCHANGED accountVars)

(* The page of a user's files, and their statistic. *)
GetAllFiles(p) ==
    /\ InHandler(p, {"fileGetAll", "userFiles"})
    /\ WithClaims(p,
          \/ ServiceFails(p, RenderNone)
          \/ Db /\ Done(p, 200, req[p].claims.user) /\ KeepAll)

GetFilesStat(p) ==
    /\ InHandler(p, {"fileStat", "userStat"})
    /\ WithClaims(p,
          \/ ServiceFails(p, RenderNone)
          \/ Db /\ Done(p, 200, req[p].claims.user) /\ KeepAll)

-----------------------------------------------------------------------------
(* A handler that calls the auth-service: success for "ok", otherwise what *)
(* render makes of the error.                                              *)
Result == {"ok"} \union Unanswered \union DOMAIN RenderAuthServiceError

Called(p, result, success, render) ==
    /\ IF result = "ok" THEN Done(p, success, NoUser)
       ELSE ReplyToError(p, Failure(render, result), result)
    /\ UNCHANGED <<processVars, files, goodbye>>

LoginUser(p) ==
    /\ InHandler(p, {"login"})
    /\ WithBody(p, \E result \in Result :
          /\ Login(req[p].r.user, result)
          /\ Called(p, result, 200, RenderAuthServiceError))
    /\ UNCHANGED admins

RegisterUser(p) ==
    /\ InHandler(p, {"register"})
    /\ WithBody(p, \E result \in Result :
          /\ Register(req[p].r.user, result)
          /\ Called(p, result, 200, RenderAuthServiceError))
    /\ UNCHANGED admins

RefreshToken(p) ==
    /\ InHandler(p, {"refresh"})
    /\ WithBody(p, \E result \in Result :
          /\ Refresh(req[p].r.token, result)
          /\ Called(p, result, 200, RenderAuthServiceError))
    /\ UNCHANGED admins

(* A success sets the status of a body that is never written. *)
LogoutUser(p) ==
    /\ InHandler(p, {"logout"})
    /\ WithBody(p, \E result \in Result :
          /\ Logout(req[p].r.token, result)
          /\ Called(p, result, Unwritten, RenderAuthServiceError))
    /\ UNCHANGED admins

(* An id that is not a number is refused by these three. *)
WithUserID(p, action) ==
    IF req[p].r.user = NoUser THEN Reply(p, 400) /\ KeepAll ELSE action

GetUserInfo(p) ==
    /\ InHandler(p, {"userGet"})
    /\ WithUserID(p, \E result \in Result :
          /\ GetUser(req[p].r.user, result)
          /\ Called(p, result, 200, RenderAuthServiceError))
    /\ UNCHANGED admins

GetUsersInfo(p) ==
    /\ InHandler(p, {"usersGetAll"})
    /\ \E result \in Result :
          GetUsers(result) /\ Called(p, result, 200, RenderNone)
    /\ UNCHANGED admins

(* The role is not validated here. *)
AssignUserRole(p) ==
    /\ InHandler(p, {"roleAssign"})
    /\ WithBody(p, WithUserID(p, \E result \in Result :
          /\ AssignRole(req[p].r.user, req[p].r.role, result)
          /\ Called(p, result, 201, RenderAuthServiceError)))
    /\ admins' = admins \union {u \in User : HasRole(roles'[u], "admin")}

RevokeUserRole(p) ==
    /\ InHandler(p, {"roleRevoke"})
    /\ WithBody(p, WithUserID(p, \E result \in Result :
          /\ RevokeRole(req[p].r.user, req[p].r.role, result)
          /\ Called(p, result, 204, RenderAuthServiceError)))
    /\ UNCHANGED admins

(* The client leaves: calls that look at the context are cancelled, and    *)
(* their handlers write nothing.                                           *)
Disconnect(p) ==
    /\ p \in Leavers
    /\ req[p].pc = "chain"
    /\ ~req[p].gone
    /\ req' = [req EXCEPT ![p].gone = TRUE]
    /\ KeepAll

Cancelled(p) ==
    /\ req[p].pc = "chain"
    /\ req[p].gone
    /\ req[p].todo = <<>> \/ At(p, "auth")
    /\ Reply(p, Unwritten)
    /\ KeepAll

(* The answer is sent, and the goroutine ends. *)
Answered(p) ==
    /\ req[p].pc = "done"
    /\ req' = [req EXCEPT ![p] = Idle]
    /\ goodbye' = IF /\ req[p].r.route = "logout"
                     /\ req[p].did
                     /\ ~req[p].gone
                  THEN goodbye \union {req[p].r.token} ELSE goodbye
    /\ UNCHANGED <<processVars, accountVars, files, admins>>

Middleware(p) ==
    \/ RateLimiter(p)
    \/ AdminAuth(p)
    \/ AdminUserContext(p)
    \/ Auth(p)
    \/ BodyParser(p)
    \/ Validator(p)

FileHandler(p) ==
    \/ Download(p)
    \/ UploadFile(p)
    \/ GetFile(p)
    \/ DeleteFile(p)
    \/ GetAllFiles(p)
    \/ GetFilesStat(p)

AuthHandler(p) ==
    \/ LoginUser(p)
    \/ RegisterUser(p)
    \/ RefreshToken(p)
    \/ LogoutUser(p)

AdminHandler(p) ==
    \/ GetUserInfo(p)
    \/ GetUsersInfo(p)
    \/ AssignUserRole(p)
    \/ RevokeUserRole(p)

ServeStep(p) ==
    \/ Middleware(p)
    \/ FileHandler(p)
    \/ AuthHandler(p)
    \/ AdminHandler(p)
    \/ Cancelled(p)
    \/ Answered(p)
=============================================================================
