---------------------------- MODULE ServerProofs ----------------------------
(***************************************************************************)
(* Proofs about Server, for every set of requests, tokens, users, aliases  *)
(* and routes: who is let through to a file, what a logout is worth, which *)
(* answers are empty, and which connections a request finds.               *)
(***************************************************************************)
EXTENDS Server, SequenceTheorems, TLAPS

(***************************************************************************)
(* The shape of a request under way.                                       *)
(***************************************************************************)
Middlewares == {"rateLimiter", "adminAuth", "adminContext", "auth", "bodyParser", "validator"}

SomeAlias == CHOOSE a \in Alias : TRUE

Sent == [route : Routes, token : Token \union {NoToken}, secret : {"wrong", "right"},
         alias : Alias \union {SomeAlias}, user : User \union {NoUser}, role : UserRole,
         password : Password, body : {"bad", "invalid", "good"}]

Work == [pc : {"chain", "done"}, r : Sent, todo : Seq(Middlewares), parsed : BOOLEAN,
         claims : Claims \union {NoClaims}, answer : Answer, gone : BOOLEAN, did : BOOLEAN,
         touched : User \union {NoUser}, stale : BOOLEAN,
         failed : {"no", "refused", "unanswered"}]

(* The claims are those of the token's holder. *)
Identified(p) ==
    /\ req[p].r.token \in Token
    /\ holder[req[p].r.token] \in User
    /\ req[p].claims \in Claims
    /\ req[p].claims.user = holder[req[p].r.token]
    /\ HasRole(req[p].claims.roles, "admin") => req[p].claims.user \in admins

(* What has been found out about a request on its way: when the handler of *)
(* a file route runs next, the token was validated and had not been logged *)
(* out; nothing is behind AdminAuth unless the secret was right.           *)
ChainOK(p) ==
    req[p].pc = "chain" =>
        /\ ~req[p].did /\ req[p].failed = "no"
        /\ \A i \in DOMAIN req[p].todo : Uses(req[p].r.route, req[p].todo[i])
        /\ req[p].r.route \in DOMAIN FileRoutes =>
              \/ req[p].todo = <<"auth">>
              \/ req[p].todo = <<>> /\ Identified(p) /\ ~req[p].stale
        /\ req[p].r.route \in DOMAIN AdminFileRoutes /\ req[p].r.secret # "right" =>
              req[p].todo = <<"adminAuth", "adminContext">>

(* What remains of that when the answer is on its way. *)
DoneOK(p) ==
    req[p].pc = "done" =>
        /\ req[p].did =>
              /\ req[p].r.route \in {"fileGet", "fileDelete"} =>
                    /\ req[p].r.token \in Token
                    /\ holder[req[p].r.token] \in User
                    /\ holder[req[p].r.token] \in admins \union {req[p].touched}
              /\ req[p].r.route \in DOMAIN AdminFileRoutes => req[p].r.secret = "right"
              /\ req[p].r.route \in DOMAIN FileRoutes => ~req[p].stale
              /\ req[p].r.route = "logout" =>
                    req[p].r.token \in Token /\ access[req[p].r.token] = "REVOKED"
        /\ ~req[p].gone /\ req[p].answer = Unwritten =>
              \/ req[p].failed = "unanswered"
              \/ req[p].did /\ req[p].r.route = "logout"
        /\ req[p].failed = "unanswered" =>
              ~req[p].did /\ req[p].answer \in {Unwritten, 500}

Served(p) ==
    /\ req[p] \in Work
    /\ req[p].r \in Request(req[p].r.route)
    /\ req[p].stale => req[p].r.token \in goodbye
    /\ ChainOK(p)
    /\ DoneOK(p)

RequestInv == \A p \in Req : Active(p) => Served(p)

(* The connections of each phase; before the listener and after the end no *)
(* request is under way.                                                   *)
Outdoors == {"MySql.MustConnect", "Redis.MustConnect", "Auth.MustConnect", "go", "exited"}

PhaseInv ==
    /\ main \in Outdoors => ~listening /\ Drained
    /\ main = "MySql.MustConnect" => open = {}
    /\ main = "Redis.MustConnect" => open = {"mysql"}
    /\ main = "Auth.MustConnect" => open = {"mysql", "redis"}
    /\ main \in {"go", "wait", "MySql.Close"} => open = Conn

(* Tokens that are or were good belong to somebody; a successful logout is *)
(* final; administrators are remembered.                                   *)
AccountInv ==
    /\ \A t \in Token : access[t] # "INVALID" => holder[t] \in User
    /\ \A t \in refresh : holder[t] \in User
    /\ \A t \in goodbye : access[t] = "REVOKED"
    /\ \A u \in User : HasRole(roles[u], "admin") => u \in admins

File == [owner : User, hash : Password]

TypeInv ==
    /\ ProcessTypeOK
    /\ AccountTypeOK
    /\ files \in [Alias -> File \union {NoFile}]
    /\ goodbye \subseteq Token
    /\ admins \subseteq User
    /\ req \in [Req -> Work \union {Idle}]

ServerInv == TypeInv /\ PhaseInv /\ AccountInv /\ RequestInv

(***************************************************************************)
(* The tables: routes, requests, and the answers to errors.                *)
(***************************************************************************)
LEMMA RouteTables ==
    /\ DOMAIN DownloadRoute = {"download"}
    /\ DOMAIN AdminUserRoutes =
          {"usersGetAll", "userGet", "userFiles", "userStat", "roleAssign", "roleRevoke"}
    /\ DOMAIN AdminFileRoutes = {"adminFileGet", "adminFileDelete"}
    /\ DOMAIN FileRoutes = {"upload", "fileGetAll", "fileStat", "fileGet", "fileDelete"}
    /\ DOMAIN AuthRoutes = {"login", "register", "refresh", "logout"}
BY DEF DownloadRoute, AdminUserRoutes, AdminFileRoutes, FileRoutes, AuthRoutes

LEMMA Chains ==
    /\ \A route \in DOMAIN FileRoutes : Chain(route) = <<"auth">>
    /\ \A route \in DOMAIN AdminFileRoutes : Chain(route) = <<"adminAuth", "adminContext">>
    /\ \A route \in Routes : Chain(route) \in Seq(Middlewares)
<1>1. ASSUME NEW route \in DOMAIN FileRoutes PROVE Chain(route) = <<"auth">>
  BY RouteTables DEF Chain, FileRoutes
<1>2. ASSUME NEW route \in DOMAIN AdminFileRoutes
      PROVE  Chain(route) = <<"adminAuth", "adminContext">>
  BY RouteTables DEF Chain, AdminFileRoutes
<1>3. ASSUME NEW route \in Routes PROVE Chain(route) \in Seq(Middlewares)
  <2>1. \/ route \in DOMAIN DownloadRoute \/ route \in DOMAIN AdminUserRoutes
        \/ route \in DOMAIN AdminFileRoutes \/ route \in DOMAIN FileRoutes
        \/ route \in DOMAIN AuthRoutes
    BY RoutesAssumption
  <2> DEFINE lists == {<<"rateLimiter">>, <<"adminAuth">>, <<"auth">>,
                       <<"adminAuth", "adminContext">>, <<"adminAuth", "bodyParser">>,
                       <<"bodyParser", "validator">>,
                       <<"rateLimiter", "bodyParser", "validator">>}
  <2>2. lists \subseteq Seq(Middlewares)
    BY DEF Middlewares
  <2>3. CASE route \in DOMAIN DownloadRoute
    <3>1. Chain(route) = <<"rateLimiter">>
      BY <2>3, RouteTables DEF Chain, DownloadRoute
    <3> QED BY <2>2, <3>1
  <2>4. CASE route \in DOMAIN AdminUserRoutes
    <3>1. Chain(route) = AdminUserRoutes[route]
      BY <2>4, RouteTables DEF Chain
    <3>2. AdminUserRoutes[route] \in lists
      BY <2>4, RouteTables DEF AdminUserRoutes
    <3> QED BY <2>2, <3>1, <3>2
  <2>5. CASE route \in DOMAIN AuthRoutes
    <3>1. Chain(route) = AuthRoutes[route]
      BY <2>5, RouteTables DEF Chain
    <3>2. AuthRoutes[route] \in lists
      BY <2>5, RouteTables DEF AuthRoutes
    <3> QED BY <2>2, <3>1, <3>2
  <2> QED BY <1>1, <1>2, <2>1, <2>2, <2>3, <2>4, <2>5
<1> QED BY <1>1, <1>2, <1>3

(* What a request brings along. *)
LEMMA Requests ==
    ASSUME NEW route \in Routes, NEW r \in Request(route)
    PROVE  /\ r \in Sent /\ r.route = route
           /\ route \in OnAlias \union {"upload"} => r.alias \in Alias
           /\ route \in {"login", "register"} => r.user \in User
           /\ route \in OnRefresh => r.token \in Token
<1>1. /\ r.route = route
      /\ r.token \in Token \union {NoToken}
      /\ route \in OnRefresh => r.token \in Token
      /\ r.secret \in {"wrong", "right"}
      /\ r.alias \in Alias \union {SomeAlias}
      /\ route \in OnAlias \union {"upload"} => r.alias \in Alias
      /\ r.user \in User \union {NoUser}
      /\ route \in {"login", "register"} => r.user \in User
      /\ r.role \in UserRole
      /\ r.password \in Password
      /\ r.body \in {"bad", "invalid", "good"}
  BY GatewayAssumption DEF Request, Only, SomeAlias, UserRole
<1>2. r = [route |-> r.route, token |-> r.token, secret |-> r.secret, alias |-> r.alias,
           user |-> r.user, role |-> r.role, password |-> r.password, body |-> r.body]
  BY DEF Request
<1>3. r \in Sent
  BY <1>1, <1>2 DEF Sent
<1> QED BY <1>1, <1>3

(* An error without a code of its own is answered with 500, and with       *)
(* nothing where the context is to blame.                                  *)
LEMMA Failures ==
    ASSUME NEW render \in {RenderFileServiceError, RenderAuthServiceError, RenderNone}, NEW e
    PROVE  /\ Failure(render, e) \in Answer
           /\ Failure(render, e) = Unwritten => IsCtxError(e)
           /\ e \in Unanswered => Failure(render, e) \in {Unwritten, 500}
<1>0. e \in Unanswered => e \notin DOMAIN render
  BY DEF Unanswered, RenderFileServiceError, RenderAuthServiceError, RenderNone
<1>1. CASE e \notin DOMAIN render
  BY <1>1 DEF Failure, Answer, Unwritten
<1>2. CASE e \in DOMAIN render /\ render = RenderFileServiceError
  BY <1>0, <1>2 DEF Failure, RenderFileServiceError, Answer, Unwritten
<1>3. CASE e \in DOMAIN render /\ render = RenderAuthServiceError
  BY <1>0, <1>3 DEF Failure, RenderAuthServiceError, Answer, Unwritten
<1>4. CASE e \in DOMAIN render /\ render = RenderNone
  BY <1>4 DEF RenderNone
<1> QED BY <1>1, <1>2, <1>3, <1>4

(* NewAuth has a code for every verdict on a token, and writes nothing     *)
(* where it got none.                                                      *)
LEMMA AuthFailures ==
    ASSUME NEW e
    PROVE  /\ AuthFailure(e) \in Answer
           /\ e \in Unanswered => AuthFailure(e) = Unwritten
           /\ e \in ValidateResult \ {"ok"} /\ AuthFailure(e) = Unwritten => e \in Unanswered
<1>1. AuthFailure(e) \in Answer
  BY DEF AuthFailure, RenderAuthServiceError, Answer, Unwritten
<1>2. e \in Unanswered => AuthFailure(e) = Unwritten
  BY DEF AuthFailure, RenderAuthServiceError, Unanswered
<1>3. ASSUME e \in {TokenError[s] : s \in DOMAIN TokenError} PROVE AuthFailure(e) # Unwritten
  BY <1>3 DEF TokenError, AuthFailure, RenderAuthServiceError, Unwritten
<1> QED BY <1>1, <1>2, <1>3 DEF ValidateResult

(* A call that is refused is not reported as a success. *)
LEMMA Refusals ==
    ASSUME NEW errors, NEW result, Refused(errors, result),
           errors \subseteq DOMAIN RenderAuthServiceError
    PROVE  result # "ok"
BY DEF Refused, Trouble, Unanswered, MapGrpcError, GrpcError, RenderAuthServiceError

LEMMA ClientErrors ==
    {MapGrpcError("Unauthenticated"), MapGrpcError("ResourceExhausted"),
     MapGrpcError("AlreadyExists"), MapGrpcError("InvalidArgument"), MapGrpcError("NotFound"),
     RefreshError("Unauthenticated"), LogoutError("Unauthenticated"),
     RevokeRoleError("NotFound")} \subseteq DOMAIN RenderAuthServiceError
BY DEF MapGrpcError, GrpcError, RefreshError, LogoutError, RevokeRoleError,
       RenderAuthServiceError

(***************************************************************************)
(* What every step does to tokens, roles and files, whoever takes it.      *)
(***************************************************************************)
TokensKept ==
    /\ AccountTypeOK'
    /\ \A t \in Token : access'[t] # "INVALID" => holder'[t] \in User
    /\ \A t \in refresh' : holder'[t] \in User
    /\ \A t \in Token : holder[t] \in User => holder'[t] = holder[t]
    /\ \A t \in Token : access[t] = "REVOKED" => access'[t] = "REVOKED"

NoNewAdmin == \A u \in User : HasRole(roles'[u], "admin") => HasRole(roles[u], "admin")

(* The calls of the auth-service. *)
LEMMA TokenCalls ==
    ASSUME AccountTypeOK, AccountInv, NEW result, NEW t, NEW u,
           \/ Login(u, result) \/ Refresh(t, result) \/ Logout(t, result)
           \/ ValidateToken(t, result)
    PROVE  TokensKept /\ NoNewAdmin
<1>0. NoUser \notin User
  BY GatewayAssumption
<1>1. CASE UNCHANGED accountVars
  BY <1>1 DEF accountVars, TokensKept, NoNewAdmin, AccountTypeOK, AccountInv
<1>2. ASSUME NEW new \in Token, holder[new] = NoUser, NEW v \in User,
             holder' = [holder EXCEPT ![new] = v], access' = [access EXCEPT ![new] = "VALID"],
             refresh' \subseteq refresh \union {new}, UNCHANGED <<known, roles>>
      PROVE  TokensKept /\ NoNewAdmin
  <2>1. AccountTypeOK'
    BY <1>2 DEF AccountTypeOK
  <2>2. \A s \in Token : s # new => holder'[s] = holder[s] /\ access'[s] = access[s]
    BY <1>2 DEF AccountTypeOK
  <2>3. holder'[new] = v /\ access[new] # "REVOKED" /\ new \notin refresh
    BY <1>0, <1>2 DEF AccountTypeOK, AccountInv
  <2> QED BY <1>0, <1>2, <2>1, <2>2, <2>3 DEF TokensKept, NoNewAdmin, AccountTypeOK, AccountInv
<1>3. ASSUME u \in known, Issue(u), UNCHANGED <<known, roles>>
      PROVE  TokensKept /\ NoNewAdmin
  BY <1>2, <1>3 DEF Issue, AccountTypeOK
<1>4. ASSUME t \in refresh, NEW new \in Token, holder[new] = NoUser,
             holder' = [holder EXCEPT ![new] = holder[t]],
             access' = [access EXCEPT ![new] = "VALID"],
             refresh' = (refresh \ {t}) \union {new}, UNCHANGED <<known, roles>>
      PROVE  TokensKept /\ NoNewAdmin
  BY <1>2, <1>4 DEF AccountInv
<1>5. ASSUME t \in refresh, refresh' = refresh \ {t}, access' = [access EXCEPT ![t] = "REVOKED"],
             UNCHANGED <<known, roles, holder>>
      PROVE  TokensKept /\ NoNewAdmin
  BY <1>5 DEF TokensKept, NoNewAdmin, AccountTypeOK, AccountInv
<1> QED BY <1>1, <1>3, <1>4, <1>5 DEF Login, Refresh, Logout, ValidateToken, Refused

LEMMA UserCalls ==
    ASSUME AccountTypeOK, AccountInv, NEW result, NEW u, NEW r \in UserRole,
           \/ Register(u, result) /\ u \in User
           \/ GetUser(u, result) \/ GetUsers(result)
           \/ AssignRole(u, r, result) \/ RevokeRole(u, r, result)
    PROVE  /\ TokensKept
           /\ \/ Register(u, result) \/ GetUser(u, result) \/ GetUsers(result)
              \/ RevokeRole(u, r, result)
              => NoNewAdmin
<1>1. ASSUME UNCHANGED <<holder, access, refresh>>, AccountTypeOK' PROVE TokensKept
  BY <1>1 DEF TokensKept, AccountInv
<1>2. CASE UNCHANGED accountVars
  BY <1>1, <1>2 DEF accountVars, AccountTypeOK, NoNewAdmin
<1>3. ASSUME u \in User, known' = known \union {u}, roles' = [roles EXCEPT ![u] = {"user"}],
             UNCHANGED <<holder, access, refresh>>
      PROVE  TokensKept /\ NoNewAdmin
  BY <1>1, <1>3 DEF AccountTypeOK, NoNewAdmin, HasRole, UserRole
<1>4. ASSUME u \in known, roles' = [roles EXCEPT ![u] = @ \union {r}],
             UNCHANGED <<known, holder, access, refresh>>
      PROVE  TokensKept
  BY <1>1, <1>4 DEF AccountTypeOK
<1>5. ASSUME u \in known, roles' = [roles EXCEPT ![u] = @ \ {r}],
             UNCHANGED <<known, holder, access, refresh>>
      PROVE  TokensKept /\ NoNewAdmin
  BY <1>1, <1>5 DEF AccountTypeOK, NoNewAdmin, HasRole
<1> QED BY <1>2, <1>3, <1>4, <1>5
        DEF Register, GetUser, GetUsers, AssignRole, RevokeRole, Refused

(* What surrounds a request. *)
Around ==
    /\ UNCHANGED processVars
    /\ TokensKept
    /\ files' \in [Alias -> File \union {NoFile}]
    /\ admins \subseteq admins' /\ admins' \subseteq User
    /\ \A u \in User : HasRole(roles'[u], "admin") => u \in admins'
    /\ goodbye \subseteq goodbye' /\ goodbye' \subseteq Token
    /\ \A t \in goodbye' : access'[t] = "REVOKED"

(* The cases with the history variables unchanged. *)
LEMMA Surrounds ==
    ASSUME ServerInv, UNCHANGED <<processVars, goodbye>>, TokensKept,
           files' \in [Alias -> File \union {NoFile}],
           \/ NoNewAdmin /\ UNCHANGED admins
           \/ admins' = admins \union {u \in User : HasRole(roles'[u], "admin")}
    PROVE  Around
<1>1. \A t \in goodbye : t \in Token /\ access'[t] = "REVOKED"
  BY DEF ServerInv, TypeInv, AccountInv, TokensKept
<1>2. /\ admins \subseteq admins' /\ admins' \subseteq User
      /\ \A u \in User : HasRole(roles'[u], "admin") => u \in admins'
  BY DEF ServerInv, TypeInv, AccountInv, NoNewAdmin
<1> QED BY <1>1, <1>2 DEF Around, ServerInv, TypeInv

LEMMA NothingAround ==
    ASSUME ServerInv, UNCHANGED <<processVars, accountVars, files, goodbye, admins>>
    PROVE  Around
<1>1. TokensKept /\ NoNewAdmin
  BY DEF ServerInv, TypeInv, AccountTypeOK, AccountInv, accountVars, TokensKept, NoNewAdmin
<1> QED BY <1>1, Surrounds DEF ServerInv, TypeInv

(* A request stays in order while others move. *)
LEMMA StaysServed ==
    ASSUME NEW q \in Req, Served(q), req'[q] = req[q], TokensKept,
           goodbye \subseteq goodbye', admins \subseteq admins'
    PROVE  Served(q)'
<1>1. Identified(q) => Identified(q)'
  BY DEF Identified, TokensKept
<1>2. ChainOK(q)'
  BY <1>1 DEF Served, ChainOK
<1>3. DoneOK(q)'
  BY DEF Served, DoneOK, TokensKept
<1> QED BY <1>2, <1>3 DEF Served

(* A step of one request keeps the invariant if it leaves it in order. *)
LEMMA RequestSteps ==
    ASSUME ServerInv, NEW p \in Req, Around, Active(p) \/ listening,
           NEW g \in Work \union {Idle}, req' = [req EXCEPT ![p] = g],
           Active(p)' => Served(p)'
    PROVE  ServerInv'
<1>1. req \in [Req -> Work \union {Idle}]
  BY DEF ServerInv, TypeInv
<1>2. main \notin Outdoors
  BY DEF ServerInv, PhaseInv, Drained
<1>3. PhaseInv'
  BY <1>2 DEF ServerInv, PhaseInv, Around, processVars
<1>4. TypeInv'
  BY <1>1 DEF ServerInv, TypeInv, Around, TokensKept, ProcessTypeOK, processVars
<1>5. AccountInv'
  BY DEF Around, TokensKept, AccountInv
<1>6. ASSUME NEW q \in Req, Active(q)' PROVE Served(q)'
  <2>1. CASE q = p
    BY <1>6, <2>1
  <2>2. CASE q # p
    <3>1. req'[q] = req[q] /\ Served(q)
      BY <1>1, <1>6, <2>2 DEF Active, ServerInv, RequestInv
    <3> QED BY <3>1, StaysServed DEF Around, processVars
  <2> QED BY <2>1, <2>2
<1> QED BY <1>3, <1>4, <1>5, <1>6 DEF ServerInv, RequestInv

(***************************************************************************)
(* The three things a middleware or a handler does to its request.         *)
(***************************************************************************)
LEMMA Underway ==
    ASSUME ServerInv, NEW p \in Req, Active(p)
    PROVE  /\ req[p] \in Work /\ req \in [Req -> Work \union {Idle}]
           /\ req[p].r.route \in Routes /\ req[p].r \in Request(req[p].r.route)
           /\ Served(p)
BY DEF ServerInv, TypeInv, RequestInv, Served, Work, Sent

(* It answers without having done anything. *)
LEMMA Ends ==
    ASSUME ServerInv, NEW p \in Req, Around, Active(p),
           NEW g \in Work, req' = [req EXCEPT ![p] = g],
           g.pc = "done", g.r = req[p].r, g.stale = req[p].stale, ~g.did,
           g.answer = Unwritten => g.gone \/ g.failed = "unanswered",
           g.failed = "unanswered" => g.answer \in {Unwritten, 500}
    PROVE  ServerInv'
<1>1. /\ req \in [Req -> Work \union {Idle}] /\ Served(p)
  BY Underway
<1>2. req'[p] = g
  BY <1>1
<1>3. Served(p)'
  BY <1>1, <1>2 DEF Served, ChainOK, DoneOK, Around
<1> QED BY <1>3, RequestSteps

LEMMA Replies ==
    ASSUME ServerInv, NEW p \in Req, Around, req[p].pc = "chain",
           NEW a \in Answer, Reply(p, a), a = Unwritten => req[p].gone
    PROVE  ServerInv'
<1>1. /\ Active(p) /\ req[p] \in Work /\ ~req[p].did /\ req[p].failed = "no"
  BY Underway DEF Active, Served, ChainOK
<1> DEFINE g == [req[p] EXCEPT !.pc = "done", !.answer = a]
<1>2. req' = [req EXCEPT ![p] = g]
  BY DEF Reply
<1>3. /\ g \in Work /\ g.pc = "done" /\ g.answer = a /\ g.r = req[p].r /\ ~g.did
      /\ g.gone = req[p].gone /\ g.stale = req[p].stale /\ g.failed = "no"
  BY <1>1 DEF Work
<1> HIDE DEF g
<1> QED BY <1>1, <1>2, <1>3, Ends

LEMMA RepliesToError ==
    ASSUME ServerInv, NEW p \in Req, Around, req[p].pc = "chain",
           NEW a \in Answer, NEW result, ReplyToError(p, a, result),
           a = Unwritten => result \in Unanswered,
           result \in Unanswered => a \in {Unwritten, 500}
    PROVE  ServerInv'
<1>1. /\ Active(p) /\ req[p] \in Work /\ ~req[p].did
      /\ req \in [Req -> Work \union {Idle}]
  BY Underway DEF Active, Served, ChainOK
<1>2. ASSUME NEW v \in {"refused", "unanswered"}, v = "unanswered" => a \in {Unwritten, 500},
             a = Unwritten => v = "unanswered",
             req' = [req EXCEPT ![p] = [req[p] EXCEPT !.pc = "done", !.answer = a, !.failed = v]]
      PROVE  ServerInv'
  <2> DEFINE g == [req[p] EXCEPT !.pc = "done", !.answer = a, !.failed = v]
  <2>1. g \in Work
    BY <1>1, <1>2 DEF Work
  <2>2. /\ g.pc = "done" /\ g.answer = a /\ g.r = req[p].r /\ ~g.did
        /\ g.stale = req[p].stale /\ g.failed = v
    BY <1>1 DEF Work
  <2>3. req' = [req EXCEPT ![p] = g]
    BY <1>2
  <2> HIDE DEF g
  <2>4. /\ g.answer = Unwritten => g.gone \/ g.failed = "unanswered"
        /\ g.failed = "unanswered" => g.answer \in {Unwritten, 500}
    BY <1>2, <2>2
  <2> QED BY <1>1, <2>1, <2>2, <2>3, <2>4, Ends
<1>3. CASE result \in Unanswered
  BY <1>2, <1>3 DEF ReplyToError
<1>4. CASE result \notin Unanswered
  BY <1>2, <1>4 DEF ReplyToError
<1> QED BY <1>3, <1>4

(* It serves the next handler. *)
LEMMA Passes ==
    ASSUME ServerInv, NEW p \in Req, Around, req[p].pc = "chain", req[p].todo # <<>>,
           NEW claims \in Claims \union {NoClaims}, NEW parsed \in BOOLEAN,
           NextServe(p, [req[p] EXCEPT !.claims = claims, !.parsed = parsed]),
           Head(req[p].todo) = "adminAuth" => req[p].r.secret = "right",
           Head(req[p].todo) = "auth" => Identified(p)' /\ ~req[p].stale
    PROVE  ServerInv'
<1>1. /\ Active(p) /\ req[p] \in Work /\ req \in [Req -> Work \union {Idle}] /\ Served(p)
  BY Underway DEF Active
<1> DEFINE h == [req[p] EXCEPT !.claims = claims, !.parsed = parsed]
           g == [h EXCEPT !.todo = Tail(@)]
<1>2. req' = [req EXCEPT ![p] = g]
  BY DEF NextServe
<1>3. Tail(req[p].todo) \in Seq(Middlewares)
  BY <1>1, HeadTailProperties DEF Work
<1>4. /\ h \in Work /\ h.todo = req[p].todo /\ h.pc = "chain" /\ h.r = req[p].r
      /\ h.did = req[p].did /\ h.stale = req[p].stale /\ h.failed = req[p].failed
  BY <1>1 DEF Work
<1> HIDE DEF h
<1>5. /\ g \in Work /\ g.todo = Tail(req[p].todo) /\ g.pc = "chain" /\ g.r = req[p].r
      /\ g.did = req[p].did /\ g.stale = req[p].stale /\ g.failed = req[p].failed
  BY <1>3, <1>4 DEF Work
<1> HIDE DEF g
<1>6. req'[p] = g
  BY <1>1, <1>2
<1>7. ChainOK(p)'
  <2>1. ~g.did /\ g.failed = "no"
    BY <1>1, <1>5 DEF Served, ChainOK
  <2>2. ASSUME g.r.route \in DOMAIN FileRoutes
        PROVE  g.todo = <<>> /\ Identified(p)' /\ ~g.stale
    <3>1. req[p].todo = <<"auth">>
      BY <1>1, <1>5, <2>2 DEF Served, ChainOK
    <3>2. Head(req[p].todo) = "auth" /\ Tail(req[p].todo) = <<>>
      BY <3>1
    <3> QED BY <1>5, <3>2
  <2>3. ASSUME g.r.route \in DOMAIN AdminFileRoutes, g.r.secret # "right" PROVE FALSE
    <3>1. req[p].todo = <<"adminAuth", "adminContext">>
      BY <1>1, <1>5, <2>3 DEF Served, ChainOK
    <3>2. Head(req[p].todo) = "adminAuth"
      BY <3>1
    <3> QED BY <1>5, <2>3, <3>2
  <2>4. ASSUME NEW i \in DOMAIN g.todo PROVE Uses(g.r.route, g.todo[i])
    <3>1. /\ i \in 1 .. Len(Tail(req[p].todo)) /\ g.todo[i] = req[p].todo[i + 1]
          /\ i + 1 \in DOMAIN req[p].todo
      BY <1>1, <1>3, <1>5, <2>4, HeadTailProperties DEF Work
    <3> QED BY <1>1, <1>5, <3>1 DEF Served, ChainOK
  <2> QED BY <1>6, <2>1, <2>2, <2>3, <2>4 DEF ChainOK
<1>8. Served(p)'
  BY <1>1, <1>5, <1>6, <1>7 DEF Served, DoneOK, Around
<1> QED BY <1>1, <1>2, <1>5, <1>8, RequestSteps

(* Its operation succeeds. *)
LEMMA Dones ==
    ASSUME ServerInv, NEW p \in Req, Around, req[p].pc = "chain", req[p].todo = <<>>,
           NEW a \in Answer, a = Unwritten => req[p].r.route = "logout", NEW u \in User \union {NoUser}, Done(p, a, u),
           req[p].r.route \in {"fileGet", "fileDelete"} =>
               holder[req[p].r.token] \in admins \union {u},
           req[p].r.route = "logout" =>
               req[p].r.token \in Token /\ access'[req[p].r.token] = "REVOKED"
    PROVE  ServerInv'
<1>1. /\ Active(p) /\ req[p] \in Work /\ req \in [Req -> Work \union {Idle}] /\ Served(p)
  BY Underway DEF Active
<1> DEFINE g == [req[p] EXCEPT !.pc = "done", !.answer = a, !.did = TRUE, !.touched = u]
<1>2. req' = [req EXCEPT ![p] = g]
  BY DEF Done
<1>3. /\ g \in Work /\ g.pc = "done" /\ g.answer = a /\ g.r = req[p].r /\ g.touched = u
      /\ g.stale = req[p].stale /\ g.did /\ g.failed = req[p].failed
  BY <1>1 DEF Work
<1> HIDE DEF g
<1>4. req'[p] = g
  BY <1>1, <1>2
<1>5. req[p].failed = "no" /\ (req[p].r.route \in DOMAIN FileRoutes => Identified(p) /\ ~req[p].stale)
  BY <1>1 DEF Served, ChainOK
<1>6. req[p].r.route \in DOMAIN AdminFileRoutes => req[p].r.secret = "right"
  BY <1>1 DEF Served, ChainOK
<1>7. req[p].r.route \in {"fileGet", "fileDelete"} =>
         /\ req[p].r.token \in Token
         /\ holder'[req[p].r.token] \in User
         /\ holder'[req[p].r.token] \in admins' \union {u}
  BY <1>5, RouteTables DEF Identified, Around, TokensKept
<1>8. DoneOK(p)'
  BY <1>3, <1>4, <1>5, <1>6, <1>7 DEF DoneOK
<1>9. Served(p)'
  BY <1>1, <1>3, <1>4, <1>8 DEF Served, ChainOK, Around
<1> QED BY <1>1, <1>2, <1>3, <1>9, RequestSteps

(* The next middleware is one of the route's. *)
LEMMA HeadOfTodo ==
    ASSUME ServerInv, NEW p \in Req, req[p].pc = "chain", req[p].todo # <<>>
    PROVE  Uses(req[p].r.route, Head(req[p].todo))
<1>1. req[p].todo \in Seq(Middlewares) /\ Served(p)
  BY Underway DEF Active, Work
<1>2. 1 \in DOMAIN req[p].todo /\ Head(req[p].todo) = req[p].todo[1]
  BY <1>1
<1> QED BY <1>1, <1>2 DEF Served, ChainOK

LEMMA PassesOn ==
    ASSUME ServerInv, NEW p \in Req, Around, req[p].pc = "chain", req[p].todo # <<>>,
           NextServe(p, req[p]),
           Head(req[p].todo) = "adminAuth" => req[p].r.secret = "right",
           Head(req[p].todo) # "auth"
    PROVE  ServerInv'
<1>1. req[p] \in Work
  BY Underway DEF Active
<1> DEFINE claims == req[p].claims
           parsed == req[p].parsed
<1>2. /\ claims \in Claims \union {NoClaims} /\ parsed \in BOOLEAN
      /\ req[p] = [req[p] EXCEPT !.claims = claims, !.parsed = parsed]
  BY <1>1 DEF Work
<1> HIDE DEF claims, parsed
<1>3. NextServe(p, [req[p] EXCEPT !.claims = claims, !.parsed = parsed])
  BY <1>2
<1> QED BY <1>2, <1>3, Passes

(***************************************************************************)
(* The steps of a request, one by one.                                     *)
(***************************************************************************)
LEMMA StepArrive ==
    ASSUME ServerInv, NEW p \in Req, Arrive(p)
    PROVE  ServerInv'
<1>a. PICK route \in Routes : \E r \in Request(route) : req' = [req EXCEPT ![p] = Serving(r)]
  BY DEF Arrive
<1>1. PICK r \in Request(route) : req' = [req EXCEPT ![p] = Serving(r)]
  BY <1>a
<1>2. r \in Sent /\ r.route = route /\ Chain(route) \in Seq(Middlewares)
  BY Requests, Chains
<1> DEFINE g == Serving(r)
<1>3. g \in Work
  BY <1>2 DEF Serving, Work, Answer, Unwritten
<1>4. /\ g.pc = "chain" /\ g.r = r /\ g.todo = Chain(route) /\ ~g.did /\ g.failed = "no"
      /\ g.stale = (r.token \in goodbye)
  BY <1>2 DEF Serving
<1>5. req'[p] = g
  BY <1>1 DEF ServerInv, TypeInv
<1> HIDE DEF g
<1>6. Around
  BY NothingAround DEF Arrive, KeepAll, Keep
<1>7. ChainOK(p)'
  <2>1. \A i \in DOMAIN Chain(route) : Uses(route, Chain(route)[i])
    BY DEF Uses
  <2> QED BY <1>2, <1>4, <1>5, <2>1, Chains DEF ChainOK
<1>8. Served(p)'
  BY <1>2, <1>3, <1>4, <1>5, <1>6, <1>7 DEF Served, DoneOK, Around
<1> QED BY <1>1, <1>3, <1>6, <1>8, RequestSteps DEF Arrive, g

(* A reply with a code of its own. *)
LEMMA RepliesCode ==
    ASSUME ServerInv, NEW p \in Req, KeepAll, req[p].pc = "chain",
           NEW a \in Answer \ {Unwritten}, Reply(p, a)
    PROVE  ServerInv'
<1>1. Around
  BY NothingAround DEF KeepAll, Keep
<1> QED BY <1>1, Replies

LEMMA StepMiddleware ==
    ASSUME ServerInv, NEW p \in Req, Middleware(p)
    PROVE  ServerInv'
<1>1. /\ req[p].pc = "chain" /\ req[p].todo # <<>> /\ req[p] \in Work
      /\ req[p].r \in Sent
  <2>1. req[p].pc = "chain" /\ req[p].todo # <<>>
    BY DEF Middleware, RateLimiter, AdminAuth, AdminUserContext, Auth, BodyParser, Validator, At
  <2> QED BY <2>1, Underway DEF Active, Work
<1>2. {400, 401, 422, 429, 500} \subseteq Answer \ {Unwritten}
  BY DEF Answer, Unwritten
<1>3. KeepAll => Around
  BY NothingAround DEF KeepAll, Keep
<1>4. CASE RateLimiter(p)
  BY <1>1, <1>2, <1>3, <1>4, RepliesCode, PassesOn DEF RateLimiter, At
<1>5. CASE AdminAuth(p)
  BY <1>1, <1>2, <1>3, <1>5, RepliesCode, PassesOn DEF AdminAuth, At
<1>6. CASE AdminUserContext(p)
  <2> DEFINE claims == [user |-> AdminUserID(req[p].r.user), roles |-> {"admin"}]
             parsed == req[p].parsed
  <2>1. claims \in Claims
    BY <1>1, GatewayAssumption DEF AdminUserID, Claims, UserRole, Sent
  <2>2. /\ parsed \in BOOLEAN
        /\ [req[p] EXCEPT !.claims = claims]
              = [req[p] EXCEPT !.claims = claims, !.parsed = parsed]
    BY <1>1 DEF Work
  <2>3. NextServe(p, [req[p] EXCEPT !.claims = claims])
    BY <1>6 DEF AdminUserContext
  <2> HIDE DEF claims, parsed
  <2>4. NextServe(p, [req[p] EXCEPT !.claims = claims, !.parsed = parsed])
    BY <2>2, <2>3
  <2> QED BY <1>1, <1>3, <1>6, <2>1, <2>2, <2>4, Passes DEF AdminUserContext, At
<1>7. CASE Auth(p)
  <2>1. CASE req[p].r.token = NoToken
    <3>1. Reply(p, 401) /\ KeepAll
      BY <1>7, <2>1 DEF Auth, KeepAll, Keep
    <3> QED BY <1>1, <1>2, <3>1, RepliesCode
  <2>2. CASE req[p].r.token # NoToken
    <3> DEFINE t == req[p].r.token
    <3>1. PICK result \in ValidateResult :
             /\ ValidateToken(t, result)
             /\ IF result # "ok" THEN ReplyToError(p, AuthFailure(result), result)
                ELSE NextServe(p, [req[p] EXCEPT
                        !.claims = [user |-> holder[t], roles |-> roles[holder[t]]]])
      BY <1>7, <2>2 DEF Auth
    <3>2. t \in Token /\ UNCHANGED accountVars /\ KeepAll
      BY <1>1, <1>7, <2>2, <3>1 DEF Sent, Auth, Keep, KeepAll, ValidateToken, Refused
    <3>3. CASE result # "ok"
      <4>1. /\ ReplyToError(p, AuthFailure(result), result)
            /\ AuthFailure(result) \in Answer
            /\ AuthFailure(result) = Unwritten => result \in Unanswered
            /\ result \in Unanswered => AuthFailure(result) \in {Unwritten, 500}
        BY <3>1, <3>3, AuthFailures
      <4> QED BY <1>1, <1>3, <3>2, <4>1, RepliesToError
    <3>4. CASE result = "ok"
      <4>1. access[t] \notin DOMAIN TokenError
        <5>1. ~Refused({}, result)
          BY <3>4, Refusals
        <5>2. \A state \in DOMAIN TokenError : TokenError[state] # "ok"
          BY DEF TokenError
        <5> QED BY <3>1, <3>4, <5>1, <5>2 DEF ValidateToken
      <4>2. access[t] = "VALID" /\ holder[t] \in User
        BY <3>2, <4>1 DEF TokenError, ServerInv, TypeInv, AccountTypeOK, AccountInv
      <4> DEFINE claims == [user |-> holder[t], roles |-> roles[holder[t]]]
                 parsed == req[p].parsed
      <4>3. /\ claims \in Claims
            /\ claims.user = holder[t] /\ claims.roles = roles[holder[t]]
        BY <4>2 DEF Claims, ServerInv, TypeInv, AccountTypeOK
      <4>4. HasRole(claims.roles, "admin") => claims.user \in admins
        BY <4>2, <4>3 DEF ServerInv, AccountInv
      <4>5. ~req[p].stale
        BY <1>1, <4>2, Underway DEF ServerInv, AccountInv, Served, Active
      <4>6. NextServe(p, [req[p] EXCEPT !.claims = claims])
        BY <3>1, <3>4
      <4>7. /\ parsed \in BOOLEAN
            /\ [req[p] EXCEPT !.claims = claims]
                  = [req[p] EXCEPT !.claims = claims, !.parsed = parsed]
        BY <1>1 DEF Work
      <4> HIDE DEF claims, parsed
      <4>8. NextServe(p, [req[p] EXCEPT !.claims = claims, !.parsed = parsed])
        BY <4>6, <4>7
      <4>9. Identified(p)'
        <5>1. req'[p].r = req[p].r /\ req'[p].claims = claims
          BY <1>1, <4>6 DEF NextServe, Work, ServerInv, TypeInv
        <5>2. holder' = holder /\ admins' = admins
          BY <3>2 DEF accountVars, KeepAll, Keep
        <5> QED BY <3>2, <4>2, <4>3, <4>4, <5>1, <5>2 DEF Identified
      <4> QED BY <1>1, <1>3, <1>7, <3>2, <4>3, <4>5, <4>7, <4>8, <4>9, Passes DEF Auth, At
    <3> QED BY <3>3, <3>4
  <2> QED BY <2>1, <2>2
<1>8. CASE BodyParser(p)
  <2>1. CASE req[p].r.body = "bad"
    BY <1>1, <1>2, <1>8, <2>1, RepliesCode DEF BodyParser
  <2>2. CASE req[p].r.body # "bad"
    <3> DEFINE claims == req[p].claims
    <3>1. NextServe(p, [req[p] EXCEPT !.parsed = TRUE])
      BY <1>8, <2>2 DEF BodyParser
    <3>2. /\ claims \in Claims \union {NoClaims}
          /\ [req[p] EXCEPT !.parsed = TRUE]
                = [req[p] EXCEPT !.claims = claims, !.parsed = TRUE]
      BY <1>1 DEF Work
    <3> HIDE DEF claims
    <3>3. NextServe(p, [req[p] EXCEPT !.claims = claims, !.parsed = TRUE])
      BY <3>1, <3>2
    <3> QED BY <1>1, <1>3, <1>8, <3>2, <3>3, Passes DEF BodyParser, At
  <2> QED BY <2>1, <2>2
<1>9. CASE Validator(p)
  BY <1>1, <1>2, <1>3, <1>9, RepliesCode, PassesOn DEF Validator, At
<1> QED BY <1>4, <1>5, <1>6, <1>7, <1>8, <1>9 DEF Middleware

LEMMA FilesAround ==
    ASSUME ServerInv, Keep, UNCHANGED accountVars,
           files' \in [Alias -> File \union {NoFile}]
    PROVE  Around
<1>1. TokensKept /\ NoNewAdmin
  BY DEF ServerInv, TypeInv, AccountTypeOK, AccountInv, accountVars, TokensKept, NoNewAdmin
<1> QED BY <1>1, Surrounds DEF Keep

(* The handlers of the file service answer every error. *)
LEMMA FileErrors ==
    ASSUME ServerInv, NEW p \in Req, req[p].pc = "chain",
           NEW render \in {RenderFileServiceError, RenderNone},
           \/ ServiceFails(p, render)
           \/ \E e : Refuse(p, render, e) /\ ~IsCtxError(e)
    PROVE  ServerInv'
<1>1. PICK e : ~IsCtxError(e) /\ Reply(p, Failure(render, e)) /\ KeepAll
  BY DEF ServiceFails, Refuse, IsCtxError
<1>2. Failure(render, e) \in Answer \ {Unwritten}
  BY <1>1, Failures
<1> QED BY <1>1, <1>2, RepliesCode

(* Whose file it is that a request was let through to. *)
LEMMA LetThrough ==
    ASSUME ServerInv, NEW p \in Req, req[p].claims # NoClaims,
           InHandler(p, {"fileGet", "fileDelete", "adminFileGet", "adminFileDelete"}),
           FileError(FileAt(p), p) = "ok"
    PROVE  /\ FileAt(p).owner \in User
           /\ req[p].r.route \in {"fileGet", "fileDelete"} =>
                 holder[req[p].r.token] \in admins \union {FileAt(p).owner}
<1>1. /\ req[p] \in Work /\ Served(p) /\ req[p].r.alias \in Alias
      /\ req[p].pc = "chain" /\ req[p].todo = <<>>
  BY Underway, Requests DEF InHandler, Active, OnAlias
<1>2. FileAt(p) # NoFile /\ CheckAccess(FileAt(p), req[p].claims.user, req[p].claims.roles)
  BY DEF FileError
<1>3. FileAt(p).owner \in User
  BY <1>1, <1>2 DEF ServerInv, TypeInv, FileAt, File
<1>4. ASSUME req[p].r.route \in {"fileGet", "fileDelete"}
      PROVE  holder[req[p].r.token] \in admins \union {FileAt(p).owner}
  <2>1. Identified(p)
    BY <1>1, <1>4, RouteTables DEF Served, ChainOK
  <2> QED BY <1>2, <2>1 DEF Identified, CheckAccess, CheckOwner
<1> QED BY <1>3, <1>4

LEMMA StepFileHandler ==
    ASSUME ServerInv, NEW p \in Req, FileHandler(p)
    PROVE  ServerInv'
<1>1. req[p].pc = "chain" /\ req[p].todo = <<>>
  BY DEF FileHandler, Download, UploadFile, GetFile, DeleteFile, GetAllFiles, GetFilesStat, InHandler
<1>2. req[p] \in Work /\ req[p].r.route \in Routes /\ req[p].r \in Request(req[p].r.route)
  BY <1>1, Underway DEF Active
<1>3. {200, 201, 204, 400, 500} \subseteq Answer \ {Unwritten}
  BY DEF Answer, Unwritten
<1>4. req[p].claims = NoClaims \/ req[p].claims \in Claims
  BY <1>2 DEF Work
<1>5. ASSUME req[p].claims = NoClaims, Reply(p, 500) /\ KeepAll PROVE ServerInv'
  BY <1>1, <1>3, <1>5, RepliesCode
<1>6. CASE Download(p)
  <2>1. ~IsCtxError(PasswordError(p))
    BY DEF PasswordError, IsCtxError
  <2>2. CASE \/ ServiceFails(p, RenderFileServiceError)
             \/ Refuse(p, RenderFileServiceError, PasswordError(p))
             \/ Refuse(p, RenderFileServiceError, "ErrFileNotFound")
    BY <1>1, <2>1, <2>2, FileErrors DEF IsCtxError
  <2>3. CASE /\ Done(p, 200, NoUser)
             /\ files' \in {files, [files EXCEPT ![req[p].r.alias] = NoFile]}
             /\ Keep /\ UNCHANGED accountVars
    <3>1. Around
      BY <2>3, FilesAround DEF ServerInv, TypeInv
    <3>2. req[p].r.route \notin {"fileGet", "fileDelete", "logout"}
      BY <1>6 DEF Download, InHandler
    <3> QED BY <1>1, <1>3, <2>3, <3>1, <3>2, Dones
  <2> QED BY <1>6, <2>2, <2>3 DEF Download
<1>7. CASE UploadFile(p)
  <2>0. req[p].r.route = "upload"
    BY <1>7 DEF UploadFile, InHandler
  <2>1. CASE Reply(p, 400) /\ KeepAll
    BY <1>1, <1>3, <2>1, RepliesCode
  <2>2. CASE \/ ServiceFails(p, RenderFileServiceError)
             \/ \E e \in {"ErrUploadLimitExceeded", "ErrFileSizeTooBig"} :
                   Refuse(p, RenderFileServiceError, e)
    BY <1>1, <2>2, FileErrors DEF IsCtxError
  <2>3. CASE /\ req[p].claims # NoClaims
             /\ files' = [files EXCEPT ![req[p].r.alias] =
                            [owner |-> req[p].claims.user, hash  |-> req[p].r.password]]
             /\ Done(p, 201, req[p].claims.user)
             /\ Keep
             /\ UNCHANGED accountVars
    <3>1. req[p].claims.user \in User /\ req[p].r.password \in Password
      BY <1>2, <1>4, <2>3 DEF Claims, Work, Sent
    <3>2. Around
      BY <2>3, <3>1, FilesAround DEF ServerInv, TypeInv, File
    <3> QED BY <1>1, <1>3, <2>0, <2>3, <3>1, <3>2, Dones
  <2> QED BY <1>5, <1>7, <2>1, <2>2, <2>3 DEF UploadFile, WithClaims
<1>8. CASE GetFile(p) \/ DeleteFile(p)
  <2>0. ~IsCtxError(FileError(FileAt(p), p))
    BY DEF FileError, IsCtxError
  <2>1. CASE \/ ServiceFails(p, RenderFileServiceError)
             \/ Refuse(p, RenderFileServiceError, FileError(FileAt(p), p))
    BY <1>1, <2>0, <2>1, FileErrors
  <2>2. ASSUME req[p].claims # NoClaims, FileError(FileAt(p), p) = "ok",
               NEW a \in {200, 204}, Done(p, a, FileAt(p).owner),
               files' \in {files, [files EXCEPT ![req[p].r.alias] = NoFile]},
               Keep, UNCHANGED accountVars
        PROVE  ServerInv'
    <3>1. Around
      BY <2>2, FilesAround DEF ServerInv, TypeInv
    <3>2. InHandler(p, {"fileGet", "fileDelete", "adminFileGet", "adminFileDelete"})
      BY <1>8 DEF GetFile, DeleteFile, InHandler
    <3>3. req[p].r.route # "logout"
      BY <3>2 DEF InHandler
    <3> QED BY <1>1, <1>3, <2>2, <3>1, <3>2, <3>3, LetThrough, Dones
  <2>3. ASSUME Done(p, 200, FileAt(p).owner) /\ KeepAll, req[p].claims # NoClaims,
               FileError(FileAt(p), p) = "ok"
        PROVE  ServerInv'
    BY <2>2, <2>3 DEF KeepAll
  <2>4. CASE GetFile(p)
    BY <1>5, <2>1, <2>3, <2>4 DEF GetFile, WithClaims
  <2>5. CASE DeleteFile(p)
    BY <1>5, <2>1, <2>2, <2>5 DEF DeleteFile, WithClaims
  <2> QED BY <1>8, <2>4, <2>5
<1>9. CASE GetAllFiles(p) \/ GetFilesStat(p)
  <2>1. CASE ServiceFails(p, RenderNone)
    BY <1>1, <2>1, FileErrors
  <2>2. CASE req[p].claims # NoClaims /\ Done(p, 200, req[p].claims.user) /\ KeepAll
    <3>1. req[p].claims.user \in User
      BY <1>4, <2>2 DEF Claims
    <3>2. Around
      BY <2>2, NothingAround DEF KeepAll, Keep
    <3>3. req[p].r.route \notin {"fileGet", "fileDelete", "logout"}
      BY <1>9 DEF GetAllFiles, GetFilesStat, InHandler
    <3> QED BY <1>1, <1>3, <2>2, <3>1, <3>2, <3>3, Dones
  <2> QED BY <1>5, <1>9, <2>1, <2>2 DEF GetAllFiles, GetFilesStat, WithClaims
<1> QED BY <1>6, <1>7, <1>8, <1>9 DEF FileHandler

(* A logout that reports success has revoked the access token. *)
LEMMA LogoutResult ==
    ASSUME AccountTypeOK, NEW result, NEW t, Logout(t, result), result = "ok"
    PROVE  access'[t] = "REVOKED"
<1>1. ~Refused({LogoutError("Unauthenticated")}, result)
  BY Refusals, ClientErrors
<1> QED BY <1>1 DEF Logout, AccountTypeOK

(* The answer to a call: success, or what the error is rendered as. *)
LEMMA CallsAnswer ==
    ASSUME ServerInv, NEW p \in Req, Around, req[p].pc = "chain", req[p].todo = <<>>,
           req[p].r.route \notin {"fileGet", "fileDelete"},
           NEW render \in {RenderAuthServiceError, RenderNone},
           NEW success \in {Unwritten, 200, 201, 204}, NEW result,
           Called(p, result, success, render),
           success = Unwritten => req[p].r.route = "logout",
           req[p].r.route = "logout" /\ result = "ok" =>
               req[p].r.token \in Token /\ access'[req[p].r.token] = "REVOKED"
    PROVE  ServerInv'
<1>1. CASE result = "ok"
  <2>1. Done(p, success, NoUser) /\ success \in Answer
    BY <1>1 DEF Called, Answer
  <2> QED BY <1>1, <2>1, Dones
<1>2. CASE result # "ok"
  <2>1. ReplyToError(p, Failure(render, result), result)
    BY <1>2 DEF Called
  <2>2. /\ Failure(render, result) \in Answer
        /\ Failure(render, result) = Unwritten => result \in Unanswered
        /\ result \in Unanswered => Failure(render, result) \in {Unwritten, 500}
    BY Failures DEF IsCtxError, Unanswered
  <2> QED BY <2>1, <2>2, RepliesToError
<1> QED BY <1>1, <1>2

LEMMA StepAuthHandler ==
    ASSUME ServerInv, NEW p \in Req, AuthHandler(p)
    PROVE  ServerInv'
<1>1. /\ req[p].pc = "chain" /\ req[p].todo = <<>> /\ UNCHANGED admins
      /\ req[p].r.route \in {"login", "register", "refresh", "logout"}
  BY DEF AuthHandler, LoginUser, RegisterUser, RefreshToken, LogoutUser, InHandler
<1>2. /\ req[p].r.route \in {"login", "register"} => req[p].r.user \in User
      /\ req[p].r.route \in {"refresh", "logout"} => req[p].r.token \in Token
  BY <1>1, Underway, Requests DEF Active, OnRefresh
<1>3. ASSUME Reply(p, 500) /\ KeepAll PROVE ServerInv'
  BY <1>1, <1>3, RepliesCode DEF Answer, Unwritten
<1>4. ASSUME NEW result, TokensKept, NoNewAdmin,
             NEW success \in {Unwritten, 200}, success = Unwritten => req[p].r.route = "logout",
             Called(p, result, success, RenderAuthServiceError),
             req[p].r.route = "logout" /\ result = "ok" => access'[req[p].r.token] = "REVOKED"
      PROVE  ServerInv'
  <2>1. Around
    BY <1>1, <1>4, Surrounds DEF Called, ServerInv, TypeInv
  <2> QED BY <1>1, <1>2, <1>4, <2>1, CallsAnswer
<1>5. AccountTypeOK /\ AccountInv
  BY DEF ServerInv, TypeInv
<1>6. ASSUME NEW result,
             \/ /\ Called(p, result, 200, RenderAuthServiceError)
                /\ \/ req[p].r.route = "login" /\ Login(req[p].r.user, result)
                   \/ req[p].r.route = "register" /\ Register(req[p].r.user, result)
                   \/ req[p].r.route = "refresh" /\ Refresh(req[p].r.token, result)
             \/ /\ Called(p, result, Unwritten, RenderAuthServiceError)
                /\ req[p].r.route = "logout" /\ Logout(req[p].r.token, result)
      PROVE  ServerInv'
  <2>0. CASE req[p].r.route = "logout"
    <3>1. TokensKept /\ NoNewAdmin
      BY <1>2, <1>5, <1>6, <2>0, TokenCalls
    <3>2. result = "ok" => access'[req[p].r.token] = "REVOKED"
      BY <1>5, <1>6, <2>0, LogoutResult
    <3> QED BY <1>4, <1>6, <2>0, <3>1, <3>2
  <2>1. CASE req[p].r.route = "refresh"
    BY <1>2, <1>4, <1>5, <1>6, <2>1, TokenCalls DEF Unwritten
  <2>2. CASE req[p].r.route = "login"
    BY <1>4, <1>5, <1>6, <2>2, TokenCalls DEF Unwritten
  <2>3. CASE req[p].r.route = "register"
    <3>1. Register(req[p].r.user, result) /\ "user" \in UserRole
      BY <1>6, <2>3 DEF UserRole
    <3> QED BY <1>2, <1>4, <1>5, <1>6, <2>3, <3>1, UserCalls DEF Unwritten
  <2> QED BY <1>1, <2>0, <2>1, <2>2, <2>3
<1> QED BY <1>3, <1>6 DEF AuthHandler, LoginUser, RegisterUser, RefreshToken, LogoutUser,
                          InHandler, WithBody

LEMMA StepAdminHandler ==
    ASSUME ServerInv, NEW p \in Req, AdminHandler(p)
    PROVE  ServerInv'
<1> DEFINE u == req[p].r.user
           r == req[p].r.role
<1>1. /\ req[p].pc = "chain" /\ req[p].todo = <<>>
      /\ req[p].r.route \in {"userGet", "usersGetAll", "roleAssign", "roleRevoke"}
  BY DEF AdminHandler, GetUserInfo, GetUsersInfo, AssignUserRole, RevokeUserRole, InHandler
<1>2. r \in UserRole
  BY <1>1, Underway, Requests DEF Active, Sent
<1>3. ASSUME NEW a \in {400, 500}, Reply(p, a) /\ KeepAll PROVE ServerInv'
  BY <1>1, <1>3, RepliesCode DEF Answer, Unwritten
<1>4. AccountTypeOK /\ AccountInv
  BY DEF ServerInv, TypeInv
<1>5. ASSUME NEW result, NEW success \in {200, 201, 204},
             NEW render \in {RenderAuthServiceError, RenderNone},
             Called(p, result, success, render),
             \/ UNCHANGED admins /\ (\/ GetUser(u, result) \/ GetUsers(result)
                                     \/ RevokeRole(u, r, result))
             \/ AssignRole(u, r, result)
                /\ admins' = admins \union {v \in User : HasRole(roles'[v], "admin")}
      PROVE  ServerInv'
  <2>1. /\ TokensKept
        /\ \/ NoNewAdmin /\ UNCHANGED admins
           \/ admins' = admins \union {v \in User : HasRole(roles'[v], "admin")}
    <3>1. CASE \/ GetUser(u, result) \/ GetUsers(result) \/ RevokeRole(u, r, result)
      <4>1. TokensKept /\ NoNewAdmin
        <5> HIDE DEF u, r
        <5>1. CASE GetUser(u, result) \/ GetUsers(result)
          BY <1>2, <1>4, <5>1, UserCalls
        <5>2. CASE RevokeRole(u, r, result)
          BY <1>2, <1>4, <5>2, UserCalls
        <5> QED BY <3>1, <5>1, <5>2
      <4> QED BY <1>5, <4>1
    <3>2. CASE AssignRole(u, r, result)
             /\ admins' = admins \union {v \in User : HasRole(roles'[v], "admin")}
      <4>1. TokensKept
        BY <1>2, <1>4, <3>2, UserCalls
      <4> QED BY <3>2, <4>1
    <3> QED BY <1>5, <3>1, <3>2
  <2>2. Around
    BY <1>5, <2>1, Surrounds DEF Called, ServerInv, TypeInv
  <2>4. Called(p, result, success, render)
    BY <1>5
  <2>5. /\ req[p].r.route \notin {"fileGet", "fileDelete", "logout"}
        /\ success \in {Unwritten, 200, 201, 204} /\ success # Unwritten
    BY <1>1, <1>5 DEF Unwritten
  <2> HIDE DEF u, r
  <2> QED BY <1>1, <2>2, <2>4, <2>5, CallsAnswer
<1> HIDE DEF u, r
<1>6. CASE GetUserInfo(p)
  BY <1>3, <1>5, <1>6 DEF GetUserInfo, WithUserID, u, r
<1>7. CASE GetUsersInfo(p)
  BY <1>3, <1>5, <1>7 DEF GetUsersInfo
<1>8. CASE AssignUserRole(p)
  BY <1>3, <1>5, <1>8 DEF AssignUserRole, WithBody, WithUserID, u, r
<1>9. CASE RevokeUserRole(p)
  BY <1>3, <1>5, <1>9 DEF RevokeUserRole, WithBody, WithUserID, u, r
<1> QED BY <1>6, <1>7, <1>8, <1>9 DEF AdminHandler

LEMMA StepDisconnect ==
    ASSUME ServerInv, NEW p \in Req, Disconnect(p)
    PROVE  ServerInv'
<1>1. /\ Active(p) /\ req[p].pc = "chain" /\ req[p] \in Work /\ Served(p)
      /\ req \in [Req -> Work \union {Idle}]
  BY Underway DEF Disconnect, Active
<1> DEFINE g == [req[p] EXCEPT !.gone = TRUE]
<1>2. req' = [req EXCEPT ![p] = g]
  BY DEF Disconnect
<1>3. /\ g \in Work /\ g.pc = "chain" /\ g.r = req[p].r /\ g.todo = req[p].todo
      /\ g.did = req[p].did /\ g.stale = req[p].stale /\ g.claims = req[p].claims
      /\ g.failed = req[p].failed
  BY <1>1 DEF Work
<1> HIDE DEF g
<1>4. req'[p] = g
  BY <1>1, <1>2
<1>5. Around
  BY NothingAround DEF Disconnect, KeepAll, Keep
<1>6. Identified(p) => Identified(p)'
  BY <1>3, <1>4, <1>5 DEF Identified, Around, TokensKept
<1>7. ChainOK(p)'
  BY <1>1, <1>3, <1>4, <1>6 DEF Served, ChainOK
<1>8. Served(p)'
  BY <1>1, <1>3, <1>4, <1>5, <1>7 DEF Served, DoneOK, Around
<1> QED BY <1>1, <1>2, <1>3, <1>5, <1>8, RequestSteps

LEMMA StepCancelled ==
    ASSUME ServerInv, NEW p \in Req, Cancelled(p)
    PROVE  ServerInv'
<1>1. Around
  BY NothingAround DEF Cancelled, KeepAll, Keep
<1>2. Unwritten \in Answer
  BY DEF Answer
<1> QED BY <1>1, <1>2, Replies DEF Cancelled

(* The answer to a logout leaves: its token is revoked. *)
LEMMA StepAnswered ==
    ASSUME ServerInv, NEW p \in Req, Answered(p)
    PROVE  ServerInv'
<1>1. Active(p) /\ Served(p) /\ req \in [Req -> Work \union {Idle}] /\ req[p].pc = "done"
  BY Underway DEF Answered, Active
<1>2. TokensKept /\ NoNewAdmin
  BY DEF Answered, ServerInv, TypeInv, AccountTypeOK, AccountInv, accountVars, TokensKept,
         NoNewAdmin
<1>3. access' = access
  BY DEF Answered, accountVars
<1>4. \A t \in goodbye' : t \in Token /\ access'[t] = "REVOKED"
  BY <1>1, <1>3 DEF Answered, Served, DoneOK, ServerInv, TypeInv, AccountInv
<1>5. Around
  BY <1>2, <1>4 DEF Answered, Around, ServerInv, TypeInv, AccountInv, NoNewAdmin
<1>6. req' = [req EXCEPT ![p] = Idle] /\ ~Active(p)'
  BY <1>1 DEF Answered, Active, Idle
<1> QED BY <1>1, <1>5, <1>6, RequestSteps

(***************************************************************************)
(* The steps of main and of the world.                                     *)
(***************************************************************************)
LEMMA StepMain ==
    ASSUME ServerInv, MainNext
    PROVE  ServerInv'
<1>1. UNCHANGED <<accountVars, gatewayVars>>
  BY DEF MainNext
<1>2. AccountInv'
  BY <1>1 DEF ServerInv, AccountInv, accountVars, gatewayVars
<1>3. Drained' = Drained
  BY <1>1 DEF Drained, Active, gatewayVars
<1>5. RequestInv'
  <2>1. ASSUME NEW q \in Req, Active(q)' PROVE Served(q)'
    <3>1. Served(q) /\ req'[q] = req[q]
      BY <1>1, <2>1 DEF Active, ServerInv, RequestInv, gatewayVars
    <3>2. TokensKept /\ UNCHANGED <<goodbye, admins>>
      BY <1>1 DEF ServerInv, TypeInv, AccountTypeOK, AccountInv, TokensKept, accountVars, gatewayVars
    <3> QED BY <3>1, <3>2, StaysServed
  <2> QED BY <2>1 DEF RequestInv
<1>6. ProcessTypeOK' /\ PhaseInv'
  <2>0. ProcessTypeOK /\ PhaseInv
    BY DEF ServerInv, TypeInv
  <2>1. CASE ConnectMySql \/ ConnectRedis \/ ConnectAuth
    <3>0. main \in Outdoors /\ Drained /\ ~listening
      BY <2>0, <2>1 DEF ConnectMySql, ConnectRedis, ConnectAuth, Connect, PhaseInv, Outdoors
    <3>1. CASE ExitProcess
      BY <1>3, <3>0, <3>1 DEF ExitProcess, ProcessTypeOK, PhaseInv, Outdoors, Phase
    <3>2. CASE ConnectMySql /\ ~ExitProcess
      <4>1. main' = "Redis.MustConnect" /\ open' = {"mysql"}
        BY <2>0, <3>2 DEF ConnectMySql, Connect, PhaseInv
      <4> QED BY <1>3, <2>0, <3>0, <3>2, <4>1 DEF ConnectMySql, Connect, ProcessTypeOK, PhaseInv,
                 Outdoors, Phase, Conn
    <3>3. CASE ConnectRedis /\ ~ExitProcess
      <4>1. open = {"mysql"} /\ main' = "Auth.MustConnect" /\ open' = {"mysql", "redis"}
        BY <2>0, <3>3 DEF ConnectRedis, Connect, PhaseInv
      <4> QED BY <1>3, <2>0, <3>0, <3>3, <4>1 DEF ConnectRedis, Connect, ProcessTypeOK, PhaseInv,
                 Outdoors, Phase, Conn
    <3>4. CASE ConnectAuth /\ ~ExitProcess
      <4>1. open = {"mysql", "redis"} /\ main' = "go" /\ open' = Conn
        BY <2>0, <3>4 DEF ConnectAuth, Connect, PhaseInv, Conn
      <4> QED BY <1>3, <2>0, <3>0, <3>4, <4>1 DEF ConnectAuth, Connect, ProcessTypeOK, PhaseInv,
                 Outdoors, Phase
    <3> QED BY <2>1, <3>1, <3>2, <3>3, <3>4
  <2>2. CASE StartGoroutines
    BY <1>3, <2>0, <2>2 DEF StartGoroutines, ExitProcess, ProcessTypeOK, PhaseInv, Outdoors, Phase, Conn
  <2>3. CASE CloseMySql \/ CloseAuth \/ CloseRedis
    BY <1>3, <2>0, <2>3 DEF CloseMySql, CloseAuth, CloseRedis, CloseConn, ProcessTypeOK, PhaseInv,
       Outdoors, Phase, Conn
  <2>4. CASE StopListening \/ Return(Drained)
    BY <1>3, <2>0, <2>4 DEF StopListening, Return, ExitProcess, ProcessTypeOK, PhaseInv, Outdoors,
       Phase, Conn
  <2> QED BY <2>1, <2>2, <2>3, <2>4 DEF MainNext, MainStep
<1>7. TypeInv'
  BY <1>1, <1>6 DEF ServerInv, TypeInv, AccountTypeOK, accountVars, gatewayVars
<1> QED BY <1>2, <1>5, <1>6, <1>7 DEF ServerInv

(* A token or a file expires. *)
LEMMA StepElsewhere ==
    ASSUME ServerInv, UNCHANGED <<processVars, req, goodbye, admins>>, TokensKept, NoNewAdmin,
           files' \in [Alias -> File \union {NoFile}]
    PROVE  ServerInv'
<1>1. Around
  BY Surrounds
<1>2. \A q \in Req : Active(q)' => Served(q)'
  BY <1>1, StaysServed DEF Active, Around, processVars, ServerInv, RequestInv
<1> QED BY <1>1, <1>2 DEF ServerInv, RequestInv, TypeInv, PhaseInv, AccountInv, Around, TokensKept,
           ProcessTypeOK, processVars, Drained, Active

LEMMA ServerInit == Init => ServerInv
<1> SUFFICES ASSUME Init PROVE ServerInv
  OBVIOUS
<1>1. \A p \in Req : ~Active(p)
  BY DEF Init, Active, Idle
<1>2. TypeInv
  BY <1>1, GatewayAssumption, ServerAssumption
     DEF Init, ProcessInit, AccountInit, TypeInv, ProcessTypeOK, AccountTypeOK, Phase
<1>3. PhaseInv
  BY <1>1 DEF Init, ProcessInit, PhaseInv, Drained
<1>4. AccountInv
  BY DEF Init, AccountInit, AccountInv
<1> QED BY <1>1, <1>2, <1>3, <1>4 DEF ServerInv, RequestInv

(* Whatever does not touch requests, tokens, administrators and            *)
(* connections.                                                            *)
LEMMA RequestsKept ==
    ASSUME RequestInv, UNCHANGED <<req, goodbye, admins, holder, access>>
    PROVE  RequestInv'
<1> SUFFICES ASSUME NEW p \in Req, Active(p)' PROVE Served(p)'
  BY DEF RequestInv
<1>1. Served(p)
  BY DEF RequestInv, Active
<1>2. ChainOK(p)'
  BY <1>1 DEF Served, ChainOK, Identified
<1>3. DoneOK(p)'
  BY <1>1 DEF Served, DoneOK
<1> QED BY <1>1, <1>2, <1>3 DEF Served

LEMMA ServerNext == ServerInv /\ [Next]_vars => ServerInv'
<1> SUFFICES ASSUME ServerInv, [Next]_vars PROVE ServerInv'
  OBVIOUS
<1>0. AccountTypeOK /\ AccountInv /\ files \in [Alias -> File \union {NoFile}]
  BY DEF ServerInv, TypeInv
<1>1. CASE MainNext
  BY <1>1, StepMain
<1>2. CASE Signal /\ UNCHANGED <<accountVars, gatewayVars>>
  <2>1. TypeInv'
    BY <1>2 DEF Signal, ServerInv, TypeInv, ProcessTypeOK, Phase, AccountTypeOK, accountVars,
                gatewayVars
  <2>2. PhaseInv'
    BY <1>2 DEF Signal, ServerInv, PhaseInv, Outdoors
  <2>3. AccountInv'
    BY <1>2 DEF ServerInv, AccountInv, accountVars, gatewayVars
  <2>4. RequestInv'
    BY <1>2, RequestsKept DEF Signal, ServerInv, accountVars, gatewayVars
  <2> QED BY <2>1, <2>2, <2>3, <2>4 DEF ServerInv
<1>3. ASSUME NEW p \in Req, ServeStep(p) PROVE ServerInv'
  BY <1>3, StepMiddleware, StepFileHandler, StepAuthHandler, StepAdminHandler, StepCancelled,
     StepAnswered DEF ServeStep
<1>4. CASE Expire /\ UNCHANGED <<processVars, gatewayVars>>
  <2>1. TokensKept /\ NoNewAdmin
    BY <1>0, <1>4 DEF Expire, AccountTypeOK, AccountInv, TokensKept, NoNewAdmin
  <2> QED BY <1>0, <1>4, <2>1, StepElsewhere DEF gatewayVars
<1>5. CASE FileExpires
  <2>1. TokensKept /\ NoNewAdmin
    BY <1>0, <1>5 DEF FileExpires, AccountTypeOK, AccountInv, TokensKept, NoNewAdmin, accountVars
  <2>2. files' \in [Alias -> File \union {NoFile}]
    BY <1>0, <1>5 DEF FileExpires
  <2> QED BY <1>5, <2>1, <2>2, StepElsewhere DEF FileExpires
<1>6. CASE UNCHANGED vars
  <2>0. UNCHANGED processVars /\ UNCHANGED accountVars /\ UNCHANGED gatewayVars
    BY <1>6 DEF vars
  <2>1. TypeInv'
    BY <2>0 DEF ServerInv, TypeInv, ProcessTypeOK, AccountTypeOK, processVars, accountVars,
                gatewayVars
  <2>2. PhaseInv'
    BY <2>0 DEF ServerInv, PhaseInv, Outdoors, Drained, Active, processVars, gatewayVars
  <2>3. AccountInv'
    BY <2>0 DEF ServerInv, AccountInv, accountVars, gatewayVars
  <2>4. RequestInv'
    BY <2>0, RequestsKept DEF ServerInv, processVars, accountVars, gatewayVars
  <2> QED BY <2>1, <2>2, <2>3, <2>4 DEF ServerInv
<1> QED BY <1>1, <1>2, <1>3, <1>4, <1>5, <1>6, StepArrive, StepDisconnect DEF Next, Ended

LEMMA ServerInvariant == Spec => []ServerInv
<1> QED BY ServerInit, ServerNext, PTL DEF Spec

(* Every part of the program keeps its type: the process, the accounts,    *)
(* the files and the requests under way.                                   *)
THEOREM RequestsTyped == Spec => []TypeOK
<1>1. ServerInv => TypeOK
  BY DEF ServerInv, TypeInv, TypeOK, RequestInv, Served, Work, Sent, Active, File
<1> QED BY <1>1, ServerInvariant, PTL

(* NewAuth, NewAdminAuth and CheckAccess guard the files: one is shown to  *)
(* or deleted by nobody but its owner, an administrator or the bearer of   *)
(* the admin secret, whatever happens to tokens, roles and files between   *)
(* the middleware and the service.                                         *)
THEOREM FilesAreGuarded == Spec => []OwnerOrAdmin
<1>1. ServerInv => OwnerOrAdmin
  BY RouteTables DEF ServerInv, OwnerOrAdmin, RequestInv, Served, DoneOK, InDone, Active
<1> QED BY <1>1, ServerInvariant, PTL

(* Logout: once its success is answered, no request that comes later does  *)
(* anything with the access token.                                         *)
THEOREM LogoutIsFinal == Spec => []LoggedOutIsRefused
<1>1. ServerInv => LoggedOutIsRefused
  BY DEF ServerInv, LoggedOutIsRefused, RequestInv, Served, DoneOK, InDone, Active
<1> QED BY <1>1, ServerInvariant, PTL

(* A client that is still there gets an empty 200 only for a logout, or    *)
(* because the auth-service left a call unanswered; and such a call ends   *)
(* its request, wherever it was made, without any success.                 *)
THEOREM AnswersHaveReason == Spec => []EmptyAnswerHasReason
<1>1. ServerInv => EmptyAnswerHasReason
  BY DEF ServerInv, EmptyAnswerHasReason, RequestInv, Served, DoneOK, InDone, Active
<1> QED BY <1>1, ServerInvariant, PTL

(* main connects everything before it listens, and returns only when       *)
(* Shutdown has waited for every request.                                  *)
THEOREM ServedWhenReady == Spec => []ServedOnlyWhenReady
<1>1. ServerInv => ServedOnlyWhenReady
  BY DEF ServerInv, PhaseInv, Outdoors, Drained, ServedOnlyWhenReady
<1> QED BY <1>1, ServerInvariant, PTL
=============================================================================
