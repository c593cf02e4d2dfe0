----------------------------- MODULE AuthService -----------------------------
(***************************************************************************)
(* The auth-service, a program of its own, as infrastructure/grpc uses it: *)
(* it issues pairs of an access and a refresh token, rotates and revokes   *)
(* them, and keeps the users and their roles.  Each operator is one call   *)
(* of a client: what the service does, and the result or the error the     *)
(* client makes of its status code.                                        *)
(***************************************************************************)
EXTENDS Responses, Lifecycle, Access, FiniteSets

CONSTANTS
    User,       \* user ids
    Token,      \* pairs of an access and a refresh token
    NoToken,    \* no bearer token
    NoUser

VARIABLES
    known,      \* registered users
    roles,      \* [User -> SUBSET UserRole]
    holder,     \* [Token -> the user it was issued to, or NoUser]
    access,     \* [Token -> what ValidateToken says of the access token]
    refresh     \* the refresh tokens that can still be used

accountVars == <<known, roles, holder, access, refresh>>

AccountTypeOK ==
    /\ known \subseteq User
    /\ roles \in [User -> SUBSET UserRole]
    /\ holder \in [Token -> User \union {NoUser}]
    /\ access \in [Token -> {"INVALID", "VALID", "EXPIRED", "REVOKED"}]
    /\ refresh \subseteq Token

(* Every user exists at first but one that may register. *)
AccountInit(rolesOf, newcomers) ==
    /\ known = User \ newcomers
    /\ roles = rolesOf
    /\ holder = [t \in Token |-> NoUser]
    /\ access = [t \in Token |-> "INVALID"]
    /\ refresh = {}

-----------------------------------------------------------------------------
(* The results that say nothing of what became of the call: an error the   *)
(* clients have no name for, and the two they call errors of the context,  *)
(* whoever cancelled or gave up the call.                                  *)
Unanswered == {"Unavailable", "Canceled", "DeadlineExceeded"}

(* A call that finds the connection closed is cancelled; one that finds it *)
(* open may end with any of them, or get one in place of the answer of a   *)
(* call that was carried out.                                              *)
Trouble == IF "auth" \in open THEN Unanswered ELSE {"Canceled"}

(* A call that changes nothing: the service refuses it with one of errors, *)
(* or is not reached.                                                      *)
Refused(errors, result) ==
    /\ result \in {MapGrpcError(code) : code \in Trouble}
                  \union (IF "auth" \in open THEN errors ELSE {})
    /\ UNCHANGED accountVars

AnswerLost(result) == "auth" \in open /\ result \in {"ok"} \union Unanswered

Issue(u) ==
    \E t \in Token :
        /\ holder[t] = NoUser
        /\ holder' = [holder EXCEPT ![t] = u]
        /\ access' = [access EXCEPT ![t] = "VALID"]
        /\ refresh' = refresh \union {t}

Login(u, result) ==
    \/ /\ AnswerLost(result)
       /\ u \in known
       /\ Issue(u)
       /\ UNCHANGED <<known, roles>>
    \/ Refused({MapGrpcError("Unauthenticated"),
                MapGrpcError("ResourceExhausted")}, result)

Register(u, result) ==
    \/ /\ AnswerLost(result)
       /\ u \notin known
       /\ known' = known \union {u}
       /\ roles' = [roles EXCEPT ![u] = {"user"}]
       /\ UNCHANGED <<holder, access, refresh>>
    \/ Refused({MapGrpcError(IF u \in known THEN "AlreadyExists"
                             ELSE "InvalidArgument")}, result)

(* The rotation: the refresh token is used up, a new pair is issued. *)
Refresh(t, result) ==
    \/ /\ AnswerLost(result)
       /\ t \in refresh
       /\ \E new \in Token :
             /\ holder[new] = NoUser
             /\ holder' = [holder EXCEPT ![new] = holder[t]]
             /\ access' = [access EXCEPT ![new] = "VALID"]
             /\ refresh' = (refresh \ {t}) \union {new}
       /\ UNCHANGED <<known, roles>>
    \/ Refused({RefreshError("Unauthenticated")}, result)

Logout(t, result) ==
    \/ /\ AnswerLost(result)
       /\ t \in refresh
       /\ refresh' = refresh \ {t}
       /\ access' = [access EXCEPT ![t] = "REVOKED"]
       /\ UNCHANGED <<known, roles, holder>>
    \/ Refused({LogoutError("Unauthenticated")}, result)

ValidateToken(t, result) ==
    \/ /\ "auth" \in open
       /\ result = IF access[t] \in DOMAIN TokenError
                   THEN TokenError[access[t]] ELSE "ok"
       /\ UNCHANGED accountVars
    \/ Refused({}, result)

GetUser(u, result) ==
    \/ /\ "auth" \in open
       /\ u \in known
       /\ result = "ok"
       /\ UNCHANGED accountVars
    \/ Refused(IF u \in known THEN {} ELSE {MapGrpcError("NotFound")}, result)

GetUsers(result) ==
    \/ "auth" \in open /\ result = "ok" /\ UNCHANGED accountVars
    \/ Refused({}, result)

AssignRole(u, r, result) ==
    \/ /\ AnswerLost(result)
       /\ u \in known
       /\ roles' = [roles EXCEPT ![u] = @ \union {r}]
       /\ UNCHANGED <<known, holder, access, refresh>>
    \/ Refused(IF u \in known THEN {} ELSE {MapGrpcError("NotFound")}, result)

RevokeRole(u, r, result) ==
    \/ /\ AnswerLost(result)
       /\ u \in known
       /\ r \in roles[u]
       /\ roles' = [roles EXCEPT ![u] = @ \ {r}]
       /\ UNCHANGED <<known, holder, access, refresh>>
    \/ Refused(IF u \in known /\ r \in roles[u] THEN {}
               ELSE {RevokeRoleError("NotFound")}, result)

(* An access token's time is over. *)
Expire ==
    /\ \E t \in Token :
          /\ access[t] = "VALID"
          /\ access' = [access EXCEPT ![t] = "EXPIRED"]
    /\ UNCHANGED <<known, roles, holder, refresh>>
=============================================================================
