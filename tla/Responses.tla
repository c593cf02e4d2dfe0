------------------------------ MODULE Responses ------------------------------
(***************************************************************************)
(* Errors and answers: the codes of delivery/util/response, the answer     *)
(* every handler gives to an error, and the values a handler takes out of  *)
(* a query or a form.  Bodies and wording are left out; an answer is its   *)
(* status code.                                                            *)
(***************************************************************************)
EXTENDS Integers

(* The errors a response is defined for, and its code. *)
RenderFileServiceError ==
    [ErrFileNotFound         |-> 404,
     ErrFilePasswordRequired |-> 401,
     ErrFilePasswordInvalid  |-> 403,
     ErrFileSizeTooBig       |-> 413,
     ErrForbidden            |-> 403,
     ErrUploadLimitExceeded  |-> 403]

RenderAuthServiceError ==
    [ErrAccessTokenExpired  |-> 401,
     ErrAccessTokenRevoked  |-> 401,
     ErrInvalidArgument     |-> 422,
     ErrInvalidAccessToken  |-> 401,
     ErrUserAlreadyExists   |-> 409,
     ErrRoleNotExist        |-> 404,
     ErrTooManyRequests     |-> 429,
     ErrUserNotFound        |-> 404,
     ErrInvalidCredentials  |-> 401,
     ErrInvalidRefreshToken |-> 401]

(* The listings define no error of their own. *)
RenderNone == <<>>

IsCtxError(e) == e \in {"Canceled", "DeadlineExceeded"}

(* A handler that returns without writing or setting anything: net/http    *)
(* then sends a 200 with an empty body.                                    *)
Unwritten == 0

(* Mutant: an error without a code of its own is only logged. *)
FailureSilent(render, e) ==
    IF e \in DOMAIN render THEN render[e] ELSE Unwritten

(* Every handler ends a failed call this way: the code defined for the     *)
(* error, nothing when the context is to blame, else 500.                  *)
Failure(render, e) ==
    IF e \in DOMAIN render THEN render[e]
    ELSE IF IsCtxError(e) THEN Unwritten
    ELSE 500

(* middlewares/auth.go writes nothing for an error it has no code for.     *)
AuthFailure(e) ==
    IF e \in DOMAIN RenderAuthServiceError THEN RenderAuthServiceError[e]
    ELSE Unwritten

Answer == {Unwritten, 200, 201, 204, 400, 401, 403, 404, 409, 413, 422, 429,
           500}

-----------------------------------------------------------------------------
(* mapGrpcError: an error with another code is passed on as it is. *)
GrpcError ==
    [Unauthenticated   |-> "ErrInvalidCredentials",
     AlreadyExists     |-> "ErrUserAlreadyExists",
     ResourceExhausted |-> "ErrTooManyRequests",
     NotFound          |-> "ErrUserNotFound",
     InvalidArgument   |-> "ErrInvalidArgument",
     Canceled          |-> "Canceled",
     DeadlineExceeded  |-> "DeadlineExceeded"]

MapGrpcError(code) == IF code \in DOMAIN GrpcError THEN GrpcError[code] ELSE code

(* Refresh and Logout call an unauthenticated caller's token the refresh   *)
(* token; RevokeRole calls what was not found the role.                    *)
RefreshError(code) ==
    IF code = "Unauthenticated" THEN "ErrInvalidRefreshToken"
    ELSE MapGrpcError(code)

LogoutError(code) ==
    IF code = "Unauthenticated" THEN "ErrInvalidRefreshToken"
    ELSE MapGrpcError(code)

RevokeRoleError(code) ==
    IF code = "NotFound" THEN "ErrRoleNotExist" ELSE MapGrpcError(code)

(* Mutant: the case of a revoked token is missing from the switch. *)
TokenErrorNoRevoked ==
    [EXPIRED |-> "ErrAccessTokenExpired",
     INVALID |-> "ErrInvalidAccessToken"]

(* The states of a token that ValidateToken turns into errors. *)
TokenError ==
    [EXPIRED |-> "ErrAccessTokenExpired",
     INVALID |-> "ErrInvalidAccessToken",
     REVOKED |-> "ErrAccessTokenRevoked"]
=============================================================================
