------------------------------- MODULE Access -------------------------------
(***************************************************************************)
(* The decisions of services/files/access.go: who may touch a file, which  *)
(* upload fits a user's quota, which password opens a file.  They are pure *)
(* functions of the row or statistic that was read, so a caller that reads *)
(* first and writes later decides on stale data; that is modelled in       *)
(* FileService.                                                            *)
(***************************************************************************)
EXTENDS Integers

CONSTANTS
    NoPassword,           \* no X-Resource-Password header; an empty hash
    MaxUploadedFiles,     \* service.max_uploaded_files
    MaxFilesSizeForUser,  \* service.max_files_size_for_user_in_bytes
    MaxFilesSizeForVip    \* service.max_files_size_for_vip_in_bytes

ASSUME QuotaAssumption ==
    /\ MaxUploadedFiles \in Nat
    /\ MaxFilesSizeForUser \in Nat
    /\ MaxFilesSizeForVip \in Nat

UserRole == {"user", "vip", "admin"}

HasRole(roles, role) == role \in roles

(* The owner check; only an admin goes around it. *)
CheckOwner(row, u) == row.owner = u

CheckAccess(row, u, roles) == HasRole(roles, "admin") \/ CheckOwner(row, u)

(* The size bounds are strict: a user may never reach the configured cap. *)
FitsSize(size, roles) ==
    \/ HasRole(roles, "vip") /\ size < MaxFilesSizeForVip
    \/ HasRole(roles, "user") /\ size < MaxFilesSizeForUser

(* Mutant: the count may reach the limit before the check refuses. *)
CheckUploadQuoteOffByOne(stat, filesize, roles) ==
    IF HasRole(roles, "admin") THEN "ok"
    ELSE IF stat.count > MaxUploadedFiles THEN "limitExceeded"
    ELSE IF FitsSize(stat.size + filesize, roles) THEN "ok"
    ELSE "tooBig"

(* Mutant: only what is stored is compared with the size cap. *)
CheckUploadQuoteStored(stat, filesize, roles) ==
    IF HasRole(roles, "admin") THEN "ok"
    ELSE IF stat.count >= MaxUploadedFiles THEN "limitExceeded"
    ELSE IF FitsSize(stat.size, roles) THEN "ok"
    ELSE "tooBig"

CheckUploadQuote(stat, filesize, roles) ==
    IF HasRole(roles, "admin") THEN "ok"
    ELSE IF stat.count >= MaxUploadedFiles THEN "limitExceeded"
    ELSE IF FitsSize(stat.size + filesize, roles) THEN "ok"
    ELSE "tooBig"

(* A bcrypt hash is represented by the password it was made from, so the   *)
(* comparison is equality; the hash of an open file is NoPassword and      *)
(* every password is accepted for it.                                      *)
CheckPassword(row, password) ==
    IF row.hash # NoPassword /\ password = NoPassword THEN "required"
    ELSE IF row.hash # NoPassword /\ password # row.hash THEN "invalid"
    ELSE "ok"
=============================================================================
