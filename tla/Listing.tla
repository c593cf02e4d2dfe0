------------------------------- MODULE Listing -------------------------------
(***************************************************************************)
(* The two reports a user gets about the own files: the page of            *)
(* GetFilesByUserID, made of a COUNT and a SELECT that are two snapshots   *)
(* of the table, and the statistic with the limits of the user's roles.    *)
(* Files are added, expire and are collected in between.                   *)
(***************************************************************************)
EXTENDS Access, FiniteSets, FiniteSetsExt

CONSTANTS
    User,
    File,           \* rows of the table
    NoRow,
    Req,            \* request goroutines
    MaxSize,        \* bound on the size of a file
    IntMax,         \* the largest int
    Page, Limit,    \* what the query gives for them; 0 if not a number
    DefaultLimit,   \* ScanPaginationArgs: 10 ...
    MaxLimit,       \* ... and 100
    RoleSets,       \* roles in the claims of a request
    MaxChanges      \* bound on the changes between two queries

ASSUME ListingAssumption ==
    /\ IsFiniteSet(File) /\ IsFiniteSet(Req)
    /\ MaxSize \in Nat
    /\ IntMax \in Nat \ {0}
    /\ Page \subseteq (-IntMax - 1) .. IntMax
    /\ Limit \subseteq (-IntMax - 1) .. IntMax
    /\ DefaultLimit \in 1 .. MaxLimit
    /\ MaxLimit \in 1 .. IntMax
    /\ RoleSets \subseteq SUBSET UserRole
    /\ MaxChanges \in Nat

VARIABLES
    table,    \* [File -> its row or NoRow]
    req       \* [Req -> the request the goroutine serves]

vars == <<table, req>>

TableRow == [owner : User, size : 0 .. MaxSize, live : BOOLEAN]

Idle == [pc |-> "idle"]

Active(p) == req[p].pc # "idle"

RowsOf(u) == {f \in File : table[f] # NoRow /\ table[f].owner = u}

(* Mutant: the SELECT forgets the user. *)
LiveOfAnyone(u) == {f \in File : table[f] # NoRow /\ table[f].live}

(* ... AND expires_at > NOW() *)
LiveOf(u) == {f \in RowsOf(u) : table[f].live}

TypeOK ==
    /\ table \in [File -> TableRow \union {NoRow}]
    /\ \A p \in Req : Active(p) =>
          /\ req[p].pc \in {"count", "fetch", "stat", "listed", "reported",
                            "failed"}
          /\ req[p].page \in 1 .. IntMax
          /\ req[p].limit \in 1 .. MaxLimit
          /\ req[p].files \subseteq File
          /\ req[p].total \in 0 .. Cardinality(File)

Init ==
    /\ table = [f \in File |-> NoRow]
    /\ req = [p \in Req |-> Idle]

-----------------------------------------------------------------------------
(* What a request asks for. *)

(* Mutant: a negative page is passed on. *)
ScanPageUnchecked(page) == IF page = 0 THEN 1 ELSE page

ScanPage(page) == IF page < 1 THEN 1 ELSE page

ScanLimit(limit) == IF limit < 1 THEN DefaultLimit ELSE Min({limit, MaxLimit})

(* int arithmetic wraps around. *)
Wrap(n) ==
    LET m == n % (2 * IntMax + 2) IN IF m > IntMax THEN m - (2 * IntMax + 2) ELSE m

(* Mutant: pages are counted from 0. *)
OffsetFromZero(page, limit) == Wrap(page * limit)

Offset(page, limit) == Wrap((page - 1) * limit)

(* LIMIT and OFFSET take this many of n rows. *)
PageLength(n, page, limit) ==
    Min({limit, Max({0, n - Offset(page, limit)})})

(* seen, changed and quota are history: the files that were live at some   *)
(* time since COUNT, how many rows of the user came or went, and what the  *)
(* statistic said.                                                         *)
Begin(p) ==
    /\ req[p].pc = "idle"
    /\ \E u \in User, page \in Page, limit \in Limit, roles \in RoleSets,
          op \in {"count", "stat"} :
          /\ op = "stat" => page = 0 /\ limit = 0
          /\ op = "count" => roles = {}
          /\ req' = [req EXCEPT ![p] =
                [pc |-> op, user |-> u, roles |-> roles,
                 page |-> ScanPage(page), limit |-> ScanLimit(limit),
                 total |-> 0, files |-> {}, quota |-> NoRow,
                 seen |-> {}, changed |-> 0]]
    /\ UNCHANGED table

(* SELECT COUNT: a user without files gets the empty page at once. *)
CountFiles(p) ==
    /\ req[p].pc = "count"
    /\ LET live == LiveOf(req[p].user)
       IN  req' = [req EXCEPT
              ![p].pc = IF live = {} THEN "listed" ELSE "fetch",
              ![p].total = Cardinality(live),
              ![p].seen = live]
    /\ UNCHANGED table

(* SELECT ... LIMIT ? OFFSET ? without ORDER BY: any rows, in the number   *)
(* that is left.  A negative offset is an error of MySQL.                  *)
FetchPage(p) ==
    /\ req[p].pc = "fetch"
    /\ LET r == req[p]
           live == LiveOf(r.user)
       IN  IF Offset(r.page, r.limit) < 0
           THEN req' = [req EXCEPT ![p].pc = "failed"]
           ELSE \E page \in kSubset(PageLength(Cardinality(live), r.page,
                                               r.limit), live) :
                   req' = [req EXCEPT ![p].pc = "listed", ![p].files = page]
    /\ UNCHANGED table

(* Mutant: a VIP is shown the limits of everybody. *)
GetUserLimitsNoVip(roles) ==
    [maxCount |-> MaxUploadedFiles,
     maxSize  |-> IF HasRole(roles, "admin") THEN MaxFilesSizeForVip
                  ELSE MaxFilesSizeForUser]

(* The limits shown with the statistic. *)
GetUserLimits(roles) ==
    [maxCount |-> MaxUploadedFiles,
     maxSize  |-> IF HasRole(roles, "admin") \/ HasRole(roles, "vip")
                  THEN MaxFilesSizeForVip ELSE MaxFilesSizeForUser]

(* COUNT and SUM over all rows of the user, expired or not. *)
FilesStat(u) ==
    [count |-> Cardinality(RowsOf(u)),
     size  |-> MapThenSumSet(LAMBDA f : table[f].size, RowsOf(u))]

GetStat(p) ==
    /\ req[p].pc = "stat"
    /\ req' = [req EXCEPT
          ![p].pc = "reported",
          ![p].quota = [stat |-> FilesStat(req[p].user),
                        limits |-> GetUserLimits(req[p].roles)]]
    /\ UNCHANGED table

(* An error of the database. *)
QueryFails(p) ==
    /\ req[p].pc \in {"count", "fetch", "stat"}
    /\ req' = [req EXCEPT ![p].pc = "failed"]
    /\ UNCHANGED table

Answered(p) ==
    /\ req[p].pc \in {"listed", "reported", "failed"}
    /\ req' = [req EXCEPT ![p] = Idle]
    /\ UNCHANGED table

-----------------------------------------------------------------------------
(* Other requests, the clock and the worker. *)

Noted(u, appeared) ==
    /\ \A p \in Req : req[p].pc = "fetch" => req[p].changed < MaxChanges
    /\ req' = [p \in Req |->
          IF req[p].pc = "fetch" /\ req[p].user = u
          THEN [req[p] EXCEPT !.changed = @ + 1, !.seen = @ \union appeared]
          ELSE req[p]]

FileAdded(f) ==
    /\ table[f] = NoRow
    /\ \E u \in User, size \in 0 .. MaxSize :
          /\ table' = [table EXCEPT ![f] = [owner |-> u, size |-> size,
                                            live |-> TRUE]]
          /\ Noted(u, {f})

FileExpires(f) ==
    /\ table[f] # NoRow
    /\ table[f].live
    /\ table' = [table EXCEPT ![f].live = FALSE]
    /\ Noted(table[f].owner, {})

(* Deleted, used up, or collected when its time was over. *)
FileRemoved(f) ==
    /\ table[f] # NoRow
    /\ table' = [table EXCEPT ![f] = NoRow]
    /\ IF table[f].live THEN Noted(table[f].owner, {}) ELSE UNCHANGED req

Next ==
    \/ \E p \in Req :
          \/ Begin(p)
          \/ CountFiles(p)
          \/ FetchPage(p)
          \/ GetStat(p)
          \/ QueryFails(p)
          \/ Answered(p)
    \/ \E f \in File : FileAdded(f) \/ FileExpires(f) \/ FileRemoved(f)

Spec == Init /\ [][Next]_vars

-----------------------------------------------------------------------------
Listed(p) == req[p].pc = "listed"

Fits(page, limit) == (page - 1) * limit <= IntMax

(* The page and the total shown with it disagree by no more than the files *)
(* of the user that came or went between the two queries                   *)
(* (files.go:103, 115); without any, the page has the length the total     *)
(* promises for it.                                                        *)
PageFollowsTotal ==
    \A p \in Req : Listed(p) /\ Fits(req[p].page, req[p].limit) =>
        LET promised == Min({req[p].limit,
                             Max({0, req[p].total
                                     - (req[p].page - 1) * req[p].limit})})
            shown == Cardinality(req[p].files)
        IN  /\ shown <= promised + req[p].changed
            /\ promised <= shown + req[p].changed

(* Nobody is shown a file that was not the user's own and live at some     *)
(* time of the request, though rows are removed and added under it.        *)
ListedWereSeen == \A p \in Req : Listed(p) => req[p].files \subseteq req[p].seen

(* The limits of the report are those an upload is checked against         *)
(* (access.go:64, :23): for a user or VIP that is no administrator an      *)
(* upload of any size is accepted if and only if the report leaves room    *)
(* for it.                                                                 *)
ReportedLimitsAreEnforced ==
    \A p \in Req :
        /\ req[p].pc = "reported"
        /\ ~HasRole(req[p].roles, "admin")
        /\ req[p].roles # {}
        => \A size \in 0 .. MaxSize + MaxFilesSizeForVip :
              LET q == req[p].quota
              IN  (CheckUploadQuote(q.stat, size, req[p].roles) = "ok")
                    <=> /\ q.stat.count < q.limits.maxCount
                        /\ q.stat.size + size < q.limits.maxSize
=============================================================================
