---------------------------- MODULE ExpireShare ----------------------------
(***************************************************************************)
(* The running service: request goroutines and the file worker on one      *)
(* table and one blob store, the clock, and the faults they are exposed    *)
(* to.  Faults says which kinds happen, MaxFaults how many of them.        *)
(***************************************************************************)
EXTENDS FileService, FileWorker

CONSTANTS Faults, MaxFaults

FaultKind == {"disconnect", "db", "lost", "io", "crash"}

ASSUME FaultAssumption ==
    /\ Faults \subseteq FaultKind
    /\ MaxFaults \in Nat

VARIABLE faults       \* faults so far

vars == <<tableVars, storeVars, serviceVars, workerVars, faults>>

TypeOK ==
    /\ TableTypeOK
    /\ StoreTypeOK
    /\ ServiceTypeOK
    /\ WorkerTypeOK
    /\ faults \in Nat

Init ==
    /\ TableInit
    /\ StoreInit
    /\ ServiceInit
    /\ WorkerInit
    /\ faults = 0

Fault(kind) ==
    /\ kind \in Faults
    /\ faults < MaxFaults
    /\ faults' = faults + 1

(* The process dies and starts again: goroutines and transactions are      *)
(* gone, committed rows and the folders are what is left.                  *)
Crash ==
    /\ \/ \E p \in Req : Active(p)
       \/ sweeping
    /\ RollbackAll
    /\ req' = [p \in Req |-> Idle]
    /\ Sleep
    /\ UNCHANGED <<storeVars, served, born, asked, drawn, mislaid>>

RequestFault(p) ==
    \/ Fault("disconnect") /\ Disconnect(p)
    \/ Fault("db") /\ DbError(p)
    \/ Fault("lost") /\ CommitLost(p)
    \/ Fault("io") /\ StoreError(p)

WorkerFault ==
    \/ Fault("io") /\ RemoveExpiredFails
    \/ Fault("db") /\ WorkerDbError

RequestNext(p) ==
    /\ RequestBegin(p) \/ RequestStep(p)
    /\ UNCHANGED <<workerVars, faults>>

WorkerNext == WorkerStep /\ UNCHANGED <<serviceVars, faults>>

(* Refused lookups, quota refusals and sweeps that find nothing change     *)
(* nothing.  With this step TLC's deadlock check means that no goroutine   *)
(* is stuck in the middle of its work.                                     *)
Rest ==
    /\ \A p \in Req : ~Active(p)
    /\ ~sweeping
    /\ UNCHANGED vars

ClockNext == Tick /\ UNCHANGED <<storeVars, serviceVars, workerVars, faults>>

Next ==
    \/ \E p \in Req : RequestNext(p)
    \/ \E p \in Req : RequestFault(p) /\ UNCHANGED workerVars
    \/ WorkerNext
    \/ WorkerFault /\ UNCHANGED serviceVars
    \/ Fault("crash") /\ Crash
    \/ ClockNext
    \/ Rest

Spec == Init /\ [][Next]_vars

(* Goroutines are scheduled, the worker's timer goes on ticking and so     *)
(* does the clock; nobody has to send a request, and faults are not owed.  *)
FairSpec ==
    /\ Spec
    /\ \A p \in Req : WF_vars(RequestStep(p) /\ UNCHANGED <<workerVars, faults>>)
    /\ WF_vars(WorkerNext)
    /\ WF_vars(ClockNext)

(* Derived state ----------------------------------------------------------*)

Shared(f) == \E a \in Alias : rows[a] # NoRow /\ rows[a].id = f

Published == {f \in FileId : born[f] # NoRow}

Status == [f \in FileId |->
             IF f \notin Published THEN "unborn"
             ELSE IF Shared(f) THEN "shared" ELSE "gone"]

(* Safety -----------------------------------------------------------------*)

(* A row that can still be found offers a download: the zero that a last   *)
(* download writes (files.go:196) is never committed, so no request ever   *)
(* meets ErrNoDownloadsLeft, for which the handlers have no answer.        *)
NoExhaustedRow == \A a \in Alias : rows[a] # NoRow => rows[a].left > 0

(* Content that was once published outlives its row in one case only,      *)
(* whatever fails and whoever races: the row was deleted by a request that *)
(* spelled the alias otherwise.  A folder is emptied before the DELETE     *)
(* that forgets it commits (download.go:104, delete.go:62, worker.go:58),  *)
(* and is the one that the sweep of its row would look for.                *)
PublishedBlobsHaveRow ==
    \A a \in Alias, s \in Spelling : \A f \in dir[a][s] \intersect Published :
        \/ rows[a] # NoRow /\ rows[a].id = f /\ rows[a].spelled = s
        \/ f \in mislaid

(* What README.md:61 and :15 say, without that case: a file that was       *)
(* deleted has left the store when its transaction is over.                *)
DeletedFilesLeaveStore ==
    \A a \in Alias, s \in Spelling : \A f \in dir[a][s] \intersect Published :
        Unlocked(a) => Shared(f)

(* Two goroutines whose clients are still there never work in one folder   *)
(* at a time: the uncommitted row of each is what keeps the other out.     *)
Writing(p) ==
    ~req[p].cut /\ req[p].pc \in {"createFile", "copyFile", "commitUpload",
                                  "deleteFile", "commitDelete",
                                  "deleteLastFile", "commitLast"}

FolderHasOneWriter ==
    \A a \in Alias :
        Cardinality({p \in Req : Writing(p) /\ req[p].alias = a}
                    \union (IF a \in todo THEN {Worker} ELSE {})) <= 1

(* Without disconnects, crashes or errors, the table and the blob store    *)
(* agree on every alias no transaction is working on: in each folder is    *)
(* the content of the row that was drawn in its spelling, and besides that *)
(* only what deletions in another spelling have left behind.               *)
TableMatchesStore ==
    \A a \in Alias, s \in Spelling : Unlocked(a) =>
        dir[a][s] \ mislaid =
            IF rows[a] # NoRow /\ rows[a].spelled = s THEN {rows[a].id} ELSE {}

(* The content a download holds open is a file that was published and      *)
(* completely written: what an upload is still copying cannot be seen.     *)
ServedWhole ==
    \A p \in Req :
        req[p].pc \in {"readCounter", "writeCounter", "commitDownload",
                       "deleteLastRow", "deleteLastFile", "commitLast"}
            => req[p].file \in whole \intersect Published

(* A download is charged only if it is handed out: the counter never falls *)
(* below what has been served, however stale the value an UPDATE writes,   *)
(* so the uploader's recipients get all the downloads promised.            *)
NoChargeWithoutService ==
    \A a \in Alias : rows[a] # NoRow =>
        rows[a].left + served[rows[a].id] >= born[rows[a].id].left

(* The other direction, README.md:7 and :13: at most max_downloads.        *)
ServedWithinLimit ==
    \A f \in Published : served[f] <= born[f].left

(* The uploads of a user that have passed the quota check and are on their *)
(* way to a committed row.                                                 *)
OnTheirWay(u) ==
    {p \in Req : /\ req[p].pc \in {"addFile", "createFile", "copyFile", "commitUpload"}
                 /\ ~req[p].cut
                 /\ req[p].upload.owner = u}

Unlimited(u) == HasRole(RolesOf[u], "admin")

(* How far a user without the admin role can overshoot the quota that      *)
(* upload.go:18-30 checks before the INSERT: by the uploads that were      *)
(* checked at the same time, and by no others (README.md:18, a             *)
(* configurable upload cap).                                               *)
QuotaOvershoot ==
    \A u \in User : ~Unlimited(u) /\ MaxUploadedFiles > 0 =>
        Cardinality(FilesOf(u)) + Cardinality(OnTheirWay(u))
            <= MaxUploadedFiles - 1 + Cardinality(Req)

(* The largest file a user without files may upload; 0 also if none.       *)
LargestUpload(u) ==
    LET vip  == IF HasRole(RolesOf[u], "vip") THEN MaxFilesSizeForVip - 1 ELSE 0
        user == IF HasRole(RolesOf[u], "user") THEN MaxFilesSizeForUser - 1 ELSE 0
    IN  Max({0, vip, user})

SizeOnTheWay(u) == MapThenSumSet(LAMBDA p : req[p].upload.size, OnTheirWay(u))

(* The same for the sizes (access.go:32-38): the check is on the sum of    *)
(* what is stored and what is sent, so uploads one after the other stay    *)
(* below the cap, and those that were checked at the same time bring no    *)
(* more than as many largest files.                                        *)
SizeOvershoot ==
    \A u \in User : ~Unlimited(u) =>
        FilesStat(u).size + SizeOnTheWay(u) <= LargestUpload(u) * Cardinality(Req)

(* A file that is neither expired, nor being deleted by somebody who may,  *)
(* nor in the hands of a transaction has its content (README.md:15).       *)
LiveFileHasContent ==
    \A a \in Alias :
        Unlocked(a) /\ Visible(a) /\ rows[a].id \notin asked
            => rows[a].id \in dir[a][rows[a].spelled]

(* Refinement: every behaviour, seen as files with a status, is one that   *)
(* FileSharing allows.                                                     *)
Sharing == INSTANCE FileSharing WITH terms <- born, status <- Status

Implements == Sharing!Spec

(* Liveness ---------------------------------------------------------------*)

(* Every file whose time is over is collected, though batches are limited, *)
(* downloads hold locks and sweeps fail and start again.                   *)
ExpiredCollected ==
    \A f \in FileId :
        (Shared(f) /\ born[f].exp < now) ~> ~Shared(f)

(* No request waits for ever for a lock of another or of the worker. *)
RequestsReturn == \A p \in Req : Active(p) ~> ~Active(p)
=============================================================================
