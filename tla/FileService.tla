---------------------------- MODULE FileService ----------------------------
(***************************************************************************)
(* The requests of services/files: UploadFile, DownloadFile, DeleteFile.   *)
(* Each runs in a goroutine of its own, and each statement of the database *)
(* and call of the blob store is one step, since other requests and the    *)
(* file worker run between any two.                                        *)
(*                                                                         *)
(* A request that goes away (the client disconnects, so ctx is cancelled)  *)
(* is "cut": database/sql rolls its transaction back and frees its locks   *)
(* at once, while the handler goroutine goes on with the blob store, which *)
(* ignores ctx, until its next statement fails.                            *)
(*                                                                         *)
(* An alias reaches a handler in the spelling of the client.  The table    *)
(* does not tell spellings apart, the blob store does, and a request goes  *)
(* on with the client's after its lookup has found the row.                *)
(*                                                                         *)
(* served, born, asked, drawn and mislaid are history variables.           *)
(***************************************************************************)
EXTENDS FilesTable, LocalStorage, Access

CONSTANTS
    RolesOf,      \* [User -> SUBSET UserRole]: the claims of each user's token
    Limits,       \* max_downloads values of the upload form: 1 to 10000
    TTLs,         \* ttl values; the form accepts 0 and less
    Sizes,        \* sizes of uploaded files
    NoUpload,
    AliasReuse    \* may alias.Gen draw an alias it has drawn before?

ASSUME FormAssumption ==
    /\ Limits \subseteq Nat \ {0}
    /\ TTLs \subseteq Int
    /\ Sizes \subseteq Nat
    /\ AliasReuse \in BOOLEAN
    /\ NoPassword \in Password
    /\ RolesOf \in [User -> SUBSET UserRole]

VARIABLES
    req,      \* [Req -> the state of the goroutine]
    served,   \* [FileId -> downloads handed out]
    born,     \* [FileId -> the row the upload committed, or NoRow]
    asked,    \* ids for which checkAccess granted a deletion
    drawn,    \* aliases alias.Gen has returned
    mislaid   \* ids whose row was deleted in a spelling that is not the row's

serviceVars == <<req, served, born, asked, drawn, mislaid>>

DbSteps == {"addFile", "commitUpload",
            "readCounter", "writeCounter", "commitDownload", "deleteLastRow", "commitLast",
            "deleteRow", "commitDelete"}
CommitSteps == {"commitUpload", "commitDownload", "commitLast", "commitDelete"}
StoreSteps == {"createFile", "copyFile", "openFile", "deleteLastFile", "deleteFile"}

(* The UploadFile command a handler passes in. *)
Upload == [owner : User, size : Sizes, limit : Limits, ttl : TTLs, hash : Password]

Goroutine == [pc : {"idle"} \union DbSteps \union StoreSteps,
              alias : Alias \union {None},
              spelled : Spelling \union {None},
              upload : Upload \union {NoUpload},
              left : Nat,              \* downloadsLeft, already decremented
              file : {0} \union FileId,  \* the blob held open; 0 is none
              cut : BOOLEAN]           \* ctx is cancelled

Idle == [pc |-> "idle", alias |-> None, spelled |-> None, upload |-> NoUpload,
         left |-> 0, file |-> 0, cut |-> FALSE]

ServiceTypeOK ==
    /\ req \in [Req -> Goroutine]
    /\ served \in [FileId -> Nat]
    /\ born \in [FileId -> Row \union {NoRow}]
    /\ asked \subseteq FileId
    /\ drawn \subseteq Alias
    /\ mislaid \subseteq FileId

ServiceInit ==
    /\ req = [p \in Req |-> Idle]
    /\ served = [f \in FileId |-> 0]
    /\ born = [f \in FileId |-> NoRow]
    /\ asked = {}
    /\ drawn = {}
    /\ mislaid = {}

Active(p) == req[p].pc # "idle"

At(p, step) == req[p].pc = step
Uncut(p, step) == At(p, step) /\ ~req[p].cut
Goto(p, step) == req' = [req EXCEPT ![p].pc = step]
Return(p) == req' = [req EXCEPT ![p] = Idle]

(* The ids already given out and those the pending INSERTs will take. *)
IdsClaimed == nextId - 1 + Cardinality({p \in Req : At(p, "addFile")})

Begin(p, step, a, s, upload) ==
    /\ req[p].pc = "idle"
    /\ req' = [req EXCEPT ![p] =
                 [Idle EXCEPT !.pc = step, !.alias = a, !.spelled = s, !.upload = upload]]

(* UploadFile -------------------------------------------------------------*)

(* The quota check on the statistic of this moment, then alias.Gen.  A     *)
(* refused upload has no effect.                                           *)
UploadBegin(p) ==
    \E cmd \in Upload, a \in Alias, s \in Spelling :
        /\ CheckUploadQuote(FilesStat(cmd.owner), cmd.size, RolesOf[cmd.owner]) = "ok"
        /\ IdsClaimed < MaxId
        /\ AliasReuse \/ a \notin drawn
        /\ Begin(p, "addFile", a, s, cmd)
        /\ drawn' = drawn \union {a}
        /\ UNCHANGED <<tableVars, storeVars, served, born, asked, mislaid>>

NewRow(cmd, s) ==
    [id |-> nextId, spelled |-> s, owner |-> cmd.owner, size |-> cmd.size, left |-> cmd.limit,
     exp |-> now + cmd.ttl, hash |-> cmd.hash]

AddFile(p) ==
    /\ Uncut(p, "addFile")
    /\ AddFileTx(p, req[p].alias, NewRow(req[p].upload, req[p].spelled))
    /\ req' = [req EXCEPT ![p].pc = "createFile", ![p].file = nextId]
    /\ UNCHANGED <<storeVars, served, born, asked, drawn, mislaid>>

AddFileTaken(p) ==
    /\ Uncut(p, "addFile")
    /\ AliasTaken(req[p].alias)
    /\ Return(p)
    /\ UNCHANGED <<tableVars, storeVars, served, born, asked, drawn, mislaid>>

(* Upload looks at ctx only after os.Create, and leaves the empty blob. *)
CreateFile(p) ==
    /\ At(p, "createFile")
    /\ CreateBlob(req[p].alias, req[p].spelled, req[p].file)
    /\ IF req[p].cut THEN Return(p) ELSE Goto(p, "copyFile")
    /\ UNCHANGED <<tableVars, served, born, asked, drawn, mislaid>>

CopyFile(p) ==
    /\ At(p, "copyFile")
    /\ FillBlob(req[p].file)
    /\ Goto(p, "commitUpload")
    /\ UNCHANGED <<tableVars, served, born, asked, drawn, mislaid>>

Publish(p) == born' = [born EXCEPT ![req[p].file] = pend[req[p].alias]]

CommitUpload(p) ==
    /\ Uncut(p, "commitUpload")
    /\ Commit(p)
    /\ Publish(p)
    /\ Return(p)
    /\ UNCHANGED <<storeVars, served, asked, drawn, mislaid>>

(* DownloadFile -----------------------------------------------------------*)

DownloadBegin(p) ==
    \E a \in Alias, s \in Spelling, password \in Password :
        /\ Visible(a)
        /\ CheckPassword(rows[a], password) = "ok"
        /\ Begin(p, "openFile", a, s, NoUpload)
        /\ UNCHANGED <<tableVars, storeVars, served, born, asked, drawn, mislaid>>

OpenFile(p) ==
    /\ At(p, "openFile")
    /\ \E f \in dir[req[p].alias][req[p].spelled] :
            req' = [req EXCEPT ![p].pc = "readCounter", ![p].file = f]
    /\ UNCHANGED <<tableVars, storeVars, served, born, asked, drawn, mislaid>>

OpenFileMisses(p) ==
    /\ At(p, "openFile")
    /\ dir[req[p].alias][req[p].spelled] = {}
    /\ Return(p)
    /\ UNCHANGED <<tableVars, storeVars, served, born, asked, drawn, mislaid>>

(* The SELECT of DecrementDownloadsByAliasTx: a consistent read, no lock. *)
Downloadable(a) == Visible(a) /\ rows[a].left # 0

ReadCounter(p) ==
    /\ Uncut(p, "readCounter")
    /\ Downloadable(req[p].alias)
    /\ req' = [req EXCEPT ![p].pc = "writeCounter",
                          ![p].left = rows[req[p].alias].left - 1]
    /\ UNCHANGED <<tableVars, storeVars, served, born, asked, drawn, mislaid>>

ReadCounterMisses(p) ==
    /\ Uncut(p, "readCounter")
    /\ ~Downloadable(req[p].alias)
    /\ Return(p)
    /\ UNCHANGED <<tableVars, storeVars, served, born, asked, drawn, mislaid>>

(* Mutant: one download early, the file is taken for used up. *)
WriteCounterOffByOne(p) ==
    /\ Uncut(p, "writeCounter")
    /\ UpdateCounter(p, req[p].alias, req[p].left)
    /\ Goto(p, IF req[p].left > 1 THEN "commitDownload" ELSE "deleteLastRow")
    /\ UNCHANGED <<storeVars, served, born, asked, drawn, mislaid>>

(* Its UPDATE writes the value computed from that read. *)
WriteCounter(p) ==
    /\ Uncut(p, "writeCounter")
    /\ UpdateCounter(p, req[p].alias, req[p].left)
    /\ Goto(p, IF req[p].left > 0 THEN "commitDownload" ELSE "deleteLastRow")
    /\ UNCHANGED <<storeVars, served, born, asked, drawn, mislaid>>

Serve(p) == served' = [served EXCEPT ![req[p].file] = @ + 1]

(* A commit that deletes a row which was not drawn in the client's         *)
(* spelling: the folder that the request has removed is another one.       *)
Mislay(p) ==
    LET a == req[p].alias
    IN  mislaid' = IF rows[a] # NoRow /\ pend[a] = NoRow /\ rows[a].spelled # req[p].spelled
                   THEN mislaid \union {rows[a].id} ELSE mislaid

CommitDownload(p) ==
    /\ \E step \in {"commitDownload", "commitLast"} : Uncut(p, step)
    /\ Commit(p)
    /\ Serve(p)
    /\ Mislay(p)
    /\ Return(p)
    /\ UNCHANGED <<storeVars, born, asked, drawn>>

(* DeleteFile, and the end of a last download -----------------------------*)

DeleteBegin(p) ==
    \E a \in Alias, s \in Spelling, u \in User :
        /\ Visible(a)
        /\ CheckAccess(rows[a], u, RolesOf[u])
        /\ Begin(p, "deleteRow", a, s, NoUpload)
        /\ asked' = asked \union {rows[a].id}
        /\ UNCHANGED <<tableVars, storeVars, served, born, drawn, mislaid>>

DeleteRow(p) ==
    /\ \/ Uncut(p, "deleteRow") /\ Goto(p, "deleteFile")
       \/ Uncut(p, "deleteLastRow") /\ Goto(p, "deleteLastFile")
    /\ DeleteFileTx(p, req[p].alias)
    /\ UNCHANGED <<storeVars, served, born, asked, drawn, mislaid>>

(* ErrFileNotFound: another request or the clock was faster. *)
DeleteRowMisses(p) ==
    /\ Uncut(p, "deleteRow") \/ Uncut(p, "deleteLastRow")
    /\ DeleteMisses(p, req[p].alias)
    /\ Rollback(p)
    /\ Return(p)
    /\ UNCHANGED <<storeVars, served, born, asked, drawn, mislaid>>

(* The folder goes before the commit, and goes even when ctx is cancelled. *)
DeleteFolder(p) ==
    /\ \/ At(p, "deleteFile") /\ Goto(p, "commitDelete")
       \/ At(p, "deleteLastFile") /\ Goto(p, "commitLast")
    /\ RemoveFolder(req[p].alias, req[p].spelled)
    /\ UNCHANGED <<tableVars, served, born, asked, drawn, mislaid>>

CommitDelete(p) ==
    /\ Uncut(p, "commitDelete")
    /\ Commit(p)
    /\ Mislay(p)
    /\ Return(p)
    /\ UNCHANGED <<storeVars, served, born, asked, drawn>>

(* A statement of a cut request fails; its transaction is long gone. *)
CutReturn(p) ==
    /\ req[p].cut
    /\ req[p].pc \in DbSteps
    /\ Return(p)
    /\ UNCHANGED <<tableVars, storeVars, served, born, asked, drawn, mislaid>>

RequestStep(p) ==
    \/ AddFile(p) \/ AddFileTaken(p) \/ CreateFile(p) \/ CopyFile(p) \/ CommitUpload(p)
    \/ OpenFile(p) \/ OpenFileMisses(p)
    \/ ReadCounter(p) \/ ReadCounterMisses(p) \/ WriteCounter(p) \/ CommitDownload(p)
    \/ DeleteRow(p) \/ DeleteRowMisses(p) \/ DeleteFolder(p) \/ CommitDelete(p)
    \/ CutReturn(p)

RequestBegin(p) == UploadBegin(p) \/ DownloadBegin(p) \/ DeleteBegin(p)

(* Faults a request meets -------------------------------------------------*)

(* The client goes away. *)
Disconnect(p) ==
    /\ Active(p)
    /\ ~req[p].cut
    /\ req' = [req EXCEPT ![p].cut = TRUE]
    /\ Rollback(p)
    /\ UNCHANGED <<storeVars, served, born, asked, drawn, mislaid>>

(* A statement, or a commit that was not applied, returns an error; the    *)
(* deferred rollback runs.                                                 *)
DbError(p) ==
    /\ \E step \in DbSteps : Uncut(p, step)
    /\ Rollback(p)
    /\ Return(p)
    /\ UNCHANGED <<storeVars, served, born, asked, drawn, mislaid>>

(* The commit was applied, and the answer was lost: the caller sees an     *)
(* error like any other.                                                   *)
CommitLost(p) ==
    /\ \E step \in CommitSteps : Uncut(p, step)
    /\ Commit(p)
    /\ IF At(p, "commitUpload") THEN Publish(p) ELSE UNCHANGED born
    /\ Mislay(p)
    /\ Return(p)
    /\ UNCHANGED <<storeVars, served, asked, drawn>>

(* Mutant: the error path forgets the rollback. *)
StoreErrorNoRollback(p) ==
    /\ \/ req[p].pc \in {"createFile", "openFile"} /\ UNCHANGED storeVars
       \/ /\ At(p, "copyFile")
          /\ RemoveFolder(req[p].alias, req[p].spelled) \/ FillBlob(req[p].file)
       \/ /\ req[p].pc \in {"deleteFile", "deleteLastFile"}
          /\ RemoveFolderFails(req[p].alias, req[p].spelled)
    /\ Return(p)
    /\ UNCHANGED <<tableVars, served, born, asked, drawn, mislaid>>

(* Mutant: the error of RemoveAll is ignored and the transaction commits. *)
StoreErrorIgnored(p) ==
    /\ req[p].pc \in {"deleteFile", "deleteLastFile"}
    /\ RemoveFolderFails(req[p].alias, req[p].spelled)
    /\ Commit(p)
    /\ Mislay(p)
    /\ Return(p)
    /\ UNCHANGED <<served, born, asked, drawn>>

(* The blob store fails.  A failed copy removes the folder, whatever else  *)
(* is in it; a failed Sync leaves the blob behind.                         *)
StoreError(p) ==
    /\ \/ req[p].pc \in {"createFile", "openFile"} /\ UNCHANGED storeVars
       \/ /\ At(p, "copyFile")
          /\ RemoveFolder(req[p].alias, req[p].spelled) \/ FillBlob(req[p].file)
       \/ /\ req[p].pc \in {"deleteFile", "deleteLastFile"}
          /\ RemoveFolderFails(req[p].alias, req[p].spelled)
    /\ Rollback(p)
    /\ Return(p)
    /\ UNCHANGED <<served, born, asked, drawn, mislaid>>
=============================================================================
