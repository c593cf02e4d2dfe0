------------------------------ MODULE RowProofs -------------------------------
(***************************************************************************)
(* Who owns an alias, and what follows for the rows: one writer per        *)
(* folder, no exhausted row, and bounds on the count and the sizes.        *)
(*                                                                         *)
(* LockInv: a goroutine holds the lock of its alias exactly while it is    *)
(* between its first write and its commit and its client is still there;   *)
(* the worker holds those of its batch.  PendInv: what the holder has made *)
(* of the row.  Each is inductive given the ones before it.                *)
(***************************************************************************)
EXTENDS ExpireShareProofs

UploadSteps == {"createFile", "copyFile", "commitUpload"}
RemovalSteps == {"deleteFile", "commitDelete", "deleteLastFile", "commitLast"}
TxSteps == UploadSteps \union RemovalSteps \union {"commitDownload", "deleteLastRow"}

InTx(p) == ~req[p].cut /\ req[p].pc \in TxSteps

LockInv ==
    /\ \A p \in Req, a \in Alias : lock[a] = p <=> InTx(p) /\ req[p].alias = a
    /\ \A a \in todo : lock[a] = Worker
    /\ \A a \in Alias : lock[a] = Worker => sweeping
    /\ ~sweeping => todo = {}

LEMMA LockInit == Init => LockInv
BY DomainAssumption
   DEF Init, TableInit, ServiceInit, WorkerInit, Idle, LockInv, InTx, TxSteps,
       UploadSteps, RemovalSteps, Actor

(* The three things a step of a goroutine does to the locks. *)

(* It takes or keeps the lock of its alias and stays in its transaction. *)
LEMMA LockTaken ==
    ASSUME TypeInv, LockInv, NEW p \in Req, Active(p), lock[req[p].alias] \in {None, p},
           lock' = [lock EXCEPT ![req[p].alias] = p],
           NEW g \in Goroutine, req' = [req EXCEPT ![p] = g],
           g.alias = req[p].alias, ~g.cut, g.pc \in TxSteps,
           UNCHANGED workerVars
    PROVE  LockInv'
<1>1. p # Worker /\ Worker # None /\ req[p].alias \in Alias /\ Req \subseteq Actor
  BY DomainAssumption DEF TypeInv, LocalsOK, Actor
<1>2. lock \in [Alias -> Actor \union {None}] /\ req \in [Req -> Goroutine] /\ todo \subseteq Alias
  BY DEF TypeInv, TypeOK, TableTypeOK, ServiceTypeOK, WorkerTypeOK
<1>3. ASSUME NEW q \in Req, NEW a \in Alias
      PROVE  (lock[a] = q <=> InTx(q) /\ req[q].alias = a)'
  <2>1. CASE q = p
    BY <1>1, <1>2, <2>1 DEF LockInv, InTx
  <2>2. CASE q # p
    BY <1>1, <1>2, <2>2, DomainAssumption DEF LockInv, InTx, Actor
  <2> QED BY <2>1, <2>2
<1> QED BY <1>1, <1>2, <1>3 DEF LockInv, workerVars

(* It ends its transaction, or has none, and is left outside of one. *)
LEMMA LockReleased ==
    ASSUME TypeInv, LockInv, NEW p \in Req,
           \/ Release(p)
           \/ lock' = lock /\ ~InTx(p),
           NEW g, req' = [req EXCEPT ![p] = g],
           g.cut \/ g.pc \notin TxSteps,
           UNCHANGED workerVars
    PROVE  LockInv'
<1>1. p # Worker /\ Worker # None /\ None \notin Req
  BY DomainAssumption DEF Actor
<1>2. lock \in [Alias -> Actor \union {None}] /\ req \in [Req -> Goroutine] /\ todo \subseteq Alias
  BY DEF TypeInv, TypeOK, TableTypeOK, ServiceTypeOK, WorkerTypeOK
<1>3. ASSUME NEW a \in Alias
      PROVE  /\ lock[a] # p => lock'[a] = lock[a]
             /\ lock'[a] # p
  BY <1>1, <1>2, <1>3 DEF LockInv, Release
<1>4. ASSUME NEW q \in Req, NEW a \in Alias
      PROVE  (lock[a] = q <=> InTx(q) /\ req[q].alias = a)'
  <2>1. CASE q = p
    BY <1>2, <1>3, <2>1 DEF InTx
  <2>2. CASE q # p
    <3>1. InTx(q)' = InTx(q) /\ req'[q] = req[q]
      BY <1>2, <2>2 DEF InTx
    <3>2. lock'[a] = q <=> lock[a] = q
      BY <1>1, <1>2, <1>3, <2>2 DEF Release, LockInv
    <3> QED BY <3>1, <3>2 DEF LockInv
  <2> QED BY <2>1, <2>2
<1>5. \A a \in Alias : lock'[a] = Worker <=> lock[a] = Worker
  BY <1>1, <1>2, <1>3 DEF Release
<1> QED BY <1>2, <1>4, <1>5 DEF LockInv, workerVars

(* It moves within its transaction, or outside of one. *)
LEMMA LockKept ==
    ASSUME TypeInv, LockInv, NEW p \in Req, lock' = lock,
           NEW g, req' = [req EXCEPT ![p] = g],
           g.alias = req[p].alias \/ ~InTx(p), 
           (~g.cut /\ g.pc \in TxSteps) <=> InTx(p),
           UNCHANGED workerVars
    PROVE  LockInv'
<1>1. req \in [Req -> Goroutine]
  BY DEF TypeInv, TypeOK, ServiceTypeOK
<1>2. ASSUME NEW q \in Req, NEW a \in Alias
      PROVE  (lock[a] = q <=> InTx(q) /\ req[q].alias = a)'
  <2>1. CASE q = p
    BY <1>1, <2>1 DEF LockInv, InTx
  <2>2. CASE q # p
    BY <1>1, <2>2 DEF LockInv, InTx
  <2> QED BY <2>1, <2>2
<1> QED BY <1>2 DEF LockInv, workerVars

LEMMA LockRequest ==
    ASSUME TypeInv, LockInv, NEW p \in Req, UNCHANGED workerVars,
           RequestBegin(p) \/ RequestStep(p)
    PROVE  LockInv'
<1> USE DEF TxSteps, UploadSteps, RemovalSteps
<1>0. /\ req[p] \in Goroutine /\ Idle.pc = "idle"
      /\ Active(p) => req[p].alias \in Alias
  BY DEF TypeInv, TypeOK, ServiceTypeOK, LocalsOK, Idle
<1>1. CASE UploadBegin(p) \/ DownloadBegin(p) \/ DeleteBegin(p)
  <2>1. PICK step, a, s, cmd :
           /\ step \in {"addFile", "openFile", "deleteRow"}
           /\ Begin(p, step, a, s, cmd)
           /\ lock' = lock
    BY <1>1 DEF UploadBegin, DownloadBegin, DeleteBegin, tableVars
  <2> DEFINE g == [Idle EXCEPT !.pc = step, !.alias = a, !.spelled = s, !.upload = cmd]
  <2>2. req' = [req EXCEPT ![p] = g] /\ ~InTx(p) /\ g.pc \notin TxSteps
    BY <2>1 DEF Begin, InTx, Idle
  <2> HIDE DEF g
  <2> QED BY <2>1, <2>2, LockKept
<1>2. CASE AddFile(p)
  <2> DEFINE g == [req[p] EXCEPT !.pc = "createFile", !.file = nextId]
  <2>1. req' = [req EXCEPT ![p] = g] /\ Active(p)
    BY <1>2 DEF AddFile, Uncut, At, Active
  <2>2. g \in Goroutine /\ g.alias = req[p].alias /\ ~g.cut /\ g.pc \in TxSteps
    <3>1. nextId \in FileId
      BY <1>2, NextIdTyped DEF AddFile, Uncut
    <3> QED BY <1>0, <1>2, <3>1 DEF AddFile, Uncut, Goroutine, StoreSteps
  <2> HIDE DEF g
  <2>3. /\ lock' = [lock EXCEPT ![req[p].alias] = p]
        /\ lock[req[p].alias] \in {None, p}
    BY <1>2 DEF AddFile, AddFileTx, Unlocked
  <2> QED BY <2>1, <2>2, <2>3, LockTaken
<1>3. CASE AddFileTaken(p) \/ OpenFileMisses(p) \/ ReadCounterMisses(p)
  <2>1. Return(p) /\ lock' = lock /\ ~InTx(p)
    BY <1>3 DEF AddFileTaken, OpenFileMisses, ReadCounterMisses, tableVars, Uncut, At, InTx
  <2> QED BY <1>0, <2>1, LockReleased DEF Return
<1>4. CASE CreateFile(p)
  <2>1. lock' = lock /\ At(p, "createFile")
    BY <1>4 DEF CreateFile, tableVars
  <2>2. CASE req[p].cut
    <3>1. Return(p) /\ ~InTx(p)
      BY <1>4, <2>2 DEF CreateFile, InTx
    <3> QED BY <1>0, <2>1, <3>1, LockReleased DEF Return
  <2>3. CASE ~req[p].cut
    <3> DEFINE g == [req[p] EXCEPT !.pc = "copyFile"]
    <3>1. req' = [req EXCEPT ![p] = g]
      BY <1>4, <2>3 DEF CreateFile, Goto
    <3>2. g.alias = req[p].alias /\ g.pc = "copyFile" /\ g.cut = req[p].cut
      BY <1>0 DEF Goroutine
    <3> HIDE DEF g
    <3> QED BY <2>1, <2>3, <3>1, <3>2, LockKept DEF InTx, At
  <2> QED BY <2>2, <2>3
<1>5. CASE CopyFile(p) \/ DeleteFolder(p)
  <2>1. PICK step \in {"commitUpload", "commitDelete", "commitLast"} : Goto(p, step)
    BY <1>5 DEF CopyFile, DeleteFolder
  <2>2. lock' = lock /\ req[p].pc \in TxSteps
    BY <1>5 DEF CopyFile, DeleteFolder, tableVars, At
  <2> DEFINE g == [req[p] EXCEPT !.pc = step]
  <2>3. g.alias = req[p].alias /\ g.pc = step /\ g.cut = req[p].cut
    BY <1>0 DEF Goroutine
  <2>4. req' = [req EXCEPT ![p] = g]
    BY <2>1 DEF Goto
  <2> HIDE DEF g
  <2> QED BY <2>1, <2>2, <2>3, <2>4, LockKept DEF InTx
<1>6. CASE OpenFile(p) \/ ReadCounter(p)
  <2>1. lock' = lock /\ ~InTx(p)
    BY <1>6 DEF OpenFile, ReadCounter, tableVars, Uncut, At, InTx
  <2>2. CASE OpenFile(p)
    <3>1. PICK f : req' = [req EXCEPT ![p].pc = "readCounter", ![p].file = f]
      BY <2>2 DEF OpenFile
    <3> DEFINE g == [req[p] EXCEPT !.pc = "readCounter", !.file = f]
    <3>2. req' = [req EXCEPT ![p] = g]
      BY <3>1
    <3>3. g.pc \notin TxSteps
      BY <1>0 DEF Goroutine
    <3> HIDE DEF g
    <3> QED BY <2>1, <3>2, <3>3, LockReleased
  <2>3. CASE ReadCounter(p)
    <3> DEFINE g == [req[p] EXCEPT !.pc = "writeCounter",
                                   !.left = rows[req[p].alias].left - 1]
    <3>1. req' = [req EXCEPT ![p] = g]
      BY <2>3 DEF ReadCounter
    <3>2. g.pc \notin TxSteps
      BY <1>0 DEF Goroutine
    <3> HIDE DEF g
    <3> QED BY <2>1, <3>1, <3>2, LockReleased
  <2> QED BY <1>6, <2>2, <2>3
<1>7. CASE WriteCounter(p) \/ DeleteRow(p)
  <2>1. PICK step \in {"commitDownload", "deleteLastRow", "deleteFile", "deleteLastFile"} :
           Goto(p, step)
    BY <1>7 DEF WriteCounter, DeleteRow
  <2>2. Active(p) /\ ~req[p].cut
    BY <1>7 DEF WriteCounter, DeleteRow, Uncut, At, Active
  <2>3. /\ lock' = [lock EXCEPT ![req[p].alias] = p]
        /\ lock[req[p].alias] \in {None, p}
    BY <1>7 DEF WriteCounter, UpdateCounter, Unlocked, DeleteRow, DeleteFileTx
  <2> DEFINE g == [req[p] EXCEPT !.pc = step]
  <2>4. /\ g \in Goroutine /\ g.alias = req[p].alias /\ g.pc = step /\ g.cut = req[p].cut
    BY <1>0 DEF Goroutine, DbSteps, StoreSteps
  <2>5. req' = [req EXCEPT ![p] = g]
    BY <2>1 DEF Goto
  <2> HIDE DEF g
  <2> QED BY <2>1, <2>2, <2>3, <2>4, <2>5, LockTaken
<1>8. CASE CommitUpload(p) \/ CommitDownload(p) \/ CommitDelete(p) \/ DeleteRowMisses(p)
  <2>1. Release(p) /\ Return(p)
    BY <1>8 DEF CommitUpload, CommitDownload, CommitDelete, DeleteRowMisses, Commit, Rollback
  <2> QED BY <1>0, <2>1, LockReleased DEF Return
<1>9. CASE CutReturn(p)
  <2>1. Return(p) /\ lock' = lock /\ ~InTx(p)
    BY <1>9 DEF CutReturn, tableVars, InTx
  <2> QED BY <1>0, <2>1, LockReleased DEF Return
<1> QED BY <1>1, <1>2, <1>3, <1>4, <1>5, <1>6, <1>7, <1>8, <1>9 DEF RequestBegin, RequestStep

LEMMA LockFault ==
    ASSUME TypeInv, LockInv, NEW p \in Req, UNCHANGED workerVars,
           Disconnect(p) \/ DbError(p) \/ CommitLost(p) \/ StoreError(p)
    PROVE  LockInv'
<1>0. req[p] \in Goroutine /\ Idle.pc = "idle"
  BY DEF TypeInv, TypeOK, ServiceTypeOK, Idle
<1>1. CASE Disconnect(p)
  <2> DEFINE g == [req[p] EXCEPT !.cut = TRUE]
  <2>1. req' = [req EXCEPT ![p] = g] /\ g.cut
    BY <1>0, <1>1 DEF Disconnect, Goroutine
  <2> HIDE DEF g
  <2> QED BY <1>1, <2>1, LockReleased DEF Disconnect, Rollback
<1>2. CASE DbError(p) \/ CommitLost(p) \/ StoreError(p)
  <2>1. Release(p) /\ Return(p)
    BY <1>2 DEF DbError, CommitLost, StoreError, Commit, Rollback
  <2> QED BY <1>0, <2>1, LockReleased
          DEF Return, TxSteps, UploadSteps, RemovalSteps
<1> QED BY <1>1, <1>2

LEMMA LockWorker ==
    ASSUME TypeInv, LockInv, UNCHANGED req,
           WorkerStep \/ RemoveExpiredFails \/ WorkerDbError
    PROVE  LockInv'
<1>0. /\ Worker \notin Req /\ Worker # None /\ None \notin Req
      /\ lock \in [Alias -> Actor \union {None}] /\ todo \subseteq Alias
  BY DomainAssumption DEF Actor, TypeInv, TypeOK, TableTypeOK, WorkerTypeOK
<1>1. CASE CollectExpired
  <2>1. PICK batch \in SUBSET Alias :
           /\ \A a \in batch : lock[a] = None
           /\ lock' = [a \in Alias |-> IF a \in batch THEN Worker ELSE lock[a]]
           /\ todo' = batch
    BY <1>1 DEF CollectExpired, Expired, DeleteExpiredFilesTx, Unlocked
  <2> QED BY <1>0, <1>1, <2>1 DEF CollectExpired, LockInv, InTx
<1>2. CASE RemoveExpired
  BY <1>0, <1>2 DEF RemoveExpired, tableVars, LockInv, InTx
<1>3. CASE CommitExpired \/ RemoveExpiredFails \/ WorkerDbError
  <2>1. Release(Worker) /\ Sleep
    BY <1>3 DEF CommitExpired, RemoveExpiredFails, WorkerDbError, Commit, Rollback
  <2> QED BY <1>0, <2>1 DEF Release, Sleep, LockInv, InTx
<1> QED BY <1>1, <1>2, <1>3 DEF WorkerStep

LEMMA LockNext == TypeInv /\ LockInv /\ [Next]_vars => LockInv'
<1> SUFFICES ASSUME TypeInv, LockInv, [Next]_vars PROVE LockInv'
  OBVIOUS
<1>1. ASSUME NEW p \in Req, RequestNext(p) PROVE LockInv'
  BY <1>1, LockRequest DEF RequestNext
<1>2. ASSUME NEW p \in Req, RequestFault(p), UNCHANGED workerVars PROVE LockInv'
  BY <1>2, LockFault DEF RequestFault
<1>3. CASE WorkerNext
  BY <1>3, LockWorker DEF WorkerNext, serviceVars
<1>4. CASE WorkerFault /\ UNCHANGED serviceVars
  BY <1>4, LockWorker DEF WorkerFault, serviceVars
<1>5. CASE Fault("crash") /\ Crash
  BY <1>5, DomainAssumption
     DEF Crash, RollbackAll, Sleep, Idle, LockInv, InTx, TxSteps, UploadSteps,
         RemovalSteps, Actor
<1>6. CASE ClockNext
  BY <1>6 DEF ClockNext, Tick, workerVars, serviceVars, LockInv, InTx
<1>7. CASE UNCHANGED vars
  BY <1>7 DEF vars, tableVars, workerVars, serviceVars, LockInv, InTx
<1> QED BY <1>1, <1>2, <1>3, <1>4, <1>5, <1>6, <1>7 DEF Next, Rest

(* Folders have one writer: whoever writes holds the alias. *)
LEMMA LockOwner == TypeInv /\ LockInv => FolderHasOneWriter
<1> SUFFICES ASSUME TypeInv, LockInv, NEW a \in Alias
             PROVE  Cardinality({p \in Req : Writing(p) /\ req[p].alias = a}
                                \union (IF a \in todo THEN {Worker} ELSE {})) <= 1
  BY DEF FolderHasOneWriter
<1> DEFINE S == {p \in Req : Writing(p) /\ req[p].alias = a}
                \union (IF a \in todo THEN {Worker} ELSE {})
<1>1. S \subseteq {lock[a]}
  BY DEF LockInv, Writing, InTx, TxSteps, UploadSteps, RemovalSteps
<1>2. IsFiniteSet({lock[a]}) /\ Cardinality({lock[a]}) = 1
  BY FS_Singleton
<1>3. Cardinality(S) <= Cardinality({lock[a]})
  BY <1>1, <1>2, FS_Subset
<1> QED BY <1>2, <1>3

(* FolderHasOneWriter in every reachable state. *)
THEOREM OneWriter == Spec => []FolderHasOneWriter
<1>1. Spec => [](TypeInv /\ LockInv)
  BY InitTyped, LockInit, NextTyped, LockNext, PTL DEF Spec
<1> QED BY <1>1, LockOwner, PTL

(***************************************************************************)
(* What the holder of an alias has made of its row, step by step, and so   *)
(* what its commit will publish.  Inductive given who the holder is.       *)
(***************************************************************************)

HolderOK(p) ==
    LET a == req[p].alias IN
    InTx(p) =>
        /\ req[p].pc \in UploadSteps =>
              /\ rows[a] = NoRow
              /\ pend[a] # NoRow
              /\ pend[a].id = req[p].file
              /\ pend[a].spelled = req[p].spelled
              /\ pend[a].owner = req[p].upload.owner
              /\ pend[a].size = req[p].upload.size
              /\ pend[a].left > 0
        /\ req[p].pc = "commitDownload" =>
              /\ rows[a] = NoRow <=> pend[a] = NoRow
              /\ pend[a] # NoRow => /\ pend[a].id = rows[a].id
                                    /\ pend[a].spelled = rows[a].spelled
                                    /\ pend[a].owner = rows[a].owner
                                    /\ pend[a].size = rows[a].size
                                    /\ pend[a].left > 0
        /\ req[p].pc \in RemovalSteps => pend[a] = NoRow

WorkerHolds == \A a \in Alias : lock[a] = Worker => pend[a] = NoRow

PendInv == NoExhaustedRow /\ WorkerHolds /\ \A p \in Req : HolderOK(p)

(* The invariant the steps below start from. *)
RowInv == TypeInv /\ LockInv /\ PendInv

LEMMA PendInit == Init => PendInv
BY DomainAssumption
   DEF Init, TableInit, ServiceInit, Idle, PendInv, NoExhaustedRow, WorkerHolds, HolderOK,
       InTx, TxSteps, UploadSteps, RemovalSteps, Actor

(* What nobody changes stays in order. *)
LEMMA HolderKept ==
    ASSUME NEW q, HolderOK(q), req'[q] = req[q],
           InTx(q) => /\ pend'[req[q].alias] = pend[req[q].alias]
                      /\ rows'[req[q].alias] = rows[req[q].alias]
    PROVE  HolderOK(q)'
<1>1. InTx(q)' <=> InTx(q)
  BY DEF InTx
<1>2. CASE ~InTx(q)
  BY <1>1, <1>2 DEF HolderOK
<1>3. CASE InTx(q)
  BY <1>1, <1>3 DEF HolderOK
<1> QED BY <1>2, <1>3

(* A step of p that leaves the table alone. *)
LEMMA PendKept ==
    ASSUME RowInv, NEW p \in Req, UNCHANGED <<rows, pend, lock>>,
           NEW g, req' = [req EXCEPT ![p] = g], HolderOK(p)'
    PROVE  PendInv'
<1>1. \A q \in Req \ {p} : req'[q] = req[q]
  BY DEF RowInv, TypeInv, TypeOK, ServiceTypeOK
<1>2. ASSUME NEW q \in Req, q # p PROVE HolderOK(q)'
  <2>1. HolderOK(q)
    BY DEF RowInv, PendInv
  <2> QED BY <1>1, <1>2, <2>1, HolderKept
<1>3. NoExhaustedRow' /\ WorkerHolds'
  BY DEF RowInv, PendInv, NoExhaustedRow, WorkerHolds
<1> QED BY <1>2, <1>3 DEF PendInv

(* A statement of p that writes its row. *)
LEMMA PendWritten ==
    ASSUME RowInv, NEW p \in Req, lock[req[p].alias] \in {None, p},
           NEW row, pend' = [pend EXCEPT ![req[p].alias] = row],
           lock' = [lock EXCEPT ![req[p].alias] = p], rows' = rows,
           NEW g, req' = [req EXCEPT ![p] = g], HolderOK(p)'
    PROVE  PendInv'
<1>0. /\ p # Worker /\ Worker # None /\ None \notin Req
      /\ lock \in [Alias -> Actor \union {None}] /\ req \in [Req -> Goroutine]
      /\ pend \in [Alias -> Row \union {NoRow}]
  BY DomainAssumption DEF Actor, RowInv, TypeInv, TypeOK, TableTypeOK, ServiceTypeOK
<1>1. ASSUME NEW q \in Req, q # p PROVE HolderOK(q)'
  <2>1. req'[q] = req[q] /\ InTx(q)' = InTx(q)
    BY <1>0, <1>1 DEF InTx
  <2>2. ASSUME InTx(q) PROVE pend'[req[q].alias] = pend[req[q].alias]
    <3>1. req[q].alias \in Alias
      BY <2>2 DEF RowInv, TypeInv, LocalsOK, Active, InTx, TxSteps, UploadSteps, RemovalSteps
    <3>2. lock[req[q].alias] = q
      BY <2>2, <3>1 DEF RowInv, LockInv
    <3>3. req[q].alias # req[p].alias
      BY <1>0, <1>1, <3>2
    <3> QED BY <1>0, <3>1, <3>3
  <2>3. HolderOK(q)
    BY DEF RowInv, PendInv
  <2> QED BY <2>1, <2>2, <2>3, HolderKept
<1>2. WorkerHolds'
  BY <1>0 DEF RowInv, PendInv, WorkerHolds
<1> QED BY <1>1, <1>2 DEF RowInv, PendInv, NoExhaustedRow

(* The transaction of p ends, if it has one. *)
LEMMA PendEnded ==
    ASSUME RowInv, NEW p \in Req,
           \/ Rollback(p)
           \/ Commit(p) /\ \E step \in CommitSteps : Uncut(p, step),
           NEW g, req' = [req EXCEPT ![p] = g], g.cut \/ g.pc \notin TxSteps
    PROVE  PendInv'
<1>0. /\ p # Worker /\ Worker # None /\ None \notin Req
      /\ lock \in [Alias -> Actor \union {None}] /\ req \in [Req -> Goroutine]
      /\ pend \in [Alias -> Row \union {NoRow}] /\ rows \in [Alias -> Row \union {NoRow}]
  BY DomainAssumption DEF Actor, RowInv, TypeInv, TypeOK, TableTypeOK, ServiceTypeOK
<1>1. \A a \in Alias :
        lock[a] # p => lock'[a] = lock[a] /\ pend'[a] = pend[a] /\ rows'[a] = rows[a]
  BY <1>0 DEF Rollback, Commit, Release
<1>2. \A a \in Alias : lock'[a] # p
  BY <1>0, DomainAssumption DEF Rollback, Commit, Release, Actor
<1>3. ASSUME NEW q \in Req PROVE HolderOK(q)'
  <2>1. CASE q = p
    BY <1>0, <2>1 DEF HolderOK, InTx
  <2>2. CASE q # p
    <3>1. req'[q] = req[q] /\ InTx(q)' = InTx(q)
      BY <1>0, <2>2 DEF InTx
    <3>2. ASSUME InTx(q) PROVE req[q].alias \in Alias /\ lock[req[q].alias] = q
      <4>1. req[q].alias \in Alias
        BY <3>2 DEF RowInv, TypeInv, LocalsOK, Active, InTx, TxSteps, UploadSteps, RemovalSteps
      <4> QED BY <3>2, <4>1 DEF RowInv, LockInv
    <3>3. ASSUME InTx(q)
          PROVE  /\ pend'[req[q].alias] = pend[req[q].alias]
                 /\ rows'[req[q].alias] = rows[req[q].alias]
      BY <1>1, <2>2, <3>2, <3>3
    <3>4. HolderOK(q)
      BY DEF RowInv, PendInv
    <3> QED BY <3>1, <3>3, <3>4, HolderKept
  <2> QED BY <2>1, <2>2
<1>4. WorkerHolds'
  <2>1. \A a \in Alias : lock'[a] = Worker => lock[a] = Worker /\ pend'[a] = pend[a]
    BY <1>0, <1>1 DEF Rollback, Commit, Release
  <2> QED BY <2>1 DEF RowInv, PendInv, WorkerHolds
<1>5. NoExhaustedRow'
  <2>1. ASSUME NEW a \in Alias, lock[a] = p, \E step \in CommitSteps : Uncut(p, step)
        PROVE  pend[a] # NoRow => pend[a].left > 0
    <3>1. InTx(p) /\ req[p].alias = a
      BY <2>1 DEF RowInv, LockInv
    <3>2. req[p].pc \in UploadSteps \union RemovalSteps \union {"commitDownload"}
      BY <2>1 DEF CommitSteps, Uncut, At, UploadSteps, RemovalSteps
    <3> QED BY <3>1, <3>2 DEF RowInv, PendInv, HolderOK
  <2>2. CASE Rollback(p)
    BY <2>2 DEF Rollback, RowInv, PendInv, NoExhaustedRow
  <2>3. CASE Commit(p) /\ \E step \in CommitSteps : Uncut(p, step)
    <3>1. \A a \in Alias : rows'[a] = IF lock[a] = p THEN pend[a] ELSE rows[a]
      BY <2>3 DEF Commit
    <3> QED BY <2>1, <2>3, <3>1 DEF RowInv, PendInv, NoExhaustedRow
  <2> QED BY <2>2, <2>3
<1> QED BY <1>3, <1>4, <1>5 DEF PendInv

(* The steps of an upload. *)
LEMMA PendUpload ==
    ASSUME RowInv, NEW p \in Req,
           AddFile(p) \/ CreateFile(p) \/ CopyFile(p)
    PROVE  PendInv'
<1>0. /\ req[p] \in Goroutine /\ Idle.pc = "idle"
      /\ req \in [Req -> Goroutine] /\ req[p].alias \in Alias
      /\ pend \in [Alias -> Row \union {NoRow}]
  BY DEF RowInv, TypeInv, TypeOK, TableTypeOK, ServiceTypeOK, LocalsOK, Active, Idle,
         AddFile, CreateFile, CopyFile, Uncut, At
<1>1. CASE AddFile(p)
  <2> DEFINE g == [req[p] EXCEPT !.pc = "createFile", !.file = nextId]
             row == NewRow(req[p].upload, req[p].spelled)
  <2>1. req' = [req EXCEPT ![p] = g] /\ g.pc = "createFile" /\ g.file = nextId /\ g.alias = req[p].alias
        /\ g.spelled = req[p].spelled /\ g.upload = req[p].upload
    BY <1>0, <1>1 DEF AddFile, Goroutine
  <2>2. /\ row \in Row /\ row.left > 0 /\ row.id = nextId
        /\ row.owner = req[p].upload.owner /\ row.size = req[p].upload.size
        /\ row.spelled = req[p].spelled
    <3>1. /\ nextId \in FileId /\ req[p].upload \in Upload /\ TableTypeOK
          /\ req[p].spelled \in Spelling
      BY <1>1, NextIdTyped DEF AddFile, Uncut, RowInv, TypeInv, TypeOK, LocalsOK, Active, At
    <3>2. row.owner = req[p].upload.owner /\ row.size = req[p].upload.size
      BY DEF NewRow
    <3> QED BY <3>1, <3>2, NewRowTyped
  <2>3. /\ lock' = [lock EXCEPT ![req[p].alias] = p] /\ lock[req[p].alias] \in {None, p}
        /\ pend' = [pend EXCEPT ![req[p].alias] = row] /\ rows' = rows
        /\ rows[req[p].alias] = NoRow
    BY <1>1 DEF AddFile, AddFileTx, Unlocked
  <2> HIDE DEF g, row
  <2>4. HolderOK(p)'
    BY <1>0, <2>1, <2>2, <2>3, DomainAssumption DEF HolderOK, UploadSteps, RemovalSteps
  <2> QED BY <2>1, <2>3, <2>4, PendWritten
<1>2. CASE CreateFile(p)
  <2>1. UNCHANGED <<rows, pend, lock>> /\ At(p, "createFile")
    BY <1>2 DEF CreateFile, tableVars
  <2>2. CASE Return(p)
    <3>1. HolderOK(p)'
      BY <1>0, <2>2 DEF Return, HolderOK, InTx, TxSteps, UploadSteps, RemovalSteps
    <3> QED BY <2>1, <2>2, <3>1, PendKept DEF Return
  <2>3. CASE Goto(p, "copyFile")
    <3>1. HolderOK(p)'
      BY <1>0, <2>1, <2>3
         DEF Goto, At, Goroutine, RowInv, PendInv, HolderOK, InTx, TxSteps, UploadSteps, RemovalSteps
    <3> QED BY <2>1, <2>3, <3>1, PendKept DEF Goto
  <2> QED BY <1>2, <2>2, <2>3 DEF CreateFile
<1>3. CASE CopyFile(p)
  <2>1. UNCHANGED <<rows, pend, lock>> /\ At(p, "copyFile") /\ Goto(p, "commitUpload")
    BY <1>3 DEF CopyFile, tableVars
  <2>2. HolderOK(p)'
    BY <1>0, <2>1
       DEF Goto, At, Goroutine, RowInv, PendInv, HolderOK, InTx, TxSteps, UploadSteps, RemovalSteps
  <2> QED BY <2>1, <2>2, PendKept DEF Goto
<1> QED BY <1>1, <1>2, <1>3

(* The statements and calls of a download and of a deletion. *)
LEMMA PendRemoval ==
    ASSUME RowInv, NEW p \in Req,
           WriteCounter(p) \/ DeleteRow(p) \/ DeleteFolder(p)
    PROVE  PendInv'
<1>0. /\ req[p] \in Goroutine /\ req \in [Req -> Goroutine] /\ req[p].alias \in Alias
      /\ pend \in [Alias -> Row \union {NoRow}] /\ rows \in [Alias -> Row \union {NoRow}]
      /\ req[p].left \in Nat
  BY DEF RowInv, TypeInv, TypeOK, TableTypeOK, ServiceTypeOK, LocalsOK, Active, Goroutine,
         WriteCounter, DeleteRow, DeleteFolder, Uncut, At
<1> DEFINE a == req[p].alias
<1>1. CASE WriteCounter(p)
  <2> DEFINE row == IF rows[a] = NoRow THEN NoRow ELSE [rows[a] EXCEPT !.left = req[p].left]
  <2>1. /\ lock' = [lock EXCEPT ![a] = p] /\ lock[a] \in {None, p}
        /\ pend' = [pend EXCEPT ![a] = row] /\ rows' = rows
    BY <1>1 DEF WriteCounter, UpdateCounter, Unlocked
  <2>2. \/ Goto(p, "commitDownload") /\ req[p].left > 0
        \/ Goto(p, "deleteLastRow")
    BY <1>0, <1>1 DEF WriteCounter
  <2>3. /\ rows[a] = NoRow <=> row = NoRow
        /\ rows[a] # NoRow => /\ row.id = rows[a].id /\ row.owner = rows[a].owner
                           /\ row.size = rows[a].size /\ row.left = req[p].left
                           /\ row.spelled = rows[a].spelled
    BY <1>0, DomainAssumption DEF Row
  <2> HIDE DEF row
  <2>4. req'[p].alias = a
    BY <1>0, <2>2 DEF Goto, Goroutine
  <2>5. HolderOK(p)'
    BY <1>0, <2>1, <2>2, <2>3, <2>4 DEF Goto, Goroutine, HolderOK, UploadSteps, RemovalSteps
  <2>6. \E g : req' = [req EXCEPT ![p] = g]
    BY <2>2 DEF Goto
  <2> QED BY <2>1, <2>5, <2>6, PendWritten
<1>2. CASE DeleteRow(p)
  <2>1. /\ lock' = [lock EXCEPT ![a] = p] /\ lock[a] \in {None, p}
        /\ pend' = [pend EXCEPT ![a] = NoRow] /\ rows' = rows
    BY <1>2 DEF DeleteRow, DeleteFileTx
  <2>2. PICK step \in {"deleteFile", "deleteLastFile"} : Goto(p, step)
    BY <1>2 DEF DeleteRow
  <2>3. HolderOK(p)'
    BY <1>0, <2>1, <2>2 DEF Goto, Goroutine, HolderOK, UploadSteps, RemovalSteps
  <2> QED BY <2>1, <2>2, <2>3, PendWritten DEF Goto
<1>3. CASE DeleteFolder(p)
  <2>1. UNCHANGED <<rows, pend, lock>> /\ req[p].pc \in RemovalSteps
    BY <1>3 DEF DeleteFolder, tableVars, At, RemovalSteps
  <2>2. PICK step \in {"commitDelete", "commitLast"} : Goto(p, step)
    BY <1>3 DEF DeleteFolder
  <2>3. HolderOK(p)'
    BY <1>0, <2>1, <2>2
       DEF Goto, Goroutine, RowInv, PendInv, HolderOK, InTx, TxSteps, UploadSteps, RemovalSteps
  <2> QED BY <2>1, <2>2, <2>3, PendKept DEF Goto
<1> QED BY <1>1, <1>2, <1>3

(* The steps that begin outside of a transaction and stay there. *)
Outside(p) ==
    \/ RequestBegin(p) \/ AddFileTaken(p) \/ OpenFile(p) \/ OpenFileMisses(p)
    \/ ReadCounter(p) \/ ReadCounterMisses(p) \/ CutReturn(p)

LEMMA StaysOutside ==
    ASSUME TypeInv, NEW p \in Req, Outside(p)
    PROVE  /\ UNCHANGED <<tableVars, storeVars, served, born, mislaid>>
           /\ \E g : req' = [req EXCEPT ![p] = g] /\ g.pc \notin TxSteps
<1> USE DEF TxSteps, UploadSteps, RemovalSteps
<1>0. req[p] \in Goroutine /\ Idle \in Goroutine /\ Idle.pc = "idle"
  BY DEF TypeInv, TypeOK, ServiceTypeOK, Idle, Goroutine
<1>1. CASE UploadBegin(p) \/ DownloadBegin(p) \/ DeleteBegin(p)
  <2>1. PICK step, a, s, cmd :
           step \in {"addFile", "openFile", "deleteRow"} /\ Begin(p, step, a, s, cmd)
    BY <1>1 DEF UploadBegin, DownloadBegin, DeleteBegin
  <2> DEFINE g == [Idle EXCEPT !.pc = step, !.alias = a, !.spelled = s, !.upload = cmd]
  <2>2. req' = [req EXCEPT ![p] = g] /\ g.pc \notin TxSteps
    BY <2>1 DEF Begin, Idle
  <2> HIDE DEF g
  <2> QED BY <1>1, <2>2 DEF UploadBegin, DownloadBegin, DeleteBegin
<1>2. CASE OpenFile(p)
  <2>1. PICK f : req' = [req EXCEPT ![p].pc = "readCounter", ![p].file = f]
    BY <1>2 DEF OpenFile
  <2> DEFINE g == [req[p] EXCEPT !.pc = "readCounter", !.file = f]
  <2>2. req' = [req EXCEPT ![p] = g] /\ g.pc \notin TxSteps
    BY <1>0, <2>1 DEF Goroutine
  <2> HIDE DEF g
  <2> QED BY <1>2, <2>2 DEF OpenFile
<1>3. CASE ReadCounter(p)
  <2> DEFINE g == [req[p] EXCEPT !.pc = "writeCounter", !.left = rows[req[p].alias].left - 1]
  <2>2. req' = [req EXCEPT ![p] = g] /\ g.pc \notin TxSteps
    BY <1>0, <1>3 DEF ReadCounter, Goroutine
  <2> HIDE DEF g
  <2> QED BY <1>3, <2>2 DEF ReadCounter
<1>4. CASE AddFileTaken(p) \/ OpenFileMisses(p) \/ ReadCounterMisses(p) \/ CutReturn(p)
  <2>1. Return(p) /\ UNCHANGED <<tableVars, storeVars, served, born, mislaid>>
    BY <1>4 DEF AddFileTaken, OpenFileMisses, ReadCounterMisses, CutReturn
  <2> QED BY <1>0, <2>1 DEF Return
<1> QED BY <1>1, <1>2, <1>3, <1>4 DEF Outside, RequestBegin

(* The steps that end a transaction. *)
Ends(p) ==
    \/ CommitUpload(p) \/ CommitDownload(p) \/ CommitDelete(p) \/ DeleteRowMisses(p)
    \/ Disconnect(p) \/ DbError(p) \/ CommitLost(p) \/ StoreError(p)

LEMMA EndsTx ==
    ASSUME TypeInv, NEW p \in Req, Ends(p)
    PROVE  /\ \/ Rollback(p)
              \/ Commit(p) /\ \E step \in CommitSteps : Uncut(p, step)
           /\ \E g : req' = [req EXCEPT ![p] = g] /\ (g.cut \/ g.pc \notin TxSteps)
<1>0. req[p] \in Goroutine /\ Idle.pc = "idle"
  BY DEF TypeInv, TypeOK, ServiceTypeOK, Idle
<1>1. CASE Disconnect(p)
  <2> DEFINE g == [req[p] EXCEPT !.cut = TRUE]
  <2>1. req' = [req EXCEPT ![p] = g] /\ g.cut
    BY <1>0, <1>1 DEF Disconnect, Goroutine
  <2> HIDE DEF g
  <2> QED BY <1>1, <2>1 DEF Disconnect
<1>2. CASE ~Disconnect(p)
  <2>1. Return(p)
    BY <1>2 DEF Ends, CommitUpload, CommitDownload, CommitDelete, DeleteRowMisses, DbError,
                CommitLost, StoreError
  <2>2. \E g : req' = [req EXCEPT ![p] = g] /\ g.pc \notin TxSteps
    BY <1>0, <2>1 DEF Return, TxSteps, UploadSteps, RemovalSteps
  <2>3. \/ Rollback(p)
        \/ Commit(p) /\ \E step \in CommitSteps : Uncut(p, step)
    BY <1>2 DEF Ends, CommitUpload, CommitDownload, CommitDelete, DeleteRowMisses, DbError,
                CommitLost, StoreError, CommitSteps
  <2> QED BY <2>2, <2>3
<1> QED BY <1>1, <1>2

LEMMA PendRequest ==
    ASSUME RowInv, NEW p \in Req,
           \/ RequestBegin(p) \/ RequestStep(p)
           \/ Disconnect(p) \/ DbError(p) \/ CommitLost(p) \/ StoreError(p)
    PROVE  PendInv'
<1>1. CASE Outside(p)
  <2>1. UNCHANGED <<rows, pend, lock>>
    BY <1>1, StaysOutside DEF RowInv, tableVars
  <2>2. PICK g : req' = [req EXCEPT ![p] = g] /\ g.pc \notin TxSteps
    BY <1>1, StaysOutside DEF RowInv
  <2>3. HolderOK(p)'
    BY <2>2 DEF RowInv, TypeInv, TypeOK, ServiceTypeOK, HolderOK, InTx
  <2> QED BY <2>1, <2>2, <2>3, PendKept
<1>2. CASE Ends(p)
  BY <1>2, EndsTx, PendEnded DEF RowInv
<1> QED BY <1>1, <1>2, PendUpload, PendRemoval DEF RequestStep, Outside, Ends

LEMMA PendWorker ==
    ASSUME RowInv, UNCHANGED req, WorkerStep \/ RemoveExpiredFails \/ WorkerDbError
    PROVE  PendInv'
<1>0. /\ Worker \notin Req /\ Worker # None /\ None \notin Req
      /\ lock \in [Alias -> Actor \union {None}]
      /\ pend \in [Alias -> Row \union {NoRow}] /\ rows \in [Alias -> Row \union {NoRow}]
  BY DomainAssumption DEF Actor, RowInv, TypeInv, TypeOK, TableTypeOK
<1>1. \A q \in Req : InTx(q) => req[q].alias \in Alias /\ lock[req[q].alias] = q
  BY DEF RowInv, LockInv, TypeInv, LocalsOK, Active, InTx, TxSteps, UploadSteps, RemovalSteps
<1>2. ASSUME \A a \in Alias : lock[a] \notin {Worker, None} =>
                  pend'[a] = pend[a] /\ rows'[a] = rows[a]
      PROVE  \A q \in Req : HolderOK(q)'
  <2> SUFFICES ASSUME NEW q \in Req PROVE HolderOK(q)'
    OBVIOUS
  <2>1. HolderOK(q)
    BY DEF RowInv, PendInv
  <2>2. InTx(q) => /\ pend'[req[q].alias] = pend[req[q].alias]
                   /\ rows'[req[q].alias] = rows[req[q].alias]
    BY <1>0, <1>1, <1>2
  <2> QED BY <2>1, <2>2, HolderKept
<1>3. CASE CollectExpired
  <2>1. PICK batch \in SUBSET Alias :
           /\ \A a \in batch : lock[a] = None
           /\ lock' = [a \in Alias |-> IF a \in batch THEN Worker ELSE lock[a]]
           /\ pend' = [a \in Alias |-> IF a \in batch THEN NoRow ELSE pend[a]]
           /\ rows' = rows
    BY <1>3 DEF CollectExpired, Expired, DeleteExpiredFilesTx, Unlocked
  <2>2. \A q \in Req : HolderOK(q)'
    BY <1>2, <2>1
  <2>3. WorkerHolds'
    BY <2>1 DEF RowInv, PendInv, WorkerHolds
  <2> QED BY <2>1, <2>2, <2>3 DEF RowInv, PendInv, NoExhaustedRow
<1>4. CASE RemoveExpired
  BY <1>4 DEF RemoveExpired, tableVars, RowInv, PendInv, NoExhaustedRow, WorkerHolds, HolderOK, InTx
<1>5. CASE CommitExpired \/ RemoveExpiredFails \/ WorkerDbError
  <2>1. Release(Worker) /\ (rows' = rows \/ rows' = [a \in Alias |-> IF lock[a] = Worker THEN pend[a] ELSE rows[a]])
    BY <1>5 DEF CommitExpired, RemoveExpiredFails, WorkerDbError, Commit, Rollback
  <2>2. \A q \in Req : HolderOK(q)'
    BY <1>0, <1>2, <2>1 DEF Release
  <2>3. WorkerHolds' /\ NoExhaustedRow'
    BY <1>0, <2>1 DEF Release, RowInv, PendInv, WorkerHolds, NoExhaustedRow
  <2> QED BY <2>2, <2>3 DEF PendInv
<1> QED BY <1>3, <1>4, <1>5 DEF WorkerStep

LEMMA PendNext == RowInv /\ [Next]_vars => PendInv'
<1> SUFFICES ASSUME RowInv, [Next]_vars PROVE PendInv'
  OBVIOUS
<1>1. ASSUME NEW p \in Req, RequestNext(p) PROVE PendInv'
  BY <1>1, PendRequest DEF RequestNext
<1>2. ASSUME NEW p \in Req, RequestFault(p) PROVE PendInv'
  BY <1>2, PendRequest DEF RequestFault
<1>3. CASE WorkerNext \/ (WorkerFault /\ UNCHANGED serviceVars)
  BY <1>3, PendWorker DEF WorkerNext, WorkerFault, serviceVars
<1>4. CASE Fault("crash") /\ Crash
  BY <1>4, DomainAssumption
     DEF Crash, RollbackAll, Idle, RowInv, PendInv, NoExhaustedRow, WorkerHolds, HolderOK,
         InTx, TxSteps, UploadSteps, RemovalSteps, Actor
<1>5. CASE UNCHANGED <<rows, pend, lock, req>>
  BY <1>5 DEF RowInv, PendInv, NoExhaustedRow, WorkerHolds, HolderOK, InTx
<1> QED BY <1>1, <1>2, <1>3, <1>4, <1>5
        DEF Next, Rest, ClockNext, Tick, vars, tableVars, serviceVars

(* RowInv in every reachable state. *)
LEMMA RowsHeld == Spec => []RowInv
<1>1. Init => RowInv
  BY InitTyped, LockInit, PendInit DEF RowInv
<1>2. RowInv /\ [Next]_vars => RowInv'
  BY NextTyped, LockNext, PendNext DEF RowInv
<1> QED BY <1>1, <1>2, PTL DEF Spec

(* A row that can be found always offers a download. *)
THEOREM NeverExhausted == Spec => []NoExhaustedRow
<1>1. RowInv => NoExhaustedRow
  BY DEF RowInv, PendInv
<1> QED BY <1>1, RowsHeld, PTL

(***************************************************************************)
(* The quota.  A user's committed rows and the uploads on their way grow   *)
(* together only where the quota is checked, and there the rows alone are  *)
(* below the cap; a commit moves one upload from the one count to the      *)
(* other, and everything else only lets go.                                *)
(***************************************************************************)
WaySteps == {"addFile"} \union UploadSteps

OnWay(p) == req[p].pc \in WaySteps /\ ~req[p].cut

WithinQuota(u) ==
    Cardinality(FilesOf(u)) + Cardinality(OnTheirWay(u))
        <= MaxUploadedFiles - 1 + Cardinality(Req)

LEMMA OnTheirWayIs ==
    ASSUME NEW u
    PROVE  /\ OnTheirWay(u) = {p \in Req : OnWay(p) /\ req[p].upload.owner = u}
           /\ OnTheirWay(u)' = {p \in Req : OnWay(p)' /\ req'[p].upload.owner = u}
BY DEF OnTheirWay, OnWay, WaySteps, UploadSteps

(* Both counts are of finite sets. *)
LEMMA Counts ==
    ASSUME NEW u
    PROVE  /\ IsFiniteSet(FilesOf(u)) /\ Cardinality(FilesOf(u)) \in Nat
           /\ IsFiniteSet(OnTheirWay(u)) /\ Cardinality(OnTheirWay(u)) \in Nat
           /\ Cardinality(OnTheirWay(u)) <= Cardinality(Req) /\ Cardinality(Req) \in Nat
<1>1. FilesOf(u) \subseteq Alias /\ OnTheirWay(u) \subseteq Req
  BY DEF FilesOf, OnTheirWay
<1> QED BY <1>1, DomainAssumption, FS_Subset, FS_CardinalityType

LEMMA QuotaShrinks ==
    ASSUME NEW u, WithinQuota(u),
           FilesOf(u)' \subseteq FilesOf(u), OnTheirWay(u)' \subseteq OnTheirWay(u)
    PROVE  WithinQuota(u)'
<1> DEFINE F == FilesOf(u)
           G == FilesOf(u)'
           W == OnTheirWay(u)
           V == OnTheirWay(u)'
<1>1. IsFiniteSet(F) /\ IsFiniteSet(W) /\ Cardinality(F) \in Nat /\ Cardinality(W) \in Nat
      /\ Cardinality(Req) \in Nat
  BY Counts
<1>2. G \subseteq F /\ V \subseteq W
  OBVIOUS
<1>3. Cardinality(F) + Cardinality(W) <= MaxUploadedFiles - 1 + Cardinality(Req)
  BY DEF WithinQuota
<1> HIDE DEF F, G, W, V
<1>4. /\ Cardinality(G) <= Cardinality(F) /\ Cardinality(G) \in Nat
      /\ Cardinality(V) <= Cardinality(W) /\ Cardinality(V) \in Nat
  BY <1>1, <1>2, FS_Subset, FS_CardinalityType
<1>5. Cardinality(G) + Cardinality(V) <= MaxUploadedFiles - 1 + Cardinality(Req)
  BY <1>1, <1>3, <1>4, QuotaAssumption
<1> QED BY <1>5 DEF WithinQuota, G, V

(* A step that adds no row and sends no upload on its way. *)
OnlyLetsGo ==
    /\ \A a \in Alias : rows'[a] # NoRow =>
          rows[a] # NoRow /\ rows'[a].owner = rows[a].owner /\ rows'[a].size = rows[a].size
    /\ \A q \in Req : OnWay(q)' => OnWay(q) /\ req'[q].upload = req[q].upload

LEMMA Shrinks ==
    ASSUME NEW u, OnlyLetsGo
    PROVE  FilesOf(u)' \subseteq FilesOf(u) /\ OnTheirWay(u)' \subseteq OnTheirWay(u)
<1>1. FilesOf(u)' \subseteq FilesOf(u)
  BY DEF FilesOf, OnlyLetsGo
<1>2. OnTheirWay(u)' \subseteq OnTheirWay(u)
  BY OnTheirWayIs DEF OnWay, OnlyLetsGo
<1> QED BY <1>1, <1>2

(* An upload is admitted. *)
LEMMA QuotaAdmits ==
    ASSUME RowInv, NEW p \in Req, UploadBegin(p),
           NEW u \in User, ~Unlimited(u), WithinQuota(u)
    PROVE  WithinQuota(u)'
<1>1. PICK cmd \in Upload, a \in Alias, s \in Spelling :
           /\ CheckUploadQuote(FilesStat(cmd.owner), cmd.size, RolesOf[cmd.owner]) = "ok"
           /\ Begin(p, "addFile", a, s, cmd)
           /\ rows' = rows
  BY DEF UploadBegin, tableVars
<1>2. req \in [Req -> Goroutine]
  BY DEF RowInv, TypeInv, TypeOK, ServiceTypeOK
<1>3. /\ req'[p].upload = cmd
      /\ \A q \in Req \ {p} : req'[q] = req[q]
  BY <1>1, <1>2 DEF Begin, Idle
<1>4. FilesOf(u)' = FilesOf(u)
  BY <1>1 DEF FilesOf
<1>5. CASE cmd.owner = u
  <2>1. ~(FilesStat(u).count >= MaxUploadedFiles)
    BY <1>1, <1>5 DEF CheckUploadQuote, Unlimited
  <2>2. Cardinality(FilesOf(u)) <= MaxUploadedFiles - 1
    BY <2>1, Counts, QuotaAssumption DEF FilesStat
  <2>3. /\ Cardinality(OnTheirWay(u)') <= Cardinality(Req)
        /\ Cardinality(OnTheirWay(u)') \in Nat
    <3>1. OnTheirWay(u)' \subseteq Req
      BY DEF OnTheirWay
    <3> QED BY <3>1, DomainAssumption, FS_Subset, FS_CardinalityType
  <2>4. Cardinality(FilesOf(u)) + Cardinality(OnTheirWay(u)')
            <= MaxUploadedFiles - 1 + Cardinality(Req)
    BY <2>2, <2>3, Counts, QuotaAssumption
  <2> QED BY <1>4, <2>4 DEF WithinQuota
<1>6. CASE cmd.owner # u
  <2>1. OnTheirWay(u)' \subseteq OnTheirWay(u)
    BY <1>3, <1>6, OnTheirWayIs DEF OnWay
  <2> QED BY <1>4, <2>1, QuotaShrinks
<1> QED BY <1>5, <1>6

(* The commit of an upload takes its request off the way and adds its row. *)
Commits(p) == Uncut(p, "commitUpload") /\ Commit(p) /\ Return(p)

LEMMA CommitAdds ==
    ASSUME RowInv, NEW p \in Req, Commits(p), NEW u
    PROVE  LET a == req[p].alias
           IN  /\ a \in Alias /\ rows[a] = NoRow /\ rows'[a] # NoRow
               /\ rows'[a].size = req[p].upload.size
               /\ \A b \in Alias \ {a} : rows'[b] = rows[b]
               /\ req'[p].pc = "idle" /\ \A q \in Req \ {p} : req'[q] = req[q]
               /\ IF req[p].upload.owner = u
                  THEN /\ FilesOf(u)' = FilesOf(u) \union {a} /\ a \notin FilesOf(u)
                       /\ OnTheirWay(u)' = OnTheirWay(u) \ {p} /\ p \in OnTheirWay(u)
                  ELSE /\ FilesOf(u)' \subseteq FilesOf(u)
                       /\ OnTheirWay(u)' \subseteq OnTheirWay(u)
<1> DEFINE a == req[p].alias
<1>1. req \in [Req -> Goroutine] /\ a \in Alias /\ InTx(p)
  BY DEF Commits, RowInv, TypeInv, TypeOK, ServiceTypeOK, LocalsOK, Active, Uncut, At, InTx,
         TxSteps, UploadSteps
<1>2. /\ rows'[a] = pend[a] /\ \A b \in Alias \ {a} : rows'[b] = rows[b]
  BY <1>1 DEF Commits, Commit, RowInv, LockInv
<1>3. /\ rows[a] = NoRow /\ pend[a] # NoRow /\ pend[a].owner = req[p].upload.owner
      /\ pend[a].size = req[p].upload.size
  BY <1>1 DEF Commits, RowInv, PendInv, HolderOK, Uncut, At, UploadSteps
<1>4. req'[p].pc = "idle" /\ \A q \in Req \ {p} : req'[q] = req[q]
  BY <1>1 DEF Commits, Return, Idle
<1>5. OnWay(p) /\ ~OnWay(p)'
  BY <1>4 DEF Commits, OnWay, WaySteps, UploadSteps, Uncut, At
<1>6. CASE req[p].upload.owner # u
  <2>1. FilesOf(u)' \subseteq FilesOf(u)
    BY <1>2, <1>3, <1>6 DEF FilesOf
  <2>2. OnTheirWay(u)' \subseteq OnTheirWay(u)
    BY <1>4, <1>5, OnTheirWayIs DEF OnWay
  <2> QED BY <1>1, <1>2, <1>3, <1>4, <1>6, <2>1, <2>2
<1>7. CASE req[p].upload.owner = u
  <2>1. FilesOf(u)' = FilesOf(u) \union {a} /\ a \notin FilesOf(u)
    BY <1>1, <1>2, <1>3, <1>7 DEF FilesOf
  <2>2. OnTheirWay(u)' = OnTheirWay(u) \ {p} /\ p \in OnTheirWay(u)
    BY <1>4, <1>5, <1>7, OnTheirWayIs DEF OnWay
  <2> QED BY <1>1, <1>2, <1>3, <1>4, <1>7, <2>1, <2>2
<1> QED BY <1>6, <1>7

(* Any other commit, or the end of a transaction without one. *)
LEMMA EndsLetGo == ASSUME RowInv, NEW p \in Req, Ends(p) PROVE OnlyLetsGo \/ Commits(p)
<1>1. PICK g : req' = [req EXCEPT ![p] = g] /\ (g.cut \/ g.pc \notin TxSteps)
  BY EndsTx DEF RowInv
<1>2. req \in [Req -> Goroutine] /\ Idle.pc = "idle"
  BY DEF RowInv, TypeInv, TypeOK, ServiceTypeOK, Idle
<1>3. ~OnWay(p)' /\ \A q \in Req \ {p} : req'[q] = req[q]
  <2>1. Disconnect(p) \/ Return(p)
    BY DEF Ends, CommitUpload, CommitDownload, CommitDelete, DeleteRowMisses, DbError,
           CommitLost, StoreError
  <2>2. Disconnect(p) => req'[p].cut
    BY <1>2 DEF Disconnect, Goroutine
  <2>3. Return(p) => req'[p].pc = "idle"
    BY <1>2 DEF Return
  <2> QED BY <1>1, <1>2, <2>1, <2>2, <2>3 DEF OnWay, WaySteps, UploadSteps
<1>4. \A q \in Req : OnWay(q)' => OnWay(q) /\ req'[q].upload = req[q].upload
  BY <1>3 DEF OnWay
<1>5. CASE Rollback(p)
  BY <1>4, <1>5 DEF Rollback, OnlyLetsGo
<1>6. CASE Commit(p) /\ Uncut(p, "commitUpload") /\ ~Rollback(p)
  <2>1. Return(p)
    BY <1>6 DEF Ends, Uncut, At, CommitUpload, CommitDownload, CommitDelete, DeleteRowMisses, DbError,
                CommitLost, StoreError, Disconnect
  <2> QED BY <1>6, <2>1 DEF Commits
<1>7. CASE Commit(p) /\ \E step \in CommitSteps \ {"commitUpload"} : Uncut(p, step)
  <2>1. InTx(p) /\ req[p].pc \in RemovalSteps \union {"commitDownload"}
    BY <1>7 DEF CommitSteps, Uncut, At, InTx, TxSteps, RemovalSteps
  <2>2. \A a \in Alias : lock[a] = p => a = req[p].alias
    BY DEF RowInv, LockInv
  <2>3. \A a \in Alias : rows'[a] # NoRow =>
            rows[a] # NoRow /\ rows'[a].owner = rows[a].owner /\ rows'[a].size = rows[a].size
    BY <1>7, <2>1, <2>2 DEF Commit, RowInv, PendInv, HolderOK
  <2> QED BY <1>4, <2>3 DEF OnlyLetsGo
<1> QED BY <1>5, <1>6, <1>7, EndsTx DEF RowInv

(* What a step of a request does to the rows and the uploads on their way. *)
LEMMA RequestMoves ==
    ASSUME RowInv, NEW p \in Req, RequestNext(p) \/ RequestFault(p)
    PROVE  UploadBegin(p) \/ Commits(p) \/ OnlyLetsGo
<1>0. req \in [Req -> Goroutine] /\ req[p] \in Goroutine /\ Idle.pc = "idle"
  BY DEF RowInv, TypeInv, TypeOK, ServiceTypeOK, Idle
<1>1. CASE UploadBegin(p)
  BY <1>1
<1>2. CASE Outside(p) /\ ~UploadBegin(p)
  <2>1. rows' = rows /\ \E g : req' = [req EXCEPT ![p] = g] /\ g.pc \notin TxSteps
    BY <1>2, StaysOutside DEF RowInv, tableVars
  <2>2. req'[p].pc \notin WaySteps
    <3>1. req'[p].pc # "addFile"
      <4>1. CASE DownloadBegin(p) \/ DeleteBegin(p)
        BY <1>0, <4>1 DEF DownloadBegin, DeleteBegin, Begin, Idle
      <4>2. CASE AddFileTaken(p) \/ OpenFileMisses(p) \/ ReadCounterMisses(p) \/ CutReturn(p)
        BY <1>0, <4>2 DEF AddFileTaken, OpenFileMisses, ReadCounterMisses, CutReturn, Return
      <4>3. CASE OpenFile(p) \/ ReadCounter(p)
        BY <1>0, <4>3 DEF OpenFile, ReadCounter, Goroutine
      <4> QED BY <1>2, <4>1, <4>2, <4>3 DEF Outside, RequestBegin
    <3> QED BY <1>0, <2>1, <3>1 DEF WaySteps, TxSteps
  <2>3. \A q \in Req : OnWay(q)' => OnWay(q) /\ req'[q].upload = req[q].upload
    BY <1>0, <2>1, <2>2 DEF OnWay
  <2> QED BY <2>1, <2>3 DEF OnlyLetsGo
<1>3. CASE Ends(p)
  BY <1>3, EndsLetGo
<1>4. CASE \/ AddFile(p) \/ CreateFile(p) \/ CopyFile(p)
           \/ WriteCounter(p) \/ DeleteRow(p) \/ DeleteFolder(p)
  <2>1. rows' = rows
    BY <1>4 DEF AddFile, AddFileTx, CreateFile, CopyFile, WriteCounter, UpdateCounter,
                DeleteRow, DeleteFileTx, DeleteFolder, tableVars
  <2>2. \A q \in Req \ {p} : req'[q] = req[q]
    BY <1>0, <1>4 DEF AddFile, CreateFile, CopyFile, WriteCounter, DeleteRow, DeleteFolder,
                      Goto, Return
  <2>3. OnWay(p)' => OnWay(p) /\ req'[p].upload = req[p].upload
    <3>1. CASE AddFile(p)
      BY <1>0, <3>1 DEF AddFile, Uncut, At, OnWay, WaySteps, Goroutine
    <3>2. CASE CreateFile(p) \/ CopyFile(p)
      BY <1>0, <3>2 DEF CreateFile, CopyFile, Goto, Return, At, OnWay, WaySteps, UploadSteps,
                        Goroutine
    <3>3. CASE WriteCounter(p) \/ DeleteRow(p) \/ DeleteFolder(p)
      BY <1>0, <3>3 DEF WriteCounter, DeleteRow, DeleteFolder, Goto, OnWay, WaySteps,
                        UploadSteps, Goroutine
    <3> QED BY <1>4, <3>1, <3>2, <3>3
  <2>4. \A q \in Req : OnWay(q)' => OnWay(q) /\ req'[q].upload = req[q].upload
    BY <2>2, <2>3 DEF OnWay
  <2> QED BY <2>1, <2>4 DEF OnlyLetsGo
<1> QED BY <1>1, <1>2, <1>3, <1>4
        DEF RequestNext, RequestFault, RequestStep, Outside, Ends

LEMMA StepMoves ==
    ASSUME RowInv, [Next]_vars
    PROVE  (\E p \in Req : UploadBegin(p) \/ Commits(p)) \/ OnlyLetsGo
<1>1. ASSUME NEW p \in Req, RequestNext(p) \/ RequestFault(p)
      PROVE  (\E q \in Req : UploadBegin(q) \/ Commits(q)) \/ OnlyLetsGo
  BY <1>1, RequestMoves
<1>2. CASE WorkerNext \/ (WorkerFault /\ UNCHANGED serviceVars)
  <2>1. req' = req
    BY <1>2 DEF WorkerNext, serviceVars
  <2>2. \A a \in Alias : rows'[a] = rows[a] \/ rows'[a] = NoRow
    BY <1>2 DEF WorkerNext, WorkerStep, CollectExpired, DeleteExpiredFilesTx, RemoveExpired,
                CommitExpired, WorkerFault, RemoveExpiredFails, WorkerDbError, Commit, Rollback,
                tableVars, RowInv, PendInv, WorkerHolds
  <2> QED BY <2>1, <2>2 DEF OnWay, OnlyLetsGo
<1>3. CASE Fault("crash") /\ Crash
  BY <1>3 DEF Crash, RollbackAll, Idle, OnWay, WaySteps, UploadSteps, OnlyLetsGo
<1>4. CASE UNCHANGED <<rows, req>>
  BY <1>4 DEF OnWay, OnlyLetsGo
<1> QED BY <1>1, <1>2, <1>3, <1>4
        DEF Next, Rest, ClockNext, Tick, vars, tableVars, serviceVars

LEMMA QuotaCommits ==
    ASSUME RowInv, NEW p \in Req, Commits(p), NEW u, WithinQuota(u)
    PROVE  WithinQuota(u)'
<1> DEFINE a == req[p].alias
<1>1. CASE req[p].upload.owner # u
  BY <1>1, CommitAdds, QuotaShrinks
<1>2. CASE req[p].upload.owner = u
  <2>1. FilesOf(u)' = FilesOf(u) \union {a} /\ a \notin FilesOf(u)
    BY <1>2, CommitAdds
  <2>2. OnTheirWay(u)' = OnTheirWay(u) \ {p} /\ p \in OnTheirWay(u)
    BY <1>2, CommitAdds
  <2>3. Cardinality(FilesOf(u)') = Cardinality(FilesOf(u)) + 1
    BY <2>1, Counts, FS_AddElement
  <2>4. Cardinality(OnTheirWay(u)') = Cardinality(OnTheirWay(u)) - 1
    BY <2>2, Counts, FS_RemoveElement
  <2>5. Cardinality(FilesOf(u)') + Cardinality(OnTheirWay(u)')
            = Cardinality(FilesOf(u)) + Cardinality(OnTheirWay(u))
    BY <2>3, <2>4, Counts
  <2> QED BY <2>5 DEF WithinQuota
<1> QED BY <1>1, <1>2

LEMMA QuotaNext == RowInv /\ QuotaOvershoot /\ [Next]_vars => QuotaOvershoot'
<1> SUFFICES ASSUME RowInv, [Next]_vars, MaxUploadedFiles > 0,
                    NEW u \in User, ~Unlimited(u), WithinQuota(u)
             PROVE  WithinQuota(u)'
  BY DEF QuotaOvershoot, WithinQuota, Unlimited
<1> QED BY StepMoves, QuotaAdmits, QuotaCommits, Shrinks, QuotaShrinks

(* No schedule of uploads and no failure lets a user overshoot the quota   *)
(* by more than the uploads that were checked at the same time.            *)
THEOREM QuotaBounded == Spec => []QuotaOvershoot
<1>1. Init => QuotaOvershoot
  <2> SUFFICES ASSUME Init, MaxUploadedFiles > 0, NEW u \in User
               PROVE  Cardinality(FilesOf(u)) + Cardinality(OnTheirWay(u))
                          <= MaxUploadedFiles - 1 + Cardinality(Req)
    BY DEF QuotaOvershoot
  <2>1. FilesOf(u) = {} /\ OnTheirWay(u) = {}
    BY DEF Init, TableInit, ServiceInit, Idle, FilesOf, OnTheirWay
  <2>2. Cardinality({}) = 0 /\ Cardinality(Req) \in Nat
    BY FS_EmptySet, Counts
  <2> QED BY <2>1, <2>2, QuotaAssumption
<1>2. RowInv /\ QuotaOvershoot /\ [Next]_vars => QuotaOvershoot'
  BY QuotaNext
<1> QED BY <1>1, <1>2, RowsHeld, PTL DEF Spec

(***************************************************************************)
(* Sums over finite sets.  MapThenSumSet adds up its set one element at a  *)
(* time, in the order in which CHOOSE takes them; the sum exists, does not *)
(* depend on that order, and grows with the set.                           *)
(***************************************************************************)
Any(s) == CHOOSE x \in s : TRUE

Adds(w, total, s) == IF s = {} THEN 0 ELSE w[Any(s)] + total[s \ {Any(s)}]

SumsUp(w, D, total) == \A s \in SUBSET D : total[s] = Adds(w, total, s)

LEMMA Lesser ==
    ASSUME NEW D, IsFiniteSet(D), NEW s \in SUBSET D, NEW x \in s
    PROVE  /\ IsFiniteSet(s) /\ s \ {x} \in SUBSET D /\ Cardinality(s) \in Nat \ {0}
           /\ Cardinality(s \ {x}) = Cardinality(s) - 1
<1>1. IsFiniteSet(s)
  BY FS_Subset
<1> QED BY <1>1, FS_RemoveElement, FS_EmptySet, FS_CardinalityType

LEMMA AnyIn == ASSUME NEW s, s # {} PROVE Any(s) \in s
BY DEF Any

LEMMA Sizes0 ==
    ASSUME NEW D, IsFiniteSet(D)
    PROVE  \A s \in SUBSET D : /\ IsFiniteSet(s) /\ Cardinality(s) \in Nat
                               /\ Cardinality(s) <= Cardinality(D)
                               /\ Cardinality(s) = 0 <=> s = {}
BY FS_Subset, FS_CardinalityType, FS_EmptySet

(* Of the subsets with a property there is a smallest one. *)
LEMMA SmallestSet ==
    ASSUME NEW D, IsFiniteSet(D), NEW B, B \subseteq SUBSET D, B # {}
    PROVE  \E s \in B : \A r \in B : Cardinality(s) <= Cardinality(r)
<1> DEFINE N == {Cardinality(s) : s \in B}
<1>1. N \subseteq Nat /\ N # {}
  BY Sizes0
<1> HIDE DEF N
<1>2. PICK n \in N : \A m \in N : <<m, n>> \notin OpToRel(<, Nat)
  BY <1>1, WFMin, NatLessThanWellFounded
<1>3. \A m \in N : ~(m < n)
  BY <1>1, <1>2 DEF OpToRel
<1>4. \A m \in N : n <= m
  BY <1>1, <1>3
<1> QED BY <1>4 DEF N

LEMMA SumExists ==
    ASSUME NEW D, IsFiniteSet(D), NEW w \in [D -> Nat]
    PROVE  \E total \in [SUBSET D -> Nat] : SumsUp(w, D, total)
<1> DEFINE Upto(n) == \E g \in [SUBSET D -> Nat] :
               \A s \in SUBSET D : Cardinality(s) <= n => g[s] = Adds(w, g, s)
           B == {s \in SUBSET D : ~Upto(Cardinality(s))}
<1>1. B = {}
  <2>1. SUFFICES ASSUME B # {} PROVE FALSE
    OBVIOUS
  <2>2. B \subseteq SUBSET D
    OBVIOUS
  <2>3. PICK t \in B : \A r \in B : Cardinality(t) <= Cardinality(r)
    <3> HIDE DEF B
    <3> QED BY <2>1, <2>2, SmallestSet
  <2>4. CASE t = {}
    <3> DEFINE g == [s \in SUBSET D |-> 0]
    <3>1. \A s \in SUBSET D : Cardinality(s) <= Cardinality(t) => s = {}
      BY <2>4, Sizes0
    <3>2. \A s \in SUBSET D : Cardinality(s) <= Cardinality(t) => g[s] = Adds(w, g, s)
      BY <3>1 DEF Adds
    <3>3. g \in [SUBSET D -> Nat]
      OBVIOUS
    <3> QED BY <3>2, <3>3
  <2>5. CASE t # {}
    <3>0. PICK n : n = Cardinality(t)
      OBVIOUS
    <3>1. n \in Nat \ {0} /\ Upto(n - 1)
      <4> DEFINE r == t \ {Any(t)}
      <4>1. r \in SUBSET D /\ Cardinality(r) = n - 1 /\ n \in Nat \ {0}
        BY <2>5, <3>0, AnyIn, Lesser
      <4> HIDE DEF r, Upto
      <4>2. r \notin B
        BY <2>3, <3>0, <4>1
      <4> QED BY <4>1, <4>2
    <3>2. PICK g \in [SUBSET D -> Nat] :
             \A s \in SUBSET D : Cardinality(s) <= n - 1 => g[s] = Adds(w, g, s)
      BY <3>1
    <3> DEFINE h == [s \in SUBSET D |-> Adds(w, g, s)]
    <3>3. ASSUME NEW s \in SUBSET D PROVE Adds(w, g, s) \in Nat
      <4>1. CASE s # {}
        <5>1. Any(s) \in D /\ s \ {Any(s)} \in SUBSET D
          BY <4>1, AnyIn
        <5>2. w[Any(s)] \in Nat /\ g[s \ {Any(s)}] \in Nat
          BY <5>1
        <5> QED BY <4>1, <5>2 DEF Adds
      <4> QED BY <4>1 DEF Adds
    <3>4. h \in [SUBSET D -> Nat]
      BY <3>3
    <3>5. ASSUME NEW s \in SUBSET D, Cardinality(s) <= n PROVE h[s] = Adds(w, h, s)
      <4>1. CASE s = {}
        BY <4>1 DEF Adds
      <4>2. CASE s # {}
        <5> DEFINE rest == s \ {Any(s)}
        <5>1. rest \in SUBSET D /\ Cardinality(rest) = Cardinality(s) - 1
              /\ Cardinality(s) \in Nat
          <6>1. Any(s) \in s
            BY <4>2, AnyIn
          <6> QED BY <6>1, Lesser
        <5>2. Cardinality(rest) <= n - 1
          BY <3>1, <3>5, <5>1
        <5>3. h[rest] = g[rest]
          BY <3>2, <5>1, <5>2
        <5> QED BY <4>2, <5>3 DEF Adds
      <4> QED BY <4>1, <4>2
    <3> QED BY <3>0, <3>4, <3>5
  <2> QED BY <2>4, <2>5
<1>2. D \notin B
  BY <1>1
<1>3. PICK g \in [SUBSET D -> Nat] :
         \A s \in SUBSET D : Cardinality(s) <= Cardinality(D) => g[s] = Adds(w, g, s)
  BY <1>2
<1> QED BY <1>3, Sizes0 DEF SumsUp

(* Two sums of the same elements are equal. *)
LEMMA SumAgrees ==
    ASSUME NEW D, IsFiniteSet(D), NEW w, NEW v, NEW s, NEW t, NEW E, E \subseteq D,
           SumsUp(w, D, s), SumsUp(v, E, t), \A x \in E : w[x] = v[x]
    PROVE  \A r \in SUBSET E : s[r] = t[r]
<1> DEFINE B == {r \in SUBSET E : s[r] # t[r]}
<1>1. SUFFICES ASSUME B # {} PROVE FALSE
  OBVIOUS
<1>2. B \subseteq SUBSET D
  OBVIOUS
<1>3. PICK r \in B : \A q \in B : Cardinality(r) <= Cardinality(q)
  <2> HIDE DEF B
  <2> QED BY <1>1, <1>2, SmallestSet
<1>4. s[r] = Adds(w, s, r) /\ t[r] = Adds(v, t, r)
  BY DEF SumsUp
<1>5. CASE r = {}
  BY <1>4, <1>5 DEF Adds
<1>6. CASE r # {}
  <2> DEFINE q == r \ {Any(r)}
  <2>1. Any(r) \in E /\ q \in SUBSET E
    BY <1>6, AnyIn
  <2>2. Cardinality(q) = Cardinality(r) - 1 /\ Cardinality(r) \in Nat
    BY <1>6, AnyIn, Lesser
  <2>3. q \notin B
    <3> HIDE DEF B, q
    <3> QED BY <1>3, <2>2
  <2>4. s[q] = t[q]
    BY <2>1, <2>3
  <2> QED BY <1>4, <1>6, <2>1, <2>4 DEF Adds
<1> QED BY <1>5, <1>6

(* An element may be taken out first, whatever CHOOSE does. *)
AnyOrder(w, D, t) == \A r \in SUBSET D : \A x \in r : t[r] = w[x] + t[r \ {x}]

LEMMA SumRemoves ==
    ASSUME NEW D, IsFiniteSet(D), NEW w \in [D -> Nat], NEW t \in [SUBSET D -> Nat],
           SumsUp(w, D, t)
    PROVE  AnyOrder(w, D, t)
<1> DEFINE B == {r \in SUBSET D : \E x \in r : t[r] # w[x] + t[r \ {x}]}
<1>1. SUFFICES ASSUME B # {} PROVE FALSE
  BY DEF AnyOrder
<1>2. B \subseteq SUBSET D
  OBVIOUS
<1>3. PICK r \in B : \A q \in B : Cardinality(r) <= Cardinality(q)
  <2> HIDE DEF B
  <2> QED BY <1>1, <1>2, SmallestSet
<1>4. PICK x \in r : t[r] # w[x] + t[r \ {x}]
  OBVIOUS
<1>5. PICK y \in r : y = Any(r)
  BY AnyIn
<1>6. t[r] = w[y] + t[r \ {y}]
  BY <1>5 DEF SumsUp, Adds
<1>7. CASE x # y
  <2>1. /\ r \in SUBSET D /\ Cardinality(r \ {x}) = Cardinality(r) - 1
        /\ Cardinality(r \ {y}) = Cardinality(r) - 1 /\ Cardinality(r) \in Nat
    BY Lesser
  <2>2. r \ {x} \notin B /\ r \ {y} \notin B
    <3> HIDE DEF B
    <3> QED BY <1>3, <2>1
  <2>3. r \ {x} \in SUBSET D /\ r \ {y} \in SUBSET D /\ y \in r \ {x} /\ x \in r \ {y}
    BY <1>7
  <2>4. t[r \ {x}] = w[y] + t[(r \ {x}) \ {y}] /\ t[r \ {y}] = w[x] + t[(r \ {y}) \ {x}]
    BY <2>2, <2>3
  <2>5. (r \ {x}) \ {y} = (r \ {y}) \ {x} /\ (r \ {x}) \ {y} \in SUBSET D
    OBVIOUS
  <2>6. w[x] \in Nat /\ w[y] \in Nat /\ t[(r \ {x}) \ {y}] \in Nat
    BY <2>5
  <2>7. t[(r \ {x}) \ {y}] = t[(r \ {y}) \ {x}]
    BY <2>5
  <2>8. t[r] = w[x] + t[r \ {x}]
    BY <1>6, <2>4, <2>6, <2>7
  <2> QED BY <1>4, <2>8
<1> QED BY <1>4, <1>6, <1>7

LEMMA SumGrows ==
    ASSUME NEW D, IsFiniteSet(D), NEW w \in [D -> Nat], NEW t \in [SUBSET D -> Nat],
           SumsUp(w, D, t), NEW q \in SUBSET D, NEW r \in SUBSET D, r \subseteq q
    PROVE  t[r] <= t[q]
<1>0. AnyOrder(w, D, t)
  BY SumRemoves
<1> DEFINE B == {p \in SUBSET D : r \subseteq p /\ ~(t[r] <= t[p])}
<1>1. SUFFICES ASSUME B # {} PROVE FALSE
  OBVIOUS
<1>2. B \subseteq SUBSET D
  OBVIOUS
<1>3. PICK p \in B : \A o \in B : Cardinality(p) <= Cardinality(o)
  <2> HIDE DEF B
  <2> QED BY <1>1, <1>2, SmallestSet
<1>4. p \in SUBSET D /\ r \in SUBSET p /\ t[r] \in Nat /\ ~(t[r] <= t[p])
  OBVIOUS
<1>5. PICK x \in p : x \notin r
  <2>1. p # r
    BY <1>4
  <2> QED BY <1>4, <2>1
<1>6. ~(Cardinality(p) <= Cardinality(p \ {x}))
  <2>1. Cardinality(p \ {x}) = Cardinality(p) - 1 /\ Cardinality(p) \in Nat
    BY Lesser
  <2> QED BY <2>1
<1>7. p \ {x} \notin B
  <2> HIDE DEF B
  <2> QED BY <1>3, <1>6
<1>8. t[r] <= t[p \ {x}]
  BY <1>5, <1>7
<1>9. t[p] = w[x] + t[p \ {x}]
  BY <1>0, <1>4 DEF AnyOrder
<1>10. t[p] \in Nat /\ w[x] \in Nat /\ t[p \ {x}] \in Nat
  <2>1. x \in D /\ p \ {x} \in SUBSET D
    BY <1>4
  <2> QED BY <1>4, <2>1
<1> HIDE DEF B
<1>11. t[r] <= t[p]
  BY <1>4, <1>8, <1>9, <1>10
<1> QED BY <1>4, <1>11

LEMMA SumBounded ==
    ASSUME NEW D, IsFiniteSet(D), NEW w \in [D -> Nat], NEW t \in [SUBSET D -> Nat],
           SumsUp(w, D, t), NEW m \in Nat, NEW r \in SUBSET D, \A x \in r : w[x] <= m
    PROVE  t[r] <= m * Cardinality(r)
<1>0. AnyOrder(w, D, t)
  BY SumRemoves
<1> DEFINE B == {p \in SUBSET r : ~(t[p] <= m * Cardinality(p))}
<1>1. SUFFICES ASSUME B # {} PROVE FALSE
  OBVIOUS
<1>2. B \subseteq SUBSET D
  OBVIOUS
<1>3. PICK p \in B : \A q \in B : Cardinality(p) <= Cardinality(q)
  <2> HIDE DEF B
  <2> QED BY <1>1, <1>2, SmallestSet
<1>4. CASE p = {}
  <2>1. t[p] = 0 /\ Cardinality(p) = 0
    BY <1>4, FS_EmptySet DEF SumsUp, Adds
  <2> QED BY <2>1
<1>5. CASE p # {}
  <2>1. PICK x \in p : TRUE
    BY <1>5
  <2>2. PICK n \in Nat : n = Cardinality(p \ {x}) /\ Cardinality(p) = n + 1
    <3>1. Cardinality(p) \in Nat \ {0} /\ Cardinality(p \ {x}) = Cardinality(p) - 1
      BY Lesser
    <3> QED BY <3>1
  <2>3. p \ {x} \notin B
    <3>1. ~(Cardinality(p) <= Cardinality(p \ {x}))
      BY <2>2
    <3> HIDE DEF B
    <3> QED BY <1>3, <3>1
  <2>4. t[p \ {x}] <= m * n
    BY <2>2, <2>3
  <2>5. t[p] = w[x] + t[p \ {x}] /\ w[x] \in Nat /\ w[x] <= m /\ t[p \ {x}] \in Nat
    <3>1. p \in SUBSET D /\ x \in r /\ x \in D /\ p \ {x} \in SUBSET D
      BY <2>1
    <3>2. t[p] = w[x] + t[p \ {x}]
      BY <1>0, <2>1, <3>1 DEF AnyOrder
    <3> QED BY <3>1, <3>2
  <2>6. m * (n + 1) = m * n + m /\ m * n \in Nat
    OBVIOUS
  <2>7. t[p] <= m * (n + 1)
    BY <2>4, <2>5, <2>6
  <2> QED BY <2>2, <2>7
<1> QED BY <1>4, <1>5

Total(w, D) == CHOOSE t \in [SUBSET D -> Nat] : SumsUp(w, D, t)

LEMMA TotalIs ==
    ASSUME NEW D, IsFiniteSet(D), NEW w \in [D -> Nat]
    PROVE  Total(w, D) \in [SUBSET D -> Nat] /\ SumsUp(w, D, Total(w, D))
BY SumExists DEF Total


(* What the proofs below use of a sum. *)
LEMMA TotalSame ==
    ASSUME NEW D, IsFiniteSet(D), NEW w \in [D -> Nat], NEW v \in [D -> Nat],
           NEW r \in SUBSET D, \A x \in r : w[x] = v[x]
    PROVE  Total(w, D)[r] = Total(v, D)[r]
<1> DEFINE t == Total(w, D)
           s == Total(v, D)
<1>1. SumsUp(w, D, t) /\ SumsUp(v, D, s)
  BY TotalIs
<1> HIDE DEF t, s
<1>2. SumsUp(v, r, s) /\ r \subseteq D
  BY <1>1 DEF SumsUp
<1>3. \A x \in SUBSET r : t[x] = s[x]
  BY <1>1, <1>2, SumAgrees
<1> QED BY <1>3 DEF t, s

LEMMA TotalGrows ==
    ASSUME NEW D, IsFiniteSet(D), NEW w \in [D -> Nat],
           NEW q \in SUBSET D, NEW r \in SUBSET D, r \subseteq q
    PROVE  /\ Total(w, D)[r] \in Nat /\ Total(w, D)[q] \in Nat
           /\ Total(w, D)[r] <= Total(w, D)[q]
<1> DEFINE t == Total(w, D)
<1>1. t \in [SUBSET D -> Nat] /\ SumsUp(w, D, t)
  BY TotalIs
<1> HIDE DEF t
<1>2. t[r] <= t[q]
  BY <1>1, SumGrows
<1> QED BY <1>1, <1>2 DEF t

LEMMA TotalAdds ==
    ASSUME NEW D, IsFiniteSet(D), NEW w \in [D -> Nat],
           NEW r \in SUBSET D, NEW x \in D, x \notin r
    PROVE  Total(w, D)[r \union {x}] = w[x] + Total(w, D)[r]
<1> DEFINE t == Total(w, D)
<1>1. t \in [SUBSET D -> Nat] /\ SumsUp(w, D, t)
  BY TotalIs
<1> HIDE DEF t
<1>2. AnyOrder(w, D, t)
  BY <1>1, SumRemoves
<1>3. r \union {x} \in SUBSET D /\ x \in r \union {x} /\ (r \union {x}) \ {x} = r
  OBVIOUS
<1> QED BY <1>2, <1>3 DEF AnyOrder, t

LEMMA TotalBounded ==
    ASSUME NEW D, IsFiniteSet(D), NEW w \in [D -> Nat], NEW m \in Nat,
           NEW r \in SUBSET D, \A x \in r : w[x] <= m
    PROVE  Total(w, D)[r] <= m * Cardinality(r)
<1> DEFINE t == Total(w, D)
<1>1. t \in [SUBSET D -> Nat] /\ SumsUp(w, D, t)
  BY TotalIs
<1> HIDE DEF t
<1>2. t[r] <= m * Cardinality(r)
  BY <1>1, SumBounded
<1> QED BY <1>2 DEF t

(* The fold of MapThenSumSet, which is over the subsets of its set only. *)
Folds(w, S, g) == g = [s \in SUBSET S |-> Adds(w, g, s)]

LEMMA FoldIsTotal ==
    ASSUME NEW D, IsFiniteSet(D), NEW w \in [D -> Nat], NEW S \in SUBSET D
    PROVE  /\ \E g : Folds(w, S, g)
           /\ \A g : Folds(w, S, g) => g[S] = Total(w, D)[S]
<1> DEFINE t == Total(w, D)
<1>1. t \in [SUBSET D -> Nat] /\ SumsUp(w, D, t)
  BY TotalIs
<1> HIDE DEF t
<1>2. \E g : g = [s \in SUBSET S |-> Adds(w, g, s)]
  <2> DEFINE g == [s \in SUBSET S |-> t[s]]
  <2>1. ASSUME NEW s \in SUBSET S PROVE g[s] = Adds(w, g, s)
    <3>1. s \in SUBSET D /\ s \ {Any(s)} \in SUBSET S
      OBVIOUS
    <3>2. t[s] = Adds(w, t, s)
      BY <1>1, <3>1 DEF SumsUp
    <3> QED BY <3>1, <3>2 DEF Adds
  <2>2. g = [s \in SUBSET S |-> Adds(w, g, s)]
    BY <2>1
  <2> QED BY <2>2
<1>3. ASSUME NEW g, g = [s \in SUBSET S |-> Adds(w, g, s)] PROVE g[S] = t[S]
  <2>1. SumsUp(w, S, g)
    BY <1>3 DEF SumsUp
  <2>2. \A r \in SUBSET S : t[r] = g[r]
    BY <1>1, <2>1, SumAgrees
  <2> QED BY <2>2
<1> QED BY <1>2, <1>3 DEF Folds, t


(***************************************************************************)
(* The sizes.                                                              *)
(***************************************************************************)
Bytes == [a \in Alias |-> IF rows[a] = NoRow THEN 0 ELSE rows[a].size]

Sent == [p \in Req |-> IF req[p].upload \in Upload THEN req[p].upload.size ELSE 0]

SizesTyped == Bytes \in [Alias -> Nat] /\ Sent \in [Req -> Nat]

LEMMA SizesAreNat == (TypeInv => SizesTyped) /\ (TypeInv' => SizesTyped')
<1>1. TypeInv => SizesTyped
  <2> SUFFICES ASSUME TypeInv PROVE SizesTyped
    OBVIOUS
  <2>1. \A a \in Alias : rows[a] # NoRow => rows[a].size \in Nat
    BY DEF TypeInv, TypeOK, TableTypeOK, Row
  <2>2. \A p \in Req : req[p].upload \in Upload => req[p].upload.size \in Nat
    BY FormAssumption DEF Upload
  <2> QED BY <2>1, <2>2 DEF Bytes, Sent, SizesTyped
<1>2. TypeInv' => SizesTyped'
  <2> SUFFICES ASSUME TypeInv' PROVE SizesTyped'
    OBVIOUS
  <2>1. \A a \in Alias : rows'[a] # NoRow => rows'[a].size \in Nat
    BY DEF TypeInv, TypeOK, TableTypeOK, Row
  <2>2. \A p \in Req : req'[p].upload \in Upload => req'[p].upload.size \in Nat
    BY FormAssumption DEF Upload
  <2> QED BY <2>1, <2>2 DEF Bytes, Sent, SizesTyped
<1> QED BY <1>1, <1>2

(* The sizes that FilesStat adds up, and those of the uploads on their way. *)
LEMMA StoredIsTotal ==
    ASSUME TypeInv, NEW u
    PROVE  FilesStat(u).size = Total(Bytes, Alias)[FilesOf(u)]
<1> DEFINE S == FilesOf(u)
           Plus(g, s) == IF s = {} THEN 0 ELSE rows[Any(s)].size + g[s \ {Any(s)}]
           iter == CHOOSE g : g = [s \in SUBSET S |-> Plus(g, s)]
<1>1. FilesStat(u).size = iter[S]
  BY DEF FilesStat, MapThenSumSet, MapThenFoldSet, Any
<1>2. S \in SUBSET Alias /\ \A a \in S : Bytes[a] = rows[a].size
  BY DEF FilesOf, Bytes
<1>3. ASSUME NEW g PROVE \A s \in SUBSET S : Plus(g, s) = Adds(Bytes, g, s)
  <2>1. \A s \in SUBSET S : s # {} => Bytes[Any(s)] = rows[Any(s)].size
    BY <1>2, AnyIn
  <2> QED BY <2>1 DEF Adds
<1> HIDE DEF S, Plus
<1>4. ASSUME NEW g PROVE g = [s \in SUBSET S |-> Plus(g, s)] <=> Folds(Bytes, S, g)
  <2>1. [s \in SUBSET S |-> Plus(g, s)] = [s \in SUBSET S |-> Adds(Bytes, g, s)]
    BY <1>3
  <2> QED BY <2>1 DEF Folds
<1>5. IsFiniteSet(Alias) /\ Bytes \in [Alias -> Nat] /\ S \in SUBSET Alias
  BY <1>2, SizesAreNat, DomainAssumption DEF SizesTyped
<1>6. \E g : g = [s \in SUBSET S |-> Plus(g, s)]
  <2>1. PICK g : Folds(Bytes, S, g)
    BY <1>5, FoldIsTotal
  <2> QED BY <1>4, <2>1
<1>7. iter = [s \in SUBSET S |-> Plus(iter, s)]
  BY <1>6
<1> HIDE DEF iter
<1>8. Folds(Bytes, S, iter)
  BY <1>4, <1>7
<1>9. iter[S] = Total(Bytes, Alias)[S]
  BY <1>5, <1>8, FoldIsTotal
<1> QED BY <1>1, <1>9 DEF S

LEMMA SentIsTotal ==
    ASSUME TypeInv, NEW u, \A p \in OnTheirWay(u) : req[p].upload \in Upload
    PROVE  SizeOnTheWay(u) = Total(Sent, Req)[OnTheirWay(u)]
<1> DEFINE S == OnTheirWay(u)
           Plus(g, s) == IF s = {} THEN 0 ELSE req[Any(s)].upload.size + g[s \ {Any(s)}]
           iter == CHOOSE g : g = [s \in SUBSET S |-> Plus(g, s)]
<1>1. SizeOnTheWay(u) = iter[S]
  BY DEF SizeOnTheWay, MapThenSumSet, MapThenFoldSet, Any
<1>2. S \in SUBSET Req /\ \A p \in S : Sent[p] = req[p].upload.size
  BY DEF OnTheirWay, Sent
<1>3. ASSUME NEW g PROVE \A s \in SUBSET S : Plus(g, s) = Adds(Sent, g, s)
  <2>1. \A s \in SUBSET S : s # {} => Sent[Any(s)] = req[Any(s)].upload.size
    BY <1>2, AnyIn
  <2> QED BY <2>1 DEF Adds
<1> HIDE DEF S, Plus
<1>4. ASSUME NEW g PROVE g = [s \in SUBSET S |-> Plus(g, s)] <=> Folds(Sent, S, g)
  <2>1. [s \in SUBSET S |-> Plus(g, s)] = [s \in SUBSET S |-> Adds(Sent, g, s)]
    BY <1>3
  <2> QED BY <2>1 DEF Folds
<1>5. IsFiniteSet(Req) /\ Sent \in [Req -> Nat] /\ S \in SUBSET Req
  BY <1>2, SizesAreNat, DomainAssumption DEF SizesTyped
<1>6. \E g : g = [s \in SUBSET S |-> Plus(g, s)]
  <2>1. PICK g : Folds(Sent, S, g)
    BY <1>5, FoldIsTotal
  <2> QED BY <1>4, <2>1
<1>7. iter = [s \in SUBSET S |-> Plus(iter, s)]
  BY <1>6
<1> HIDE DEF iter
<1>8. Folds(Sent, S, iter)
  BY <1>4, <1>7
<1>9. iter[S] = Total(Sent, Req)[S]
  BY <1>5, <1>8, FoldIsTotal
<1> QED BY <1>1, <1>9 DEF S

(* An upload that fits is no larger than the largest. *)
LEMMA LargestIs ==
    ASSUME NEW u \in User
    PROVE  /\ LargestUpload(u) \in Nat
           /\ \A n \in Nat : FitsSize(n, RolesOf[u]) => n <= LargestUpload(u)
<1>1. ASSUME NEW v \in Int, NEW w \in Int
      PROVE  LET m == Max({0, v, w}) IN m \in Nat /\ v <= m /\ w <= m
  <2>1. \E x \in {0, v, w} : \A y \in {0, v, w} : x >= y
    <3>1. CASE v <= 0 /\ w <= 0
      BY <3>1
    <3>2. CASE v > 0 /\ w <= v
      BY <3>2
    <3>3. CASE w > 0 /\ v <= w
      BY <3>3
    <3> QED BY <3>1, <3>2, <3>3
  <2>2. LET m == Max({0, v, w})
        IN  m \in {0, v, w} /\ \A y \in {0, v, w} : m >= y
    BY <2>1 DEF Max
  <2> QED BY <2>2
<1> DEFINE vip  == IF HasRole(RolesOf[u], "vip") THEN MaxFilesSizeForVip - 1 ELSE 0
           user == IF HasRole(RolesOf[u], "user") THEN MaxFilesSizeForUser - 1 ELSE 0
<1>2. vip \in Int /\ user \in Int
  BY QuotaAssumption
<1>3. \A n \in Nat : FitsSize(n, RolesOf[u]) => n <= vip \/ n <= user
  BY QuotaAssumption DEF FitsSize
<1>4. LargestUpload(u) = Max({0, vip, user})
  BY DEF LargestUpload
<1> HIDE DEF vip, user
<1>5. LET m == Max({0, vip, user}) IN m \in Nat /\ vip <= m /\ user <= m
  BY <1>1, <1>2
<1> QED BY <1>2, <1>3, <1>4, <1>5


(* What a user has stored and what is on its way fit together, and no      *)
(* upload is larger than the largest.                                      *)
AllFit(u) ==
    \A p \in OnTheirWay(u) : /\ req[p].upload \in Upload
                             /\ req[p].upload.size <= LargestUpload(u)

WithinSize(u) ==
    Total(Bytes, Alias)[FilesOf(u)] + Total(Sent, Req)[OnTheirWay(u)]
        <= LargestUpload(u) * Cardinality(Req)

SizeInv == \A u \in User : ~Unlimited(u) => AllFit(u) /\ WithinSize(u)

LEMMA SizeShrinks ==
    ASSUME TypeInv, TypeInv', NEW u \in User, AllFit(u), WithinSize(u),
           FilesOf(u)' \subseteq FilesOf(u), OnTheirWay(u)' \subseteq OnTheirWay(u),
           \A a \in FilesOf(u)' : Bytes'[a] = Bytes[a],
           \A q \in OnTheirWay(u)' : req'[q].upload = req[q].upload
    PROVE  AllFit(u)' /\ WithinSize(u)'
<1>1. AllFit(u)'
  BY DEF AllFit, LargestUpload
<1>2. /\ IsFiniteSet(Alias) /\ Bytes \in [Alias -> Nat] /\ Bytes' \in [Alias -> Nat]
      /\ FilesOf(u) \in SUBSET Alias /\ FilesOf(u)' \in SUBSET Alias
  BY SizesAreNat, DomainAssumption DEF FilesOf, SizesTyped
<1>3. /\ IsFiniteSet(Req) /\ Sent \in [Req -> Nat] /\ Sent' \in [Req -> Nat]
      /\ OnTheirWay(u) \in SUBSET Req /\ OnTheirWay(u)' \in SUBSET Req
  BY SizesAreNat, DomainAssumption DEF OnTheirWay, SizesTyped
<1>4. \A q \in OnTheirWay(u)' : Sent'[q] = Sent[q]
  BY <1>3 DEF Sent
<1>5. PICK F, G, W, V, b, c, d, e :
         /\ F = FilesOf(u) /\ G = FilesOf(u)' /\ W = OnTheirWay(u) /\ V = OnTheirWay(u)'
         /\ b = Bytes /\ c = Bytes' /\ d = Sent /\ e = Sent'
  OBVIOUS
<1>6. /\ Total(c, Alias)[G] = Total(b, Alias)[G] /\ Total(b, Alias)[G] <= Total(b, Alias)[F]
      /\ Total(b, Alias)[G] \in Nat /\ Total(b, Alias)[F] \in Nat
  <2>1. Total(c, Alias)[G] = Total(b, Alias)[G]
    BY <1>2, <1>5, TotalSame
  <2> QED BY <1>2, <1>5, <2>1, TotalGrows
<1>7. /\ Total(e, Req)[V] = Total(d, Req)[V] /\ Total(d, Req)[V] <= Total(d, Req)[W]
      /\ Total(d, Req)[V] \in Nat /\ Total(d, Req)[W] \in Nat
  <2>1. Total(e, Req)[V] = Total(d, Req)[V]
    BY <1>3, <1>4, <1>5, TotalSame
  <2> QED BY <1>3, <1>5, <2>1, TotalGrows
<1>8. PICK most \in Nat : most = LargestUpload(u) * Cardinality(Req)
  BY LargestIs, Counts
<1>9. Total(b, Alias)[F] + Total(d, Req)[W] <= most
  BY <1>5, <1>8 DEF WithinSize
<1>10. Total(c, Alias)[G] + Total(e, Req)[V] <= most
  BY <1>6, <1>7, <1>9
<1>11. WithinSize(u)' <=>
          Total(Bytes', Alias)[FilesOf(u)'] + Total(Sent', Req)[OnTheirWay(u)'] <= most
  BY <1>8 DEF WithinSize, LargestUpload, Total, SumsUp, Adds, Any
<1> QED BY <1>1, <1>5, <1>10, <1>11


LEMMA SizeAdmits ==
    ASSUME RowInv, TypeInv', NEW p \in Req, UploadBegin(p),
           NEW u \in User, ~Unlimited(u), AllFit(u), WithinSize(u)
    PROVE  AllFit(u)' /\ WithinSize(u)'
<1>0. TypeInv /\ req \in [Req -> Goroutine]
  BY DEF RowInv, TypeInv, TypeOK, ServiceTypeOK
<1>1. PICK cmd \in Upload, a \in Alias, s \in Spelling :
           /\ CheckUploadQuote(FilesStat(cmd.owner), cmd.size, RolesOf[cmd.owner]) = "ok"
           /\ Begin(p, "addFile", a, s, cmd)
           /\ rows' = rows
  BY DEF UploadBegin, tableVars
<1>2. /\ req'[p].upload = cmd
      /\ \A q \in Req \ {p} : req'[q] = req[q]
  BY <1>0, <1>1 DEF Begin, Idle
<1>3. FilesOf(u)' = FilesOf(u) /\ Bytes' = Bytes
  BY <1>1 DEF FilesOf, Bytes
<1>4. CASE cmd.owner # u
  <2>1. /\ OnTheirWay(u)' \subseteq OnTheirWay(u)
        /\ \A q \in OnTheirWay(u)' : req'[q].upload = req[q].upload
    BY <1>2, <1>4, OnTheirWayIs DEF OnWay
  <2> QED BY <1>0, <1>3, <2>1, SizeShrinks
<1>5. CASE cmd.owner = u
  <2>1. PICK F, b, V, e, n, most :
           /\ F = FilesOf(u) /\ b = Bytes /\ V = OnTheirWay(u)' /\ e = Sent'
           /\ n = cmd.size /\ most = LargestUpload(u)
    OBVIOUS
  <2>2. /\ IsFiniteSet(Alias) /\ b \in [Alias -> Nat] /\ F \in SUBSET Alias
        /\ IsFiniteSet(Req) /\ e \in [Req -> Nat] /\ V \in SUBSET Req
    BY <1>0, <1>3, <2>1, SizesAreNat, DomainAssumption DEF FilesOf, OnTheirWay, SizesTyped
  <2>3. n \in Nat /\ most \in Nat
    BY <2>1, LargestIs, FormAssumption DEF Upload
  <2>4. PICK stored \in Nat : stored = Total(b, Alias)[F]
    BY <2>2, TotalGrows
  <2>5. stored + n <= most
    <3>1. FilesStat(u).size = stored
      BY <1>0, <2>1, <2>4, StoredIsTotal
    <3>2. FitsSize(FilesStat(u).size + n, RolesOf[u])
      BY <1>1, <1>5, <2>1 DEF CheckUploadQuote, Unlimited
    <3> QED BY <2>1, <2>3, <3>1, <3>2, LargestIs
  <2>6. e[p] = n
    BY <1>2, <2>1 DEF Sent
  <2>7. \A q \in V \ {p} : req'[q] = req[q] /\ q \in OnTheirWay(u)
    BY <1>2, <2>1, OnTheirWayIs DEF OnWay
  <2>8. AllFit(u)'
    <3>1. \A q \in V : req'[q].upload \in Upload /\ req'[q].upload.size <= most
      BY <1>2, <2>1, <2>3, <2>5, <2>7 DEF AllFit
    <3> QED BY <2>1, <3>1 DEF AllFit, LargestUpload
  <2>9. \A q \in V \ {p} : e[q] <= most
    BY <2>1, <2>2, <2>7 DEF AllFit, Sent
  <2>10. PICK k \in Nat : k = Cardinality(V \ {p}) /\ k + 1 <= Cardinality(Req)
    <3>1. V \ {p} \subseteq Req \ {p} /\ IsFiniteSet(Req \ {p})
      BY <2>2, FS_Subset
    <3>2. Cardinality(Req \ {p}) = Cardinality(Req) - 1
      BY <2>2, FS_RemoveElement
    <3>3. Cardinality(V \ {p}) <= Cardinality(Req \ {p}) /\ Cardinality(V \ {p}) \in Nat
      BY <3>1, FS_Subset, FS_CardinalityType
    <3> QED BY <3>2, <3>3, Counts
  <2>11. PICK others \in Nat : others = Total(e, Req)[V \ {p}] /\ others <= most * k
    <3>1. V \ {p} \in SUBSET Req
      BY <2>2
    <3> QED BY <2>2, <2>3, <2>9, <2>10, <3>1, TotalGrows, TotalBounded
  <2>12. PICK sent \in Nat : sent = Total(e, Req)[V] /\ sent <= n + others
    <3>1. CASE p \in V
      <4>1. PICK rest : rest = V \ {p}
        OBVIOUS
      <4>2. rest \in SUBSET Req /\ p \notin rest /\ V = rest \union {p}
        BY <2>2, <3>1, <4>1
      <4>3. IsFiniteSet(Req) /\ e \in [Req -> Nat]
        BY <2>2
      <4>4. Total(e, Req)[rest \union {p}] = e[p] + Total(e, Req)[rest]
        BY <4>2, <4>3, TotalAdds
      <4>5. Total(e, Req)[V] = n + others
        BY <2>6, <2>11, <4>1, <4>2, <4>4
      <4> QED BY <2>3, <4>5
    <3>2. CASE p \notin V
      <4>1. V \ {p} = V
        BY <3>2
      <4>2. Total(e, Req)[V] = others
        BY <2>11, <4>1
      <4>3. others <= n + others
        BY <2>3
      <4> QED BY <4>2, <4>3
    <3> QED BY <3>1, <3>2
  <2>13. PICK r \in Nat : r = Cardinality(Req)
    BY Counts
  <2>14. most * (k + 1) <= most * r /\ most * (k + 1) = most * k + most
         /\ most * k \in Nat /\ most * r \in Nat
    <3>1. k + 1 <= r
      BY <2>10, <2>13
    <3>2. PICK d \in Nat : r = (k + 1) + d
      <4>1. r - (k + 1) \in Nat /\ r = (k + 1) + (r - (k + 1))
        BY <3>1
      <4> QED BY <4>1
    <3>3. most * ((k + 1) + d) = most * (k + 1) + most * d /\ most * d \in Nat
          /\ most * (k + 1) \in Nat /\ most * k \in Nat /\ most * (k + 1) = most * k + most
      BY <2>3
    <3> QED BY <3>2, <3>3
  <2>15. stored + sent <= most * r
    BY <2>3, <2>5, <2>11, <2>12, <2>14
  <2>16. WithinSize(u)' <=> Total(b, Alias)[F] + Total(e, Req)[V] <= most * r
    BY <1>3, <2>1, <2>13 DEF WithinSize, LargestUpload, Total, SumsUp, Adds, Any
  <2> QED BY <2>4, <2>8, <2>12, <2>15, <2>16
<1> QED BY <1>4, <1>5


LEMMA SizeCommits ==
    ASSUME RowInv, TypeInv', NEW p \in Req, Commits(p),
           NEW u \in User, AllFit(u), WithinSize(u)
    PROVE  AllFit(u)' /\ WithinSize(u)'
<1>0. TypeInv
  BY DEF RowInv
<1>1. PICK a : a = req[p].alias
  OBVIOUS
<1>2. /\ a \in Alias /\ rows[a] = NoRow /\ rows'[a] # NoRow
      /\ rows'[a].size = req[p].upload.size
      /\ \A o \in Alias \ {a} : rows'[o] = rows[o]
      /\ req'[p].pc = "idle" /\ \A q \in Req \ {p} : req'[q] = req[q]
  BY <1>1, CommitAdds
<1>3. /\ a \notin FilesOf(u)
      /\ \A o \in FilesOf(u) : Bytes'[o] = Bytes[o]
  BY <1>2 DEF FilesOf, Bytes
<1>4. p \notin OnTheirWay(u)'
  BY <1>2 DEF OnTheirWay
<1>5. OnTheirWay(u)' \subseteq Req /\ \A q \in OnTheirWay(u)' : req'[q] = req[q]
  BY <1>2, <1>4 DEF OnTheirWay
<1>6. CASE req[p].upload.owner # u
  <2>1. FilesOf(u)' \subseteq FilesOf(u) /\ OnTheirWay(u)' \subseteq OnTheirWay(u)
    BY <1>6, CommitAdds
  <2> QED BY <1>0, <1>3, <1>5, <2>1, SizeShrinks
<1>7. CASE req[p].upload.owner = u
  <2>1. /\ FilesOf(u)' = FilesOf(u) \union {a}
        /\ OnTheirWay(u)' = OnTheirWay(u) \ {p} /\ p \in OnTheirWay(u)
    BY <1>1, <1>7, CommitAdds
  <2>2. AllFit(u)'
    BY <1>5, <2>1 DEF AllFit, LargestUpload
  <2>3. PICK F, G, W, V, b, c, d, e :
           /\ F = FilesOf(u) /\ G = FilesOf(u)' /\ W = OnTheirWay(u) /\ V = OnTheirWay(u)'
           /\ b = Bytes /\ c = Bytes' /\ d = Sent /\ e = Sent'
    OBVIOUS
  <2>4. /\ IsFiniteSet(Alias) /\ b \in [Alias -> Nat] /\ c \in [Alias -> Nat]
        /\ F \in SUBSET Alias /\ G = F \union {a} /\ a \in Alias /\ a \notin F
    BY <1>0, <1>2, <1>3, <2>1, <2>3, SizesAreNat, DomainAssumption DEF FilesOf, SizesTyped
  <2>5. /\ IsFiniteSet(Req) /\ d \in [Req -> Nat] /\ e \in [Req -> Nat]
        /\ V \in SUBSET Req /\ W = V \union {p} /\ p \notin V
    BY <1>0, <1>4, <1>5, <2>1, <2>3, SizesAreNat, DomainAssumption DEF OnTheirWay, SizesTyped
  <2>6. \A q \in V : e[q] = d[q]
    BY <1>5, <2>3, <2>5 DEF Sent
  <2>7. c[a] = d[p]
    BY <1>2, <2>1, <2>3, <2>4 DEF Bytes, Sent, AllFit
  <2>8. Total(c, Alias)[G] = c[a] + Total(b, Alias)[F]
    <3>1. Total(c, Alias)[F] = Total(b, Alias)[F]
      BY <1>3, <2>3, <2>4, TotalSame
    <3>2. Total(c, Alias)[F \union {a}] = c[a] + Total(c, Alias)[F]
      BY <2>4, TotalAdds
    <3> QED BY <2>4, <3>1, <3>2
  <2>9. Total(d, Req)[W] = d[p] + Total(e, Req)[V]
    <3>1. Total(e, Req)[V] = Total(d, Req)[V]
      BY <2>5, <2>6, TotalSame
    <3>2. Total(d, Req)[V \union {p}] = d[p] + Total(d, Req)[V]
      BY <2>5, TotalAdds
    <3> QED BY <2>5, <3>1, <3>2
  <2>10. c[a] \in Nat /\ Total(b, Alias)[F] \in Nat /\ Total(e, Req)[V] \in Nat
    BY <2>4, <2>5, TotalGrows
  <2>11. Total(c, Alias)[G] + Total(e, Req)[V] = Total(b, Alias)[F] + Total(d, Req)[W]
    BY <2>7, <2>8, <2>9, <2>10
  <2>12. Total(b, Alias)[F] + Total(d, Req)[W] <= LargestUpload(u) * Cardinality(Req)
    BY <2>3 DEF WithinSize
  <2>13. WithinSize(u)' <=>
            Total(c, Alias)[G] + Total(e, Req)[V] <= LargestUpload(u) * Cardinality(Req)
    BY <2>3 DEF WithinSize, LargestUpload, Total, SumsUp, Adds, Any
  <2> QED BY <2>2, <2>11, <2>12, <2>13
<1> QED BY <1>6, <1>7

LEMMA SizeNext == RowInv /\ TypeInv' /\ SizeInv /\ [Next]_vars => SizeInv'
<1> SUFFICES ASSUME RowInv, TypeInv', [Next]_vars,
                    NEW u \in User, ~Unlimited(u), AllFit(u), WithinSize(u)
             PROVE  AllFit(u)' /\ WithinSize(u)'
  BY DEF SizeInv, Unlimited
<1>1. CASE OnlyLetsGo
  <2>1. FilesOf(u)' \subseteq FilesOf(u) /\ OnTheirWay(u)' \subseteq OnTheirWay(u)
    BY <1>1, Shrinks
  <2>2. \A a \in FilesOf(u)' : Bytes'[a] = Bytes[a]
    BY <1>1 DEF OnlyLetsGo, FilesOf, Bytes
  <2>3. \A q \in OnTheirWay(u)' : req'[q].upload = req[q].upload
    BY <1>1, OnTheirWayIs DEF OnlyLetsGo
  <2> QED BY <2>1, <2>2, <2>3, SizeShrinks DEF RowInv
<1> QED BY <1>1, StepMoves, SizeAdmits, SizeCommits

(* The bound on the sizes: what a user without the admin role has stored   *)
(* and what is being stored for him never exceed as many largest files as  *)
(* there are requests, in any schedule and with any failures.              *)
THEOREM SizeBounded == Spec => []SizeOvershoot
<1>1. Init => SizeInv
  <2> SUFFICES ASSUME Init, NEW u \in User PROVE AllFit(u) /\ WithinSize(u)
    BY DEF SizeInv
  <2>1. FilesOf(u) = {} /\ OnTheirWay(u) = {}
    BY DEF Init, TableInit, ServiceInit, Idle, FilesOf, OnTheirWay
  <2>2. SizesTyped
    BY SizesAreNat, InitTyped
  <2>3. Total(Bytes, Alias)[{}] = 0 /\ Total(Sent, Req)[{}] = 0
    <3>1. SumsUp(Bytes, Alias, Total(Bytes, Alias)) /\ SumsUp(Sent, Req, Total(Sent, Req))
      BY <2>2, DomainAssumption, TotalIs DEF SizesTyped
    <3> QED BY <3>1 DEF SumsUp, Adds
  <2>4. 0 + 0 <= LargestUpload(u) * Cardinality(Req)
    <3>1. PICK m \in Nat, n \in Nat : m = LargestUpload(u) /\ n = Cardinality(Req)
      BY LargestIs, Counts
    <3>2. m * n \in Nat
      OBVIOUS
    <3> QED BY <3>1, <3>2
  <2> QED BY <2>1, <2>3, <2>4 DEF AllFit, WithinSize
<1>2. RowInv /\ TypeInv' /\ SizeInv /\ [Next]_vars => SizeInv'
  BY SizeNext
<1>3. RowInv /\ SizeInv => SizeOvershoot
  <2> SUFFICES ASSUME RowInv, NEW u \in User, AllFit(u), WithinSize(u)
               PROVE  FilesStat(u).size + SizeOnTheWay(u) <= LargestUpload(u) * Cardinality(Req)
    BY DEF SizeInv, SizeOvershoot
  <2>1. TypeInv /\ \A p \in OnTheirWay(u) : req[p].upload \in Upload
    BY DEF RowInv, AllFit
  <2> QED BY <2>1, StoredIsTotal, SentIsTotal DEF WithinSize
<1>4. RowInv => TypeInv
  BY DEF RowInv
<1> QED BY <1>1, <1>2, <1>3, <1>4, RowsHeld, PTL DEF Spec
=============================================================================
