--------------------------- MODULE RefinementProofs ---------------------------
(***************************************************************************)
(* Rows keep the terms they were published with, and no download is        *)
(* charged that is not handed out, as long as no alias is drawn twice and  *)
(* no answer to a commit is lost.  A counter that is written from a stale  *)
(* read is above what it should be, never below: what a download read,     *)
(* plus what had been handed out by then, covered the promise, and only    *)
(* the latter has grown since.                                             *)
(***************************************************************************)
EXTENDS BlobProofs

RowOK(a) ==
    rows[a] # NoRow =>
        /\ rows[a].id \in Published
        /\ rows[a].owner = born[rows[a].id].owner
        /\ rows[a].exp = born[rows[a].id].exp
        /\ rows[a].left + served[rows[a].id] >= born[rows[a].id].left

OneRowPerFile ==
    \A a, b \in Alias :
        rows[a] # NoRow /\ rows[b] # NoRow /\ rows[a].id = rows[b].id => a = b

(* Rows the worker is about to forget are expired. *)
WorkerExpired ==
    \A a \in Alias : lock[a] = Worker /\ rows[a] # NoRow => rows[a].exp < now

LastSteps == {"deleteLastRow", "deleteLastFile", "commitLast"}

DeleteSteps == {"deleteRow", "deleteFile", "commitDelete"}

(* A download is about the file whose row it charges, if the row is still  *)
(* there; the value it has read or written covers the promise; the last    *)
(* one has nothing left.  A deletion is about a file it was granted for.   *)
GoroutineOK(p) ==
    LET a == req[p].alias
        f == req[p].file
    IN  /\ req[p].pc \in ServingSteps /\ rows[a] # NoRow => rows[a].id = f
        /\ req[p].pc \in ServingSteps \ {"readCounter"} =>
              req[p].left + 1 + served[f] >= born[f].left
        /\ req[p].pc \in LastSteps => req[p].left = 0
        /\ req[p].pc \in DeleteSteps /\ rows[a] # NoRow => rows[a].id \in asked
        /\ InTx(p) /\ req[p].pc = "commitDownload" /\ pend[a] # NoRow =>
              pend[a] = [rows[a] EXCEPT !.left = req[p].left]

TermsInv ==
    /\ \A a \in Alias : RowOK(a)
    /\ OneRowPerFile
    /\ WorkerExpired
    /\ \A p \in Req : GoroutineOK(p)

LEMMA TermsInit == Init => TermsInv
<1> SUFFICES ASSUME Init PROVE TermsInv
  OBVIOUS
<1>1. (\A p \in Req : req[p].pc = "idle") /\ (\A a \in Alias : rows[a] = NoRow)
  BY DEF Init, ServiceInit, TableInit, Idle
<1> QED BY <1>1
        DEF TermsInv, RowOK, OneRowPerFile, WorkerExpired, GoroutineOK, ServingSteps, LastSteps,
            DeleteSteps

LEMMA TermsShapes ==
    ASSUME TypeInv
    PROVE  /\ \A a \in Alias : rows[a] # NoRow => rows[a] \in Row
           /\ \A f \in Published : born[f] \in Row /\ f \in FileId
           /\ \A f \in FileId : served[f] \in Nat
           /\ \A p \in Req : req[p].left \in Nat
           /\ \A p \in Req : req[p].pc \in ServingSteps => req[p].file \in FileId
           /\ now \in Nat
BY DEF TypeInv, TypeOK, TableTypeOK, ServiceTypeOK, Goroutine, Published, LocalsOK, FileSteps,
       ServingSteps

(* What a step may make of a row: nothing, or another counter. *)
SameRow(a) ==
    rows'[a] # NoRow =>
        rows[a] # NoRow /\ rows'[a].id = rows[a].id /\ rows'[a].exp = rows[a].exp

(* A step after which q goes on as before, with its row unless q has none, *)
(* or in a state that keeps GoroutineOK.                                   *)
GoesOn(q) ==
    \/ /\ req'[q] = req[q]
       /\ InTx(q) => /\ rows'[req[q].alias] = rows[req[q].alias]
                     /\ pend'[req[q].alias] = pend[req[q].alias]
    \/ GoroutineOK(q)'

(* Nothing that was promised or handed out is taken back.  Only one row is *)
(* new, of an alias nobody but its upload knows.                           *)
LEMMA TermsKept ==
    ASSUME TypeInv, TypeInv', ServedInv, TermsInv,
           \A f \in Published : f \in Published' /\ born'[f] = born[f],
           \A f \in FileId : served[f] <= served'[f],
           asked \subseteq asked', now <= now',
           NEW new,
           \A a \in Alias :
              /\ RowOK(a)'
              /\ \/ SameRow(a)
                 \/ a = new /\ ~Settled(a) /\ rows'[a].id \notin Published,
           \A a \in Alias : lock'[a] = Worker =>
              SameRow(a) /\ (rows[a] # NoRow => lock[a] = Worker \/ rows[a].exp < now),
           \A q \in Req : GoesOn(q)
    PROVE  TermsInv'
<1>1. OneRowPerFile'
  <2>1. ASSUME NEW a \in Alias, NEW b \in Alias, rows'[a] # NoRow, rows'[b] # NoRow,
               rows'[a].id = rows'[b].id
        PROVE  a = b
    <3>1. \A c \in Alias : rows[c] # NoRow => rows[c].id \in Published
      BY DEF TermsInv, RowOK
    <3> QED BY <2>1, <3>1 DEF SameRow, TermsInv, OneRowPerFile
  <2> QED BY <2>1 DEF OneRowPerFile
<1>2. WorkerExpired'
  <2>1. ASSUME NEW a \in Alias, lock'[a] = Worker, rows'[a] # NoRow
        PROVE  rows'[a].exp < now'
    <3>1. rows[a] # NoRow /\ rows'[a].exp = rows[a].exp /\ rows[a].exp < now
      BY <2>1 DEF SameRow, TermsInv, WorkerExpired
    <3>2. rows[a].exp \in Int /\ now \in Nat /\ now' \in Nat
      BY <3>1, TermsShapes DEF Row, TypeInv, TypeOK, TableTypeOK
    <3> QED BY <3>1, <3>2
  <2> QED BY <2>1 DEF WorkerExpired
<1>3. ASSUME NEW q \in Req, req'[q] = req[q],
             InTx(q) => /\ rows'[req[q].alias] = rows[req[q].alias]
                        /\ pend'[req[q].alias] = pend[req[q].alias]
      PROVE  GoroutineOK(q)'
  <2> DEFINE a == req[q].alias
             f == req[q].file
  <2>1. GoroutineOK(q) /\ DownloadOK(q) /\ InTx(q)' = InTx(q)
    BY <1>3 DEF TermsInv, ServedInv, InTx
  <2>2. req[q].pc \in ServingSteps \union DeleteSteps => a \in Alias /\ Settled(a)
    BY <2>1, Shapes DEF ServingSteps, DeleteSteps, DownloadOK, Knows, Active, OnUpload, UploadSteps
  <2>3. req[q].pc \in ServingSteps \union DeleteSteps =>
          (rows'[a] # NoRow => rows[a] # NoRow /\ rows'[a].id = rows[a].id)
    BY <2>2 DEF SameRow
  <2>4. req[q].pc \in ServingSteps =>
          /\ f \in FileId /\ f \in Published /\ born'[f] = born[f]
          /\ req[q].left \in Nat /\ served[f] \in Nat /\ served'[f] \in Nat
          /\ served[f] <= served'[f]
          /\ born[f].left \in Nat
    BY <2>1, TermsShapes DEF DownloadOK, Good, Row, TypeInv, TypeOK, ServiceTypeOK
  <2>5. req[q].pc \in ServingSteps \ {"readCounter"} =>
           req[q].left + 1 + served'[f] >= born'[f].left
    BY <2>1, <2>4 DEF GoroutineOK
  <2> QED BY <1>3, <2>1, <2>3, <2>5 DEF GoroutineOK
<1>4. \A q \in Req : GoroutineOK(q)'
  BY <1>3 DEF GoesOn
<1> QED BY <1>1, <1>2, <1>4 DEF TermsInv

(* The steps of p that commit nothing, and what they do to the table. *)
Quiet(p) ==
    \/ RequestBegin(p)
    \/ AddFile(p) \/ AddFileTaken(p) \/ CreateFile(p) \/ CopyFile(p)
    \/ OpenFile(p) \/ OpenFileMisses(p)
    \/ ReadCounter(p) \/ ReadCounterMisses(p) \/ WriteCounter(p)
    \/ DeleteRow(p) \/ DeleteRowMisses(p) \/ DeleteFolder(p)
    \/ CutReturn(p) \/ Disconnect(p) \/ DbError(p) \/ StoreError(p)

LEMMA QuietTable ==
    ASSUME TypeInv, NEW p \in Req, Quiet(p)
    PROVE  /\ UNCHANGED <<rows, now, born, served>> /\ asked \subseteq asked'
           /\ \A a \in Alias : lock'[a] = Worker => lock[a] = Worker
           /\ \A a \in Alias : pend'[a] = pend[a] \/ lock[a] \in {None, p}
<1>1. /\ UNCHANGED <<born, served>> /\ asked \subseteq asked'
      /\ \/ UNCHANGED tableVars
         \/ Rollback(p)
         \/ /\ Active(p)
            /\ \/ AddFileTx(p, req[p].alias, NewRow(req[p].upload, req[p].spelled))
               \/ UpdateCounter(p, req[p].alias, req[p].left)
               \/ DeleteFileTx(p, req[p].alias)
  BY DEF Quiet, RequestBegin, UploadBegin, DownloadBegin, DeleteBegin, AddFile, AddFileTaken,
         CreateFile, CopyFile, OpenFile, OpenFileMisses, ReadCounter, ReadCounterMisses,
         WriteCounter, DeleteRow, DeleteRowMisses, DeleteFolder, CutReturn, Disconnect, DbError,
         StoreError, Active, Uncut, At
<1>2. CASE UNCHANGED tableVars
  BY <1>1, <1>2 DEF tableVars
<1>3. CASE Rollback(p)
  BY <1>1, <1>3, Shapes DEF Rollback, Release
<1>4. CASE Active(p) /\ ~Rollback(p) /\ ~UNCHANGED tableVars
  <2>1. /\ lock[req[p].alias] \in {None, p}
        /\ lock' = [lock EXCEPT ![req[p].alias] = p]
        /\ \E row : pend' = [pend EXCEPT ![req[p].alias] = row]
        /\ UNCHANGED <<rows, now>>
    BY <1>1, <1>4 DEF AddFileTx, UpdateCounter, DeleteFileTx, Unlocked
  <2> QED BY <1>1, <2>1, Shapes
<1> QED BY <1>2, <1>3, <1>4, <1>1

LEMMA TermsQuiet ==
    ASSUME ShareInv, ServedInv, TermsInv, TypeInv', NEW p \in Req, Quiet(p),
           NEW g, req' = [req EXCEPT ![p] = g], GoroutineOK(p)'
    PROVE  TermsInv'
<1>1. TypeInv /\ LockInv
  BY DEF ShareInv, RowInv
<1>2. /\ UNCHANGED <<rows, now, born, served>> /\ asked \subseteq asked'
      /\ \A a \in Alias : lock'[a] = Worker => lock[a] = Worker
      /\ \A a \in Alias : pend'[a] = pend[a] \/ lock[a] \in {None, p}
  BY <1>1, QuietTable
<1>3. Published' = Published /\ \A a \in Alias : RowOK(a)' /\ SameRow(a)
  BY <1>2 DEF Published, TermsInv, RowOK, SameRow
<1>4. ASSUME NEW q \in Req PROVE GoesOn(q)
  <2>1. CASE q = p
    BY <2>1 DEF GoesOn
  <2>2. CASE q # p
    <3>1. req'[q] = req[q]
      BY <1>1, <2>2, Shapes
    <3>2. InTx(q) => req[q].alias \in Alias /\ lock[req[q].alias] = q
      BY <1>1, Holds
    <3> QED BY <1>1, <1>2, <2>2, <3>1, <3>2, Shapes DEF GoesOn
  <2> QED BY <2>1, <2>2
<1>5. /\ \A f \in FileId : served[f] <= served'[f]
      /\ now <= now'
  BY <1>1, <1>2, TermsShapes
<1> QED BY <1>1, <1>2, <1>3, <1>4, <1>5, TermsKept

LEMMA TermsUncommitted ==
    ASSUME ShareInv, ServedInv, TermsInv, TypeInv', NEW p \in Req, Quiet(p)
    PROVE  TermsInv'
<1> USE DEF ServingSteps, LastSteps, DeleteSteps
<1> DEFINE a == req[p].alias
           f == req[p].file
<1>1. /\ TypeInv /\ LockInv /\ PendInv /\ BlobInv /\ GoroutineOK(p) /\ DownloadOK(p)
      /\ req[p] \in Goroutine /\ req \in [Req -> Goroutine]
      /\ UNCHANGED <<rows, born, served>> /\ asked \subseteq asked'
      /\ Active(p) => a \in Alias
      /\ pend \in [Alias -> Row \union {NoRow}]
  BY QuietTable, Shapes DEF ShareInv, RowInv, ServedInv, TermsInv
<1>2. ASSUME NEW g, req' = [req EXCEPT ![p] = g],
             g.pc \notin ServingSteps \union DeleteSteps
      PROVE  TermsInv'
  <2>1. GoroutineOK(p)'
    BY <1>1, <1>2 DEF GoroutineOK
  <2> QED BY <1>2, <2>1, TermsQuiet
<1>3. CASE Return(p)
  BY <1>2, <1>3 DEF Return, Idle
<1>4. CASE UploadBegin(p) \/ DownloadBegin(p)
  <2>1. PICK step, b, s, cmd :
           step \in {"addFile", "openFile"} /\ Begin(p, step, b, s, cmd)
    BY <1>4 DEF UploadBegin, DownloadBegin
  <2> DEFINE g == [Idle EXCEPT !.pc = step, !.alias = b, !.spelled = s, !.upload = cmd]
  <2>2. req' = [req EXCEPT ![p] = g] /\ g.pc = step
    BY <2>1 DEF Begin, Idle
  <2> HIDE DEF g
  <2> QED BY <1>2, <2>1, <2>2
<1>5. CASE DeleteBegin(p)
  <2>1. PICK b \in Alias, s \in Spelling :
          Begin(p, "deleteRow", b, s, NoUpload) /\ asked' = asked \union {rows[b].id}
    BY <1>5 DEF DeleteBegin
  <2> DEFINE g == [Idle EXCEPT !.pc = "deleteRow", !.alias = b, !.spelled = s,
                           !.upload = NoUpload]
  <2>2. req' = [req EXCEPT ![p] = g] /\ g.pc = "deleteRow" /\ g.alias = b
    BY <2>1 DEF Begin, Idle
  <2> HIDE DEF g
  <2>3. GoroutineOK(p)'
    BY <1>1, <2>1, <2>2 DEF GoroutineOK
  <2> QED BY <2>2, <2>3, TermsQuiet
<1>6. CASE OpenFile(p)
  <2>1. PICK x \in dir[a][req[p].spelled] :
          req' = [req EXCEPT ![p].pc = "readCounter", ![p].file = x]
    BY <1>6 DEF OpenFile
  <2> DEFINE g == [req[p] EXCEPT !.pc = "readCounter", !.file = x]
  <2>2. /\ req' = [req EXCEPT ![p] = g]
        /\ g.pc = "readCounter" /\ g.file = x /\ g.alias = a
    BY <1>1, <2>1 DEF Goroutine
  <2> HIDE DEF g
  <2>3. a \in Alias /\ req[p].spelled \in Spelling
    BY <1>1, <1>6, Shapes DEF OpenFile, At, Active
  <2>4. rows[a] # NoRow => rows[a].id = x
    BY <2>1, <2>3 DEF ServedInv, Holding
  <2>5. GoroutineOK(p)'
    BY <1>1, <2>2, <2>4 DEF GoroutineOK
  <2> QED BY <2>2, <2>5, TermsQuiet
<1>7. CASE ReadCounter(p)
  <2> DEFINE g == [req[p] EXCEPT !.pc = "writeCounter", !.left = rows[a].left - 1]
  <2>1. /\ req' = [req EXCEPT ![p] = g] /\ g.left = rows[a].left - 1
        /\ g.pc = "writeCounter" /\ g.file = f /\ g.alias = a
    BY <1>1, <1>7 DEF ReadCounter, Goroutine
  <2> HIDE DEF g
  <2>2. a \in Alias /\ rows[a] # NoRow /\ rows[a].id = f /\ req[p].pc = "readCounter"
    BY <1>1, <1>7 DEF ReadCounter, Uncut, At, Active, Downloadable, Visible, Live, GoroutineOK
  <2>3. rows[a].left + served[f] >= born[f].left
    BY <2>2 DEF TermsInv, RowOK
  <2>4. /\ rows[a].left \in Nat /\ served[f] \in Nat
        /\ born[f].left \in Nat
    BY <1>1, <2>2, TermsShapes DEF Row, TermsInv, RowOK
  <2>5. g.left + 1 + served[f] >= born[f].left
    BY <2>1, <2>3, <2>4
  <2>6. GoroutineOK(p)'
    BY <1>1, <2>1, <2>2, <2>5 DEF GoroutineOK
  <2> QED BY <2>1, <2>6, TermsQuiet
<1>8. CASE WriteCounter(p)
  <2>1. PICK step \in {"commitDownload", "deleteLastRow"} :
           /\ Goto(p, step)
           /\ step = "deleteLastRow" => ~(req[p].left > 0)
    BY <1>8 DEF WriteCounter
  <2> DEFINE g == [req[p] EXCEPT !.pc = step]
  <2>2. /\ req' = [req EXCEPT ![p] = g] /\ g.left = req[p].left
        /\ g.pc = step /\ g.file = f /\ g.alias = a
    BY <1>1, <2>1 DEF Goto, Goroutine
  <2> HIDE DEF g
  <2>3. a \in Alias /\ req[p].pc = "writeCounter"
    BY <1>1, <1>8 DEF WriteCounter, Uncut, At, Active
  <2>4. pend'[a] # NoRow => pend'[a] = [rows[a] EXCEPT !.left = req[p].left]
    BY <1>1, <1>8, <2>3 DEF WriteCounter, UpdateCounter
  <2>5. step = "deleteLastRow" => req[p].left = 0
    BY <1>1, <2>1, TermsShapes
  <2>6. GoroutineOK(p)'
    BY <1>1, <2>2, <2>3, <2>4, <2>5 DEF GoroutineOK
  <2> QED BY <2>2, <2>6, TermsQuiet
<1>9. CASE DeleteRow(p) \/ DeleteFolder(p)
  <2>1. PICK step \in {"deleteFile", "deleteLastFile", "commitDelete", "commitLast"} :
           /\ Goto(p, step)
           /\ step \in LastSteps => req[p].pc \in LastSteps
           /\ step \in DeleteSteps => req[p].pc \in DeleteSteps
    BY <1>9 DEF DeleteRow, DeleteFolder, Uncut, At
  <2> DEFINE g == [req[p] EXCEPT !.pc = step]
  <2>2. /\ req' = [req EXCEPT ![p] = g] /\ g.left = req[p].left
        /\ g.pc = step /\ g.file = f /\ g.alias = a
    BY <1>1, <2>1 DEF Goto, Goroutine
  <2> HIDE DEF g
  <2>3. GoroutineOK(p)'
    BY <1>1, <2>1, <2>2 DEF GoroutineOK
  <2> QED BY <2>2, <2>3, TermsQuiet
<1>10. CASE AddFile(p) \/ CreateFile(p) \/ CopyFile(p)
  <2>1. CASE Return(p)
    BY <1>3, <2>1
  <2>2. CASE ~Return(p)
    <3>1. PICK g : req' = [req EXCEPT ![p] = g] /\ g.pc \in UploadSteps
      <4>1. CASE AddFile(p)
        <5> DEFINE g == [req[p] EXCEPT !.pc = "createFile", !.file = nextId]
        <5>1. req' = [req EXCEPT ![p] = g] /\ g.pc = "createFile"
          BY <1>1, <4>1 DEF AddFile, Goroutine
        <5> HIDE DEF g
        <5> QED BY <5>1 DEF UploadSteps
      <4>2. ASSUME NEW step \in UploadSteps, Goto(p, step)
            PROVE  \E g : req' = [req EXCEPT ![p] = g] /\ g.pc \in UploadSteps
        <5> DEFINE g == [req[p] EXCEPT !.pc = step]
        <5>1. req' = [req EXCEPT ![p] = g] /\ g.pc = step
          BY <1>1, <4>2 DEF Goto, Goroutine
        <5> HIDE DEF g
        <5> QED BY <4>2, <5>1
      <4> QED BY <1>10, <2>2, <4>1, <4>2 DEF CreateFile, CopyFile, UploadSteps
    <3> QED BY <1>2, <3>1 DEF UploadSteps
  <2> QED BY <2>1, <2>2
<1>11. CASE Disconnect(p)
  <2> DEFINE g == [req[p] EXCEPT !.cut = TRUE]
  <2>1. /\ req' = [req EXCEPT ![p] = g] /\ g.cut /\ g.left = req[p].left
        /\ g.pc = req[p].pc /\ g.file = f /\ g.alias = a
    BY <1>1, <1>11 DEF Disconnect, Goroutine
  <2> HIDE DEF g
  <2>2. GoroutineOK(p)'
    BY <1>1, <2>1 DEF GoroutineOK, InTx
  <2> QED BY <2>1, <2>2, TermsQuiet
<1> QED BY <1>3, <1>4, <1>5, <1>6, <1>7, <1>8, <1>9, <1>10, <1>11
        DEF Quiet, RequestBegin, AddFileTaken, OpenFileMisses, ReadCounterMisses, DeleteRowMisses,
            CutReturn, DbError, StoreError

(* What a commit of p does to the rows and to the other goroutines. *)
LEMMA CommitTable ==
    ASSUME ShareInv, NEW p \in Req, Commit(p), Return(p),
           \E step \in CommitSteps : Uncut(p, step)
    PROVE  /\ InTx(p) /\ req[p].alias \in Alias
           /\ \A b \in Alias : rows'[b] = IF b = req[p].alias THEN pend[b] ELSE rows[b]
           /\ \A b \in Alias : lock'[b] = Worker => lock[b] = Worker /\ b # req[p].alias
           /\ now' = now
           /\ \A q \in Req : GoesOn(q)
<1>1. TypeInv /\ LockInv
  BY DEF ShareInv, RowInv
<1>2. InTx(p) /\ req[p].alias \in Alias /\ lock[req[p].alias] = p
  <2>1. InTx(p)
    BY DEF CommitSteps, Uncut, At, InTx, TxSteps, UploadSteps, RemovalSteps
  <2> QED BY <1>1, <2>1, Holds
<1>3. \A b \in Alias : lock[b] = p <=> b = req[p].alias
  BY <1>1, <1>2 DEF LockInv
<1>4. /\ \A b \in Alias : rows'[b] = IF b = req[p].alias THEN pend[b] ELSE rows[b]
      /\ \A b \in Alias : lock'[b] = Worker => lock[b] = Worker /\ b # req[p].alias
      /\ \A b \in Alias : b # req[p].alias => pend'[b] = pend[b]
      /\ now' = now
  BY <1>1, <1>3, Shapes DEF Commit, Release
<1>5. ASSUME NEW q \in Req PROVE GoesOn(q)
  <2>1. CASE q = p
    <3>1. req'[p].pc = "idle"
      BY <1>1, Shapes DEF Return, Idle
    <3> QED BY <2>1, <3>1 DEF GoesOn, GoroutineOK, ServingSteps, LastSteps, DeleteSteps
  <2>2. CASE q # p
    <3>1. req'[q] = req[q]
      BY <1>1, <2>2, Shapes DEF Return
    <3>2. InTx(q) => req[q].alias \in Alias /\ req[q].alias # req[p].alias
      BY <1>1, <1>3, <2>2, Holds
    <3> QED BY <1>4, <3>1, <3>2 DEF GoesOn
  <2> QED BY <2>1, <2>2
<1> QED BY <1>2, <1>4, <1>5

LEMMA TermsCommitted ==
    ASSUME ShareInv, ServedInv, TermsInv, TypeInv', NEW p \in Req,
           CommitUpload(p) \/ CommitDownload(p) \/ CommitDelete(p)
    PROVE  TermsInv'
<1> DEFINE a == req[p].alias
           f == req[p].file
<1>1. /\ TypeInv /\ LockInv /\ PendInv /\ BlobInv
      /\ GoroutineOK(p) /\ DownloadOK(p) /\ HolderOK(p)
  BY DEF ShareInv, RowInv, ServedInv, TermsInv, PendInv
<1>2. Commit(p) /\ Return(p) /\ asked' = asked /\ \E step \in CommitSteps : Uncut(p, step)
  BY DEF CommitUpload, CommitDownload, CommitDelete, CommitSteps, Uncut, At
<1>3. /\ InTx(p) /\ a \in Alias
      /\ \A b \in Alias : rows'[b] = IF b = a THEN pend[b] ELSE rows[b]
      /\ \A b \in Alias : lock'[b] = Worker => lock[b] = Worker /\ b # a
      /\ now' = now /\ now <= now'
      /\ \A q \in Req : GoesOn(q)
  <2>1. \A t \in Nat : t <= t
    OBVIOUS
  <2> QED BY <1>1, <1>2, <2>1, CommitTable, TermsShapes
<1>4. \A b \in Alias : b # a => SameRow(b)
  BY <1>3 DEF SameRow
<1>5. CASE CommitUpload(p)
  <2>1. /\ pend[a] # NoRow /\ pend[a].id = f
        /\ Uploading(p) /\ OnUpload(p)
    BY <1>1, <1>3, <1>5 DEF CommitUpload, Uncut, At, HolderOK, UploadSteps, Uploading, OnUpload
  <2>2. f \in FileId /\ f \notin Published /\ ~Settled(a)
    BY <1>1, <2>1, Shapes DEF BlobInv, FreshId, Settled
  <2>3. served' = served /\ born' = [born EXCEPT ![f] = pend[a]]
    BY <1>5 DEF CommitUpload, Publish
  <2>4. \A g \in Published : g \in Published' /\ born'[g] = born[g]
    BY <1>1, <2>2, <2>3, Shapes DEF Published
  <2>5. rows'[a].id \notin Published
    BY <1>3, <2>1, <2>2
  <2>6. /\ born'[f] = pend[a] /\ f \in Published' /\ rows'[a] = pend[a]
        /\ pend[a].left \in Nat /\ served[f] \in Nat
    BY <1>1, <1>3, <2>1, <2>2, <2>3, Shapes, TermsShapes DEF Published, Row
  <2> HIDE DEF a, f
  <2>7. ASSUME NEW b \in Alias PROVE RowOK(b)'
    <3>1. CASE b = a
      <4>1. pend[a].left + served[f] >= pend[a].left
        BY <2>6
      <4> QED BY <2>1, <2>3, <2>6, <3>1, <4>1 DEF RowOK
    <3>2. CASE b # a
      <4>1. rows'[b] = rows[b]
        BY <1>3, <3>2
      <4> QED BY <2>3, <2>4, <4>1 DEF TermsInv, RowOK
    <3> QED BY <3>1, <3>2
  <2>8. \A g \in FileId : served[g] <= served'[g]
    BY <1>1, <2>3, TermsShapes
  <2>9. \A b \in Alias : \/ SameRow(b)
                         \/ b = a /\ ~Settled(b) /\ rows'[b].id \notin Published
    BY <1>4, <2>2, <2>5
  <2>10. \A b \in Alias : lock'[b] = Worker =>
           SameRow(b) /\ (rows[b] # NoRow => lock[b] = Worker \/ rows[b].exp < now)
    BY <1>3, <1>4
  <2> QED BY <1>1, <1>2, <1>3, <2>4, <2>7, <2>8, <2>9, <2>10, TermsKept
<1>6. CASE ~CommitUpload(p)
  <2>1. born' = born /\ Published' = Published
    BY <1>6 DEF CommitDownload, CommitDelete, Published
  <2>2. \A g \in FileId : served[g] <= served'[g]
    <3>1. CASE CommitDelete(p)
      BY <1>1, <3>1, TermsShapes DEF CommitDelete
    <3>2. CASE CommitDownload(p)
      <4>1. \A n \in Nat : n <= n /\ n <= n + 1
        OBVIOUS
      <4> QED BY <1>1, <3>2, <4>1, TermsShapes
              DEF CommitDownload, Serve, TypeInv, TypeOK, ServiceTypeOK
    <3> QED BY <1>6, <3>1, <3>2
  <2>3. ASSUME rows'[a] # NoRow
        PROVE  /\ CommitDownload(p) /\ req[p].pc = "commitDownload"
               /\ rows[a] # NoRow /\ rows[a].id = f
               /\ rows'[a] = [rows[a] EXCEPT !.left = req[p].left]
    <3>1. pend[a] # NoRow /\ rows'[a] = pend[a]
      BY <1>3, <2>3
    <3>2. req[p].pc = "commitDownload"
      BY <1>1, <1>3, <1>6, <3>1 DEF CommitDownload, CommitDelete, Uncut, At, HolderOK, RemovalSteps
    <3>3. CommitDownload(p)
      BY <1>6, <3>2 DEF CommitDelete, Uncut, At
    <3> QED BY <1>1, <1>3, <3>1, <3>2, <3>3 DEF HolderOK, GoroutineOK, ServingSteps
  <2>4. SameRow(a)
    BY <1>1, <1>3, <2>3, TermsShapes DEF SameRow, Row
  <2>5. ASSUME NEW b \in Alias PROVE RowOK(b)'
    <3>1. CASE b # a
      <4>1. rows'[b] = rows[b] /\ RowOK(b)
        BY <1>3, <3>1 DEF TermsInv
      <4>2. ASSUME rows[b] # NoRow
            PROVE  rows[b].left + served'[rows[b].id] >= born[rows[b].id].left
        <5>1. rows[b].id \in Published /\ rows[b] \in Row
          BY <1>1, <4>1, <4>2, TermsShapes DEF RowOK
        <5>2. /\ rows[b].left \in Nat /\ born[rows[b].id].left \in Nat
              /\ served[rows[b].id] \in Nat /\ served'[rows[b].id] \in Nat
          BY <1>1, <5>1, TermsShapes DEF Row, TypeInv, TypeOK, ServiceTypeOK
        <5>3. served[rows[b].id] <= served'[rows[b].id]
          BY <1>1, <2>2, <5>1, TermsShapes
        <5> QED BY <4>1, <4>2, <5>2, <5>3 DEF RowOK
      <4> QED BY <2>1, <4>1, <4>2 DEF RowOK
    <3>2. CASE b = a /\ rows'[b] # NoRow
      <4>1. /\ CommitDownload(p) /\ req[p].pc = "commitDownload"
            /\ rows[b] # NoRow /\ rows[b].id = f /\ rows[b] \in Row
            /\ rows'[b] = [rows[b] EXCEPT !.left = req[p].left]
        BY <1>1, <2>3, <3>2, TermsShapes
      <4>2. /\ rows'[b].id = f /\ rows'[b].left = req[p].left
            /\ rows'[b].owner = rows[b].owner /\ rows'[b].exp = rows[b].exp
        BY <4>1 DEF Row
      <4>3. f \in Published /\ f \in FileId /\ RowOK(b)
        BY <1>1, <4>1, TermsShapes DEF TermsInv, RowOK
      <4>4. req[p].left + 1 + served[f] >= born[f].left
        BY <1>1, <4>1 DEF GoroutineOK, ServingSteps
      <4>5. served'[f] = served[f] + 1
        BY <1>1, <4>1, <4>3 DEF CommitDownload, Serve, TypeInv, TypeOK, ServiceTypeOK
      <4>6. req[p].left \in Nat /\ served[f] \in Nat /\ born[f].left \in Nat
        BY <1>1, <4>3, TermsShapes DEF Row
      <4>7. req[p].left + served'[f] >= born[f].left
        BY <4>4, <4>5, <4>6
      <4> HIDE DEF f
      <4> QED BY <2>1, <4>1, <4>2, <4>3, <4>7 DEF RowOK
    <3>3. CASE rows'[b] = NoRow
      BY <3>3 DEF RowOK
    <3> QED BY <3>1, <3>2, <3>3
  <2>6. /\ \A b \in Alias : SameRow(b)
        /\ \A b \in Alias : lock'[b] = Worker =>
             SameRow(b) /\ (rows[b] # NoRow => lock[b] = Worker \/ rows[b].exp < now)
    BY <1>3, <1>4, <2>4
  <2> QED BY <1>1, <1>2, <1>3, <2>1, <2>2, <2>5, <2>6, TermsKept
<1> QED BY <1>5, <1>6

LEMMA TermsWorker ==
    ASSUME ShareInv, ServedInv, TermsInv, TypeInv', UNCHANGED serviceVars,
           WorkerStep \/ RemoveExpiredFails \/ WorkerDbError
    PROVE  TermsInv'
<1>1. TypeInv /\ LockInv /\ PendInv
  BY DEF ShareInv, RowInv
<1>2. /\ UNCHANGED <<born, served, req>> /\ asked' = asked /\ Published' = Published
      /\ \A f \in FileId : served[f] <= served'[f]
  BY <1>1, TermsShapes DEF serviceVars, Published
<1>3. now' = now /\ now <= now'
  <2>1. now' = now
    BY DEF WorkerStep, CollectExpired, DeleteExpiredFilesTx, RemoveExpired, CommitExpired,
           RemoveExpiredFails, WorkerDbError, Commit, Rollback, Release, tableVars
  <2> QED BY <1>1, <2>1, TermsShapes
<1>4. \A a \in Alias : rows'[a] = rows[a] \/ (rows'[a] = NoRow /\ lock[a] = Worker)
  <2>1. CASE CommitExpired
    BY <1>1, <2>1 DEF CommitExpired, Commit, PendInv, WorkerHolds
  <2>2. CASE ~CommitExpired
    BY <2>2 DEF WorkerStep, CollectExpired, DeleteExpiredFilesTx, RemoveExpired,
                RemoveExpiredFails, WorkerDbError, Rollback, tableVars
  <2> QED BY <2>1, <2>2
<1>5. /\ \A a \in Alias : lock'[a] = Worker =>
            (rows[a] # NoRow => lock[a] = Worker \/ rows[a].exp < now)
      /\ \A a \in Alias : lock[a] \in Req => pend'[a] = pend[a]
  <2>1. CASE CollectExpired
    <3>1. PICK batch \in SUBSET Expired :
             /\ \A a \in batch : Unlocked(a)
             /\ lock' = [a \in Alias |-> IF a \in batch THEN Worker ELSE lock[a]]
             /\ pend' = [a \in Alias |-> IF a \in batch THEN NoRow ELSE pend[a]]
      BY <2>1 DEF CollectExpired, DeleteExpiredFilesTx
    <3> QED BY <1>1, <3>1, Shapes DEF Expired, Unlocked
  <2>2. CASE RemoveExpired
    BY <2>2 DEF RemoveExpired, tableVars
  <2>3. CASE CommitExpired \/ RemoveExpiredFails \/ WorkerDbError
    BY <1>1, <2>3, Shapes
       DEF CommitExpired, RemoveExpiredFails, WorkerDbError, Commit, Rollback, Release
  <2> QED BY <2>1, <2>2, <2>3 DEF WorkerStep
<1>6. \A a \in Alias : SameRow(a) /\ RowOK(a)'
  BY <1>2, <1>4 DEF SameRow, TermsInv, RowOK
<1>7. ASSUME NEW q \in Req PROVE GoesOn(q)
  <2>1. InTx(q) => req[q].alias \in Alias /\ lock[req[q].alias] = q
    BY <1>1, Holds
  <2> QED BY <1>1, <1>2, <1>4, <1>5, <2>1, Shapes DEF GoesOn
<1> QED BY <1>1, <1>2, <1>3, <1>5, <1>6, <1>7, TermsKept

LEMMA TermsNext ==
    "lost" \notin Faults /\ ShareInv /\ ServedInv /\ TermsInv /\ [Next]_vars
        => TermsInv'
<1> SUFFICES ASSUME "lost" \notin Faults, ShareInv, ServedInv, TermsInv, [Next]_vars
             PROVE  TermsInv'
  OBVIOUS
<1>0. TypeInv /\ TypeInv'
  BY NextTyped DEF ShareInv, RowInv
<1>1. ASSUME NEW p \in Req, RequestNext(p) PROVE TermsInv'
  <2>1. CASE CommitUpload(p) \/ CommitDownload(p) \/ CommitDelete(p)
    BY <1>0, <2>1, TermsCommitted
  <2>2. CASE Quiet(p)
    BY <1>0, <2>2, TermsUncommitted
  <2> QED BY <1>1, <2>1, <2>2 DEF RequestNext, RequestStep, Quiet
<1>2. ASSUME NEW p \in Req, RequestFault(p) PROVE TermsInv'
  BY <1>0, <1>2, TermsUncommitted DEF RequestFault, Fault, Quiet
<1>3. CASE WorkerNext \/ (WorkerFault /\ UNCHANGED serviceVars)
  BY <1>0, <1>3, TermsWorker DEF WorkerNext, WorkerFault
<1>4. \A f \in FileId : served[f] <= served[f]
  BY <1>0, TermsShapes
<1>5. CASE Fault("crash") /\ Crash
  <2>1. /\ UNCHANGED <<rows, now, born, served, asked>>
        /\ \A a \in Alias : lock'[a] # Worker
        /\ \A q \in Req : req'[q].pc = "idle"
    BY <1>0, <1>5, Shapes DEF Crash, RollbackAll, Idle
  <2>2. /\ Published' = Published
        /\ \A a \in Alias : RowOK(a)' /\ SameRow(a)
    BY <2>1 DEF Published, TermsInv, RowOK, SameRow
  <2>3. \A q \in Req : GoesOn(q)
    BY <2>1 DEF GoesOn, GoroutineOK, ServingSteps, LastSteps, DeleteSteps
  <2>4. now <= now'
    BY <1>0, <2>1, TermsShapes
  <2> QED BY <1>0, <1>4, <2>1, <2>2, <2>3, <2>4, TermsKept
<1>6. CASE UNCHANGED <<rows, pend, lock, serviceVars>> /\ now' \in {now, now + 1}
  <2>1. /\ Published' = Published
        /\ \A a \in Alias : RowOK(a)' /\ SameRow(a)
        /\ \A q \in Req : GoesOn(q)
    BY <1>6 DEF Published, TermsInv, RowOK, SameRow, serviceVars, GoesOn
  <2>2. now <= now'
    BY <1>0, <1>6, TermsShapes
  <2> QED BY <1>0, <1>4, <1>6, <2>1, <2>2, TermsKept DEF serviceVars
<1> QED BY <1>1, <1>2, <1>3, <1>5, <1>6 DEF Next, Rest, ClockNext, Tick, vars, tableVars

LEMMA TermsHeld ==
    ASSUME ~AliasReuse, "lost" \notin Faults
    PROVE  Spec => [](ShareInv /\ ServedInv /\ TermsInv)
<1>1. Init => ShareInv /\ ServedInv /\ TermsInv
  BY InitTyped, LockInit, PendInit, BlobInit, ServedInit, TermsInit DEF RowInv, ShareInv
<1>2. ShareInv /\ ServedInv /\ TermsInv /\ [Next]_vars => (ShareInv /\ ServedInv /\ TermsInv)'
  BY NextTyped, LockNext, PendNext, BlobNext, ServedNext, TermsNext DEF RowInv, ShareInv
<1> QED BY <1>1, <1>2, PTL DEF Spec

(* Unless an alias is drawn twice or the answer to a commit is lost, the   *)
(* counter of a file and what has been handed out of it cover what its     *)
(* uploader promised, however stale the value of an UPDATE (files.go:196). *)
THEOREM NothingChargedInVain ==
    ASSUME ~AliasReuse, "lost" \notin Faults
    PROVE  Spec => []NoChargeWithoutService
<1>1. TermsInv => NoChargeWithoutService
  BY DEF TermsInv, RowOK, NoChargeWithoutService
<1> QED BY <1>1, TermsHeld, PTL

(***************************************************************************)
(* The service implements FileSharing: every commit is one of its steps,   *)
(* and everything else a request or the worker does changes nothing there. *)
(***************************************************************************)

StatusOf(f) ==
    IF f \notin Published THEN "unborn" ELSE IF Shared(f) THEN "shared" ELSE "gone"

LEMMA StatusIs == \A f \in FileId : Status[f] = StatusOf(f)
BY DEF Status, StatusOf

(* Rows that keep their ids change no status. *)
LEMMA StatusKept ==
    ASSUME born' = born, \A a \in Alias : rows'[a] = NoRow <=> rows[a] = NoRow,
           \A a \in Alias : rows[a] # NoRow => rows'[a].id = rows[a].id
    PROVE  Status' = Status
<1>1. Published' = Published
  BY DEF Published
<1>2. \A f \in FileId : Shared(f)' <=> Shared(f)
  BY DEF Shared
<1> QED BY <1>1, <1>2 DEF Status

IdsOf(aliases) == {f \in FileId : \E a \in aliases : rows[a] # NoRow /\ rows[a].id = f}

(* Rows that are forgotten make their files gone, and no others. *)
LEMMA StatusForgotten ==
    ASSUME TypeInv, TermsInv, born' = born, NEW aliases \in SUBSET Alias,
           \A a \in Alias : rows'[a] = IF a \in aliases THEN NoRow ELSE rows[a]
    PROVE  /\ Sharing!Gone(IdsOf(aliases))
           /\ \A f \in IdsOf(aliases) : f \in FileId /\ Status[f] = "shared"
<1>1. Published' = Published
  BY DEF Published
<1>2. ASSUME NEW f \in IdsOf(aliases)
      PROVE  f \in FileId /\ f \in Published /\ Shared(f) /\ ~Shared(f)'
  <2>1. PICK a \in aliases : rows[a] # NoRow /\ rows[a].id = f
    BY DEF IdsOf
  <2>2. \A b \in Alias : rows[b] # NoRow /\ rows[b].id = f => b = a
    BY <2>1 DEF TermsInv, OneRowPerFile
  <2>3. ~Shared(f)'
    BY <2>1, <2>2 DEF Shared
  <2> QED BY <2>1, <2>3 DEF IdsOf, TermsInv, RowOK, Shared
<1>3. ASSUME NEW f \in FileId, f \notin IdsOf(aliases) PROVE Shared(f)' <=> Shared(f)
  BY <1>3 DEF Shared, IdsOf
<1>4. \A f \in FileId : Status'[f] = IF f \in IdsOf(aliases) THEN "gone" ELSE Status[f]
  BY <1>1, <1>2, <1>3 DEF Status
<1>5. Status' = [f \in FileId |-> IF f \in IdsOf(aliases) THEN "gone" ELSE Status[f]]
  <2>1. Status' = [f \in FileId |-> Status'[f]]
    BY DEF Status
  <2> QED BY <1>4, <2>1
<1>6. \A f \in IdsOf(aliases) : f \in FileId /\ Status[f] = "shared"
  BY <1>2 DEF Status
<1> QED BY <1>5, <1>6 DEF Sharing!Gone, Sharing!FileId, FileId

LEMMA InitRefines == Init => Sharing!Init
<1> SUFFICES ASSUME Init PROVE Sharing!Init
  OBVIOUS
<1>1. Published = {}
  BY DEF Init, ServiceInit, Published
<1>2. Status = [f \in FileId |-> "unborn"]
  BY <1>1 DEF Status
<1> QED BY <1>2
        DEF Init, ServiceInit, TableInit, Sharing!Init, Sharing!FileId, FileId

(* What a request does before it commits: at most it asks for a deletion. *)
LEMMA QuietRefines ==
    ASSUME TypeInv, TermsInv, NEW p \in Req, Quiet(p)
    PROVE  [Sharing!Next]_(Sharing!vars)
<1>1. UNCHANGED <<rows, now, born, served>>
  BY QuietTable
<1>2. Status' = Status
  BY <1>1, StatusKept
<1>3. CASE DeleteBegin(p)
  <2>1. PICK a \in Alias, u \in User :
           /\ Visible(a) /\ CheckAccess(rows[a], u, RolesOf[u])
           /\ asked' = asked \union {rows[a].id}
    BY <1>3 DEF DeleteBegin
  <2> DEFINE f == rows[a].id
  <2>2. /\ rows[a] # NoRow /\ rows[a].exp > now /\ rows[a] \in Row
        /\ f \in Published /\ f \in FileId
        /\ rows[a].owner = born[f].owner /\ rows[a].exp = born[f].exp
    BY <2>1, TermsShapes DEF Visible, Live, TermsInv, RowOK
  <2>3. Status[f] = "shared"
    BY <2>2 DEF Status, Shared
  <2>4. CheckAccess(born[f], u, RolesOf[u])
    BY <2>1, <2>2 DEF CheckAccess, CheckOwner
  <2> HIDE DEF f
  <2>5. Sharing!Ask(f)
    BY <1>1, <1>2, <2>1, <2>2, <2>3, <2>4
       DEF f, Sharing!Ask, Sharing!Shared, Sharing!CheckAccess, Sharing!CheckOwner,
           Sharing!HasRole, CheckAccess, CheckOwner, HasRole
  <2> QED BY <2>2, <2>5 DEF Sharing!Next, Sharing!FileId, FileId
<1>4. CASE ~DeleteBegin(p)
  <2>1. asked' = asked
    BY <1>4 DEF Quiet, RequestBegin, UploadBegin, DownloadBegin, AddFile, AddFileTaken, CreateFile,
                CopyFile, OpenFile, OpenFileMisses, ReadCounter, ReadCounterMisses, WriteCounter,
                DeleteRow, DeleteRowMisses, DeleteFolder, CutReturn, Disconnect, DbError, StoreError
  <2> QED BY <1>1, <1>2, <2>1 DEF Sharing!vars
<1> QED BY <1>3, <1>4

(* The four commits of requests. *)
LEMMA CommitRefines ==
    ASSUME ShareInv, ServedInv, TermsInv, TypeInv', NEW p \in Req,
           CommitUpload(p) \/ CommitDownload(p) \/ CommitDelete(p)
    PROVE  [Sharing!Next]_(Sharing!vars)
<1> DEFINE a == req[p].alias
           f == req[p].file
<1> USE DEF Sharing!FileId, FileId
<1>1. /\ TypeInv /\ LockInv /\ PendInv /\ BlobInv
      /\ GoroutineOK(p) /\ DownloadOK(p) /\ HolderOK(p)
  BY DEF ShareInv, RowInv, ServedInv, TermsInv, PendInv
<1>2. Commit(p) /\ Return(p) /\ asked' = asked /\ \E step \in CommitSteps : Uncut(p, step)
  BY DEF CommitUpload, CommitDownload, CommitDelete, CommitSteps, Uncut, At
<1>3. /\ InTx(p) /\ a \in Alias /\ now' = now
      /\ \A b \in Alias : rows'[b] = IF b = a THEN pend[b] ELSE rows[b]
  BY <1>1, <1>2, CommitTable
<1>4. CASE CommitUpload(p)
  <2>1. /\ rows[a] = NoRow /\ pend[a] # NoRow /\ pend[a].id = f
        /\ Uploading(p) /\ pend[a] \in Row
    BY <1>1, <1>3, <1>4, Shapes DEF CommitUpload, Uncut, At, HolderOK, UploadSteps, Uploading
  <2>2. f \in FileId /\ f \notin Published
    BY <1>1, <2>1, Shapes DEF BlobInv, FreshId
  <2>3. served' = served /\ born' = [born EXCEPT ![f] = pend[a]] /\ rows'[a] = pend[a]
    BY <1>3, <1>4 DEF CommitUpload, Publish
  <2> HIDE DEF a, f
  <2>4. Published' = Published \union {f} /\ born'[f] = pend[a]
    BY <1>1, <2>1, <2>2, <2>3, Shapes DEF Published
  <2>5. \A g \in FileId : Shared(g)' <=> Shared(g) \/ g = f
    <3>1. ASSUME NEW g \in FileId, NEW b \in Alias
          PROVE  rows'[b] # NoRow /\ rows'[b].id = g
                    <=> (rows[b] # NoRow /\ rows[b].id = g) \/ (b = a /\ g = f)
      BY <1>3, <2>1, <2>3
    <3> QED BY <1>3, <3>1 DEF Shared
  <2>6. Status' = [Status EXCEPT ![f] = "shared"]
    <3>1. \A g \in FileId : Status'[g] = IF g = f THEN "shared" ELSE Status[g]
      BY <2>2, <2>4, <2>5 DEF Status
    <3>2. Status' = [g \in FileId |-> Status'[g]] /\ Status = [g \in FileId |-> Status[g]]
      BY DEF Status
    <3> QED BY <2>2, <3>1, <3>2
  <2>7. Status[f] = "unborn"
    BY <2>2 DEF Status
  <2>8. born' = [born EXCEPT ![f] = born'[f]] /\ born'[f] \in {row \in Row : row.id = f}
    BY <2>1, <2>3, <2>4
  <2>9. Sharing!Publish(f)
    BY <1>2, <1>3, <2>3, <2>6, <2>7, <2>8 DEF Sharing!Publish, Sharing!Row, Row
  <2> QED BY <2>2, <2>9 DEF Sharing!Next
<1>5. CASE CommitDownload(p)
  <2>1. /\ f \in Published /\ f \in FileId /\ served[f] \in Nat /\ born[f].left \in Nat
        /\ req[p].left \in Nat
    BY <1>1, <1>5, TermsShapes
       DEF CommitDownload, Uncut, At, ServingSteps, DownloadOK, Good, Row
  <2>2. born' = born /\ served' = [served EXCEPT ![f] = @ + 1] /\ served'[f] = served[f] + 1
    BY <1>1, <1>5, <2>1 DEF CommitDownload, Serve, TypeInv, TypeOK, ServiceTypeOK
  <2>3. Status[f] # "unborn"
    BY <2>1 DEF Status
  <2>4. ASSUME Status' = Status PROVE Sharing!Next
    <3>1. Sharing!Serve(f)
      BY <1>2, <1>3, <2>2, <2>3, <2>4 DEF Sharing!Serve
    <3> QED BY <2>1, <3>1 DEF Sharing!Next
  <2>5. CASE rows[a] = NoRow /\ rows'[a] = NoRow
    <3>1. Status' = Status
      BY <1>3, <2>2, <2>5, StatusKept
    <3> QED BY <2>4, <3>1
  <2>6. CASE req[p].pc = "commitDownload" /\ rows[a] # NoRow
    <3>1. /\ pend[a] # NoRow /\ rows[a] \in Row
          /\ pend[a] = [rows[a] EXCEPT !.left = req[p].left]
      BY <1>1, <1>3, <2>6, TermsShapes DEF HolderOK, GoroutineOK
    <3>2. pend[a].id = rows[a].id
      BY <3>1 DEF Row
    <3>3. Status' = Status
      BY <1>3, <2>2, <2>6, <3>1, <3>2, StatusKept
    <3> QED BY <2>4, <3>3
  <2>7. CASE req[p].pc = "commitLast" /\ rows[a] # NoRow
    <3>1. /\ pend[a] = NoRow /\ rows[a].id = f /\ req[p].left = 0
          /\ req[p].left + 1 + served[f] >= born[f].left
      BY <1>1, <1>3, <2>7
         DEF HolderOK, RemovalSteps, GoroutineOK, ServingSteps, LastSteps
    <3>2. IdsOf({a}) = {f}
      BY <2>1, <2>7, <3>1 DEF IdsOf
    <3>3. \A b \in Alias : rows'[b] = IF b \in {a} THEN NoRow ELSE rows[b]
      BY <1>3, <3>1
    <3>4. Sharing!Gone({f}) /\ Status[f] = "shared"
      BY <1>1, <1>3, <2>2, <3>2, <3>3, StatusForgotten
    <3>5. served'[f] >= born[f].left
      BY <2>1, <2>2, <3>1
    <3>6. Sharing!ServeLast(f)
      BY <1>2, <1>3, <2>2, <3>4, <3>5 DEF Sharing!ServeLast, Sharing!Shared
    <3> QED BY <2>1, <3>6 DEF Sharing!Next
  <2>8. rows[a] = NoRow => rows'[a] = NoRow
    BY <1>1, <1>3, <1>5 DEF CommitDownload, Uncut, At, HolderOK, RemovalSteps
  <2> QED BY <1>5, <2>5, <2>6, <2>7, <2>8 DEF CommitDownload, Uncut, At
<1>6. CASE CommitDelete(p)
  <2>1. /\ UNCHANGED <<born, served>> /\ pend[a] = NoRow
        /\ rows[a] # NoRow => rows[a].id \in asked
    BY <1>1, <1>3, <1>6
       DEF CommitDelete, Uncut, At, HolderOK, RemovalSteps, GoroutineOK, DeleteSteps
  <2>2. \A b \in Alias : rows'[b] = IF b \in {a} THEN NoRow ELSE rows[b]
    BY <1>3, <2>1
  <2>3. /\ Sharing!Gone(IdsOf({a}))
        /\ \A g \in IdsOf({a}) : g \in FileId /\ Status[g] = "shared"
    BY <1>1, <1>3, <2>1, <2>2, StatusForgotten
  <2>4. CASE rows[a] = NoRow
    <3>1. Status' = Status
      BY <1>3, <2>1, <2>4, StatusKept
    <3> QED BY <1>2, <1>3, <2>1, <3>1 DEF Sharing!vars
  <2>5. CASE rows[a] # NoRow
    <3> DEFINE g == rows[a].id
    <3>1. g \in FileId /\ g \in asked
      BY <1>1, <1>3, <2>1, <2>5, TermsShapes DEF Row
    <3>2. IdsOf({a}) = {g}
      BY <2>5, <3>1 DEF IdsOf
    <3> HIDE DEF g
    <3>3. Sharing!Withdraw(g)
      BY <1>2, <1>3, <2>1, <2>3, <3>1, <3>2 DEF Sharing!Withdraw, Sharing!Shared
    <3> QED BY <3>1, <3>3 DEF Sharing!Next
  <2> QED BY <2>4, <2>5
<1> QED BY <1>4, <1>5, <1>6

LEMMA WorkerRefines ==
    ASSUME ShareInv, TermsInv, UNCHANGED serviceVars,
           WorkerStep \/ RemoveExpiredFails \/ WorkerDbError
    PROVE  [Sharing!Next]_(Sharing!vars)
<1>1. TypeInv /\ LockInv /\ PendInv
  BY DEF ShareInv, RowInv
<1>2. now' = now /\ UNCHANGED <<born, served, asked>>
  BY DEF WorkerStep, CollectExpired, DeleteExpiredFilesTx, RemoveExpired, CommitExpired,
         RemoveExpiredFails, WorkerDbError, Commit, Rollback, Release, tableVars, serviceVars
<1>3. CASE CommitExpired
  <2> DEFINE batch == {a \in Alias : lock[a] = Worker}
             files == IdsOf(batch)
  <2>1. \A a \in Alias : rows'[a] = IF a \in batch THEN NoRow ELSE rows[a]
    BY <1>1, <1>3 DEF CommitExpired, Commit, PendInv, WorkerHolds
  <2>2. batch \in SUBSET Alias
    OBVIOUS
  <2>3. /\ Sharing!Gone(files)
        /\ \A f \in files : f \in FileId /\ Status[f] = "shared"
    <3> HIDE DEF batch
    <3> QED BY <1>1, <1>2, <2>1, <2>2, StatusForgotten
  <2>4. \A f \in files : born[f].exp < now
    BY DEF IdsOf, TermsInv, RowOK, WorkerExpired
  <2>5. CASE files = {}
    <3>1. \A a \in Alias : rows'[a] = rows[a]
      BY <1>1, <2>1, <2>5, TermsShapes DEF IdsOf, Row
    <3>2. Status' = Status
      BY <1>2, <3>1, StatusKept
    <3> QED BY <1>2, <3>2 DEF Sharing!vars
  <2>6. CASE files # {}
    <3> HIDE DEF files
    <3>1. files \in SUBSET {f \in FileId : Status[f] = "shared" /\ born[f].exp < now}
      BY <2>3, <2>4
    <3>2. Sharing!Expire
      BY <1>2, <2>3, <2>6, <3>1
         DEF Sharing!Expire, Sharing!Shared, Sharing!FileId, FileId
    <3> QED BY <3>2 DEF Sharing!Next
  <2> QED BY <2>5, <2>6
<1>4. CASE ~CommitExpired
  <2>1. rows' = rows
    BY <1>4 DEF WorkerStep, CollectExpired, DeleteExpiredFilesTx, RemoveExpired,
                RemoveExpiredFails, WorkerDbError, Rollback, tableVars
  <2>2. Status' = Status
    BY <1>2, <2>1, StatusKept
  <2> QED BY <1>2, <2>2 DEF Sharing!vars
<1> QED BY <1>3, <1>4

LEMMA NextRefines ==
    ASSUME "lost" \notin Faults, ShareInv, ServedInv, TermsInv, [Next]_vars
    PROVE  [Sharing!Next]_(Sharing!vars)
<1>0. TypeInv /\ TypeInv'
  BY NextTyped DEF ShareInv, RowInv
<1>1. ASSUME NEW p \in Req, RequestNext(p) PROVE [Sharing!Next]_(Sharing!vars)
  <2>1. CASE CommitUpload(p) \/ CommitDownload(p) \/ CommitDelete(p)
    BY <1>0, <2>1, CommitRefines
  <2>2. CASE Quiet(p)
    BY <1>0, <2>2, QuietRefines
  <2> QED BY <1>1, <2>1, <2>2 DEF RequestNext, RequestStep, Quiet
<1>2. ASSUME NEW p \in Req, RequestFault(p) PROVE [Sharing!Next]_(Sharing!vars)
  BY <1>0, <1>2, QuietRefines DEF RequestFault, Fault, Quiet
<1>3. CASE WorkerNext \/ (WorkerFault /\ UNCHANGED serviceVars)
  BY <1>3, WorkerRefines DEF WorkerNext, WorkerFault
<1>4. CASE UNCHANGED <<rows, now, born, served, asked>>
  <2>1. Status' = Status
    BY <1>4, StatusKept
  <2> QED BY <1>4, <2>1 DEF Sharing!vars
<1>5. CASE ClockNext
  <2>1. UNCHANGED <<rows, born, served, asked>> /\ now' = now + 1
    BY <1>5 DEF ClockNext, Tick, serviceVars
  <2>2. Status' = Status
    BY <2>1, StatusKept
  <2> QED BY <2>1, <2>2 DEF Sharing!Tick, Sharing!Next
<1>6. (Fault("crash") /\ Crash) \/ Rest \/ UNCHANGED vars
        => UNCHANGED <<rows, now, born, served, asked>>
  BY DEF Crash, RollbackAll, Rest, vars, tableVars, serviceVars
<1> QED BY <1>1, <1>2, <1>3, <1>4, <1>5, <1>6 DEF Next

(* Unless an alias is drawn twice or the answer to a commit is lost, the   *)
(* service is one where files are published once, under terms that never   *)
(* change, and go only because they are used up, withdrawn by somebody who *)
(* may, or expired.                                                        *)
THEOREM ServiceImplementsSharing ==
    ASSUME ~AliasReuse, "lost" \notin Faults
    PROVE  Spec => Implements
<1>1. ShareInv /\ ServedInv /\ TermsInv /\ [Next]_vars => [Sharing!Next]_(Sharing!vars)
  BY NextRefines
<1> QED BY <1>1, InitRefines, TermsHeld, PTL DEF Spec, Implements, Sharing!Spec
=============================================================================
