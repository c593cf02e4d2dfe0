-------------------------- MODULE ExpireShareProofs --------------------------
(***************************************************************************)
(* Proofs about ExpireShare, for every set of requests, aliases and users, *)
(* every quota, every bound and every combination of faults.               *)
(***************************************************************************)
EXTENDS ExpireShare, FiniteSetTheorems, TLAPS

(***************************************************************************)
(* Typing.  That the ids of rows stay within FileId needs the bound that   *)
(* UploadBegin keeps: every id given out or claimed by a pending INSERT.   *)
(***************************************************************************)
Adding == {p \in Req : At(p, "addFile")}

IdsBounded == IdsClaimed <= MaxId

(* What a goroutine's local variables hold while it works. *)
FileSteps == {"createFile", "copyFile", "commitUpload",
              "readCounter", "writeCounter", "commitDownload",
              "deleteLastRow", "deleteLastFile", "commitLast"}

LocalsOK(p) ==
    /\ Active(p) => req[p].alias \in Alias /\ req[p].spelled \in Spelling
    /\ At(p, "addFile") => req[p].upload \in Upload
    /\ req[p].pc \in FileSteps => req[p].file \in FileId

TypeInv == TypeOK /\ IdsBounded /\ \A p \in Req : LocalsOK(p)

(* The statements of a transaction keep the table well typed. *)
LEMMA TableStatements ==
    ASSUME TableTypeOK, NEW p \in Actor, NEW a \in Alias
    PROVE  /\ \A row \in Row : AddFileTx(p, a, row) => TableTypeOK'
           /\ \A n \in Nat : UpdateCounter(p, a, n) => TableTypeOK'
           /\ DeleteFileTx(p, a) => TableTypeOK'
           /\ \A batch \in SUBSET Alias : DeleteExpiredFilesTx(p, batch) => TableTypeOK'
<1> USE DEF TableTypeOK
<1>1. \A row \in Row : AddFileTx(p, a, row) => TableTypeOK'
  BY DEF AddFileTx
<1>2. \A n \in Nat : UpdateCounter(p, a, n) => TableTypeOK'
  BY DEF UpdateCounter, Row
<1>3. DeleteFileTx(p, a) => TableTypeOK'
  BY DEF DeleteFileTx
<1>4. \A batch \in SUBSET Alias : DeleteExpiredFilesTx(p, batch) => TableTypeOK'
  BY DEF DeleteExpiredFilesTx
<1> QED BY <1>1, <1>2, <1>3, <1>4

LEMMA TableCommits ==
    ASSUME TableTypeOK, NEW p
    PROVE  /\ Commit(p) => TableTypeOK'
           /\ Rollback(p) => TableTypeOK'
BY DEF TableTypeOK, Commit, Rollback, Release

(* A call of the blob store puts a set of blobs in one folder. *)
Put(a, s, blobs) == dir' = [dir EXCEPT ![a][s] = blobs]

LEMMA PutEffect ==
    ASSUME StoreTypeOK, NEW a \in Alias, NEW s, NEW blobs, Put(a, s, blobs)
    PROVE  /\ \A b \in Alias \ {a} : dir'[b] = dir[b]
           /\ \A t \in Spelling \ {s} : dir'[a][t] = dir[a][t]
           /\ s \in Spelling => dir'[a][s] = blobs
<1> DEFINE G == [dir[a] EXCEPT ![s] = blobs]
<1>1. dir' = [dir EXCEPT ![a] = G]
  BY DEF Put
<1>2. dir[a] \in [Spelling -> SUBSET FileId]
  BY DEF StoreTypeOK
<1>3. /\ \A t \in Spelling \ {s} : G[t] = dir[a][t]
      /\ s \in Spelling => G[s] = blobs
  BY <1>2
<1> HIDE DEF G
<1>4. dir'[a] = G /\ \A b \in Alias \ {a} : dir'[b] = dir[b]
  BY <1>1 DEF StoreTypeOK
<1> QED BY <1>3, <1>4

LEMMA PutTyped ==
    ASSUME StoreTypeOK, NEW a \in Alias, NEW s, NEW blobs, Put(a, s, blobs),
           s \in Spelling => blobs \in SUBSET FileId
    PROVE  dir' \in [Alias -> [Spelling -> SUBSET FileId]]
<1> DEFINE G == [dir[a] EXCEPT ![s] = blobs]
<1>1. dir' = [dir EXCEPT ![a] = G]
  BY DEF Put
<1>2. dir[a] \in [Spelling -> SUBSET FileId]
  BY DEF StoreTypeOK
<1>3. G \in [Spelling -> SUBSET FileId]
  BY <1>2
<1> HIDE DEF G
<1> QED BY <1>1, <1>3 DEF StoreTypeOK

LEMMA RemovePuts ==
    ASSUME NEW a, NEW s, RemoveFolder(a, s)
    PROVE  Put(a, s, {})
BY DEF RemoveFolder, Put

LEMMA FailPuts ==
    ASSUME NEW a, NEW s, RemoveFolderFails(a, s)
    PROVE  \E rest \in SUBSET dir[a][s] : Put(a, s, rest)
<1>1. PICK rest \in SUBSET dir[a][s] : dir' = [dir EXCEPT ![a][s] = rest]
  BY DEF RemoveFolderFails
<1>2. Put(a, s, rest)
  BY <1>1 DEF Put
<1> QED BY <1>2

LEMMA CreatePuts ==
    ASSUME NEW a, NEW s, NEW f, CreateBlob(a, s, f)
    PROVE  \E overwritten \in SUBSET dir[a][s] : Put(a, s, (dir[a][s] \ overwritten) \union {f})
<1>1. PICK overwritten \in SUBSET dir[a][s] :
         dir' = [dir EXCEPT ![a][s] = (dir[a][s] \ overwritten) \union {f}]
  BY DEF CreateBlob
<1>2. Put(a, s, (dir[a][s] \ overwritten) \union {f})
  BY <1>1 DEF Put
<1> QED BY <1>2

(* So the calls of the blob store keep it well typed. *)
LEMMA ShrinkTyped ==
    ASSUME StoreTypeOK, NEW a \in Alias, NEW s, RemoveFolder(a, s) \/ RemoveFolderFails(a, s)
    PROVE  StoreTypeOK'
<1>1. PICK blobs : Put(a, s, blobs) /\ (blobs = {} \/ blobs \in SUBSET dir[a][s])
  BY RemovePuts, FailPuts
<1>2. s \in Spelling => blobs \in SUBSET FileId
  BY <1>1 DEF StoreTypeOK
<1>3. whole' = whole
  BY DEF RemoveFolder, RemoveFolderFails
<1> QED BY <1>1, <1>2, <1>3, PutTyped DEF StoreTypeOK

LEMMA FillTyped ==
    ASSUME StoreTypeOK, NEW f \in FileId, FillBlob(f)
    PROVE  StoreTypeOK'
BY DEF StoreTypeOK, FillBlob

LEMMA CreateTyped ==
    ASSUME StoreTypeOK, NEW a \in Alias, NEW s, NEW f \in FileId, CreateBlob(a, s, f)
    PROVE  StoreTypeOK'
<1>1. PICK overwritten : Put(a, s, (dir[a][s] \ overwritten) \union {f})
  BY CreatePuts
<1>2. s \in Spelling => (dir[a][s] \ overwritten) \union {f} \in SUBSET FileId
  BY DEF StoreTypeOK
<1> QED BY <1>1, <1>2, PutTyped DEF StoreTypeOK, CreateBlob

LEMMA InitTyped == Init => TypeInv
<1> SUFFICES ASSUME Init PROVE TypeInv
  OBVIOUS
<1> USE DomainAssumption DEF Init
<1>1. TableTypeOK
  BY DEF TableInit, TableTypeOK
<1>2. StoreTypeOK
  BY DEF StoreInit, StoreTypeOK
<1>3. ServiceTypeOK
  BY DEF ServiceInit, ServiceTypeOK, Idle, Goroutine
<1>4. WorkerTypeOK
  BY DEF WorkerInit, WorkerTypeOK
<1>5. IdsBounded
  <2>1. {p \in Req : At(p, "addFile")} = {}
    BY DEF ServiceInit, Idle, At
  <2> QED BY <2>1, FS_EmptySet DEF IdsBounded, IdsClaimed, TableInit
<1>6. \A p \in Req : LocalsOK(p)
  BY DEF ServiceInit, Idle, LocalsOK, Active, At, FileSteps
<1> QED BY <1>1, <1>2, <1>3, <1>4, <1>5, <1>6 DEF TypeOK, TypeInv

LEMMA Unchanged ==
    ASSUME TypeOK
    PROVE  /\ UNCHANGED tableVars => TableTypeOK'
           /\ UNCHANGED storeVars => StoreTypeOK'
           /\ UNCHANGED serviceVars => ServiceTypeOK'
           /\ UNCHANGED workerVars => WorkerTypeOK'
BY DEF TypeOK, TableTypeOK, StoreTypeOK, ServiceTypeOK, WorkerTypeOK,
       tableVars, storeVars, serviceVars, workerVars

(* A goroutine moves on, alone, to a step other than addFile: its locals,  *)
(* and the count of ids, stay in order.                                    *)
LEMMA Moves ==
    ASSUME TypeInv, NEW p \in Req, NEW g \in Goroutine,
           req' = [req EXCEPT ![p] = g], nextId' = nextId,
           g.pc # "addFile",
           g.pc # "idle" => g.alias \in Alias /\ g.spelled \in Spelling,
           g.pc \in FileSteps => g.file \in FileId
    PROVE  req' \in [Req -> Goroutine] /\ IdsBounded' /\ \A q \in Req : LocalsOK(q)'
<1>1. req' \in [Req -> Goroutine]
  BY DEF TypeInv, TypeOK, ServiceTypeOK
<1>2. \A q \in Req : LocalsOK(q)'
  BY DEF TypeInv, TypeOK, ServiceTypeOK, LocalsOK, Active, At, FileSteps
<1>3. IdsBounded'
  <2>1. Adding' \subseteq Adding
    BY DEF TypeInv, TypeOK, ServiceTypeOK, Adding, At
  <2>2. IsFiniteSet(Adding) /\ IsFiniteSet(Adding')
    BY DomainAssumption, FS_Subset DEF Adding
  <2>3. Cardinality(Adding') <= Cardinality(Adding)
    BY <2>1, <2>2, FS_Subset
  <2>4. Cardinality(Adding) \in Nat /\ Cardinality(Adding') \in Nat
    BY <2>2, FS_CardinalityType
  <2> QED BY <2>3, <2>4, DomainAssumption
          DEF TypeInv, TypeOK, TableTypeOK, IdsBounded, IdsClaimed, Adding
<1> QED BY <1>1, <1>2, <1>3

LEMMA Returns ==
    ASSUME TypeInv, NEW p \in Req, Return(p), nextId' = nextId
    PROVE  req' \in [Req -> Goroutine] /\ IdsBounded' /\ \A q \in Req : LocalsOK(q)'
<1>1. Idle \in Goroutine
  BY DEF Idle, Goroutine
<1>2. Idle.pc = "idle" /\ "idle" \notin FileSteps
  BY DEF Idle, FileSteps
<1> QED BY <1>1, <1>2, Moves DEF Return

LEMMA GoesTo ==
    ASSUME TypeInv, NEW p \in Req, Active(p), nextId' = nextId,
           NEW step \in (DbSteps \union StoreSteps) \ {"addFile"}, Goto(p, step),
           step \in FileSteps => req[p].file \in FileId
    PROVE  req' \in [Req -> Goroutine] /\ IdsBounded' /\ \A q \in Req : LocalsOK(q)'
<1> DEFINE g == [req[p] EXCEPT !.pc = step]
<1>1. req[p] \in Goroutine /\ req[p].alias \in Alias /\ req[p].spelled \in Spelling
  BY DEF TypeInv, TypeOK, ServiceTypeOK, LocalsOK
<1>2. /\ g \in Goroutine /\ g.pc = step
      /\ g.alias = req[p].alias /\ g.spelled = req[p].spelled /\ g.file = req[p].file
  BY <1>1 DEF Goroutine
<1>3. req' = [req EXCEPT ![p] = g]
  BY DEF Goto
<1> HIDE DEF g
<1> QED BY <1>1, <1>2, <1>3, Moves

(* What every step of a goroutine establishes. *)
ServiceOK == TableTypeOK /\ StoreTypeOK /\ ServiceTypeOK /\ IdsBounded
             /\ \A q \in Req : LocalsOK(q)

LEMMA NewRowTyped ==
    ASSUME TableTypeOK, nextId \in FileId, NEW cmd \in Upload, NEW s \in Spelling
    PROVE  /\ NewRow(cmd, s) \in Row /\ NewRow(cmd, s).left > 0
           /\ NewRow(cmd, s).id = nextId /\ NewRow(cmd, s).spelled = s
<1>1. /\ cmd.owner \in User /\ cmd.hash \in Password
      /\ cmd.size \in Nat /\ cmd.limit \in Nat \ {0} /\ cmd.ttl \in Int
  BY FormAssumption DEF Upload
<1>2. now + cmd.ttl \in Int
  BY <1>1 DEF TableTypeOK
<1> QED BY <1>1, <1>2 DEF NewRow, Row

(* A pending INSERT finds an id left. *)
LEMMA NextIdTyped ==
    ASSUME TypeInv, NEW p \in Req, At(p, "addFile")
    PROVE  nextId \in FileId
<1>1. p \in Adding /\ IsFiniteSet(Adding)
  BY DomainAssumption, FS_Subset DEF Adding
<1>2. Cardinality(Adding) \in Nat \ {0}
  BY <1>1, FS_CardinalityType, FS_EmptySet
<1> QED BY <1>2, DomainAssumption
        DEF TypeInv, TypeOK, TableTypeOK, FileId, IdsBounded, IdsClaimed, Adding

LEMMA UploadTyped ==
    ASSUME TypeInv, NEW p \in Req,
           \/ UploadBegin(p) \/ AddFile(p) \/ AddFileTaken(p)
           \/ CreateFile(p) \/ CopyFile(p) \/ CommitUpload(p)
    PROVE  ServiceOK'
<1>0. TypeOK /\ TableTypeOK /\ StoreTypeOK /\ ServiceTypeOK /\ p \in Actor
  BY DEF TypeInv, TypeOK, Actor
<1>1. CASE UploadBegin(p)
  <2>1. PICK cmd \in Upload, a \in Alias, s \in Spelling :
           /\ IdsClaimed < MaxId
           /\ Begin(p, "addFile", a, s, cmd)
           /\ drawn' = drawn \union {a}
           /\ UNCHANGED <<tableVars, storeVars, served, born, asked, mislaid>>
    BY <1>1 DEF UploadBegin
  <2> DEFINE g == [Idle EXCEPT !.pc = "addFile", !.alias = a, !.spelled = s, !.upload = cmd]
  <2>2. g \in Goroutine /\ g.pc = "addFile" /\ g.alias = a /\ g.spelled = s /\ g.upload = cmd
    BY DEF Idle, Goroutine, DbSteps
  <2>3. req' = [req EXCEPT ![p] = g] /\ ~At(p, "addFile")
    BY <2>1 DEF Begin, At
  <2> HIDE DEF g
  <2>4. ServiceTypeOK' /\ TableTypeOK' /\ StoreTypeOK'
    BY <1>0, <2>1, <2>2, <2>3, Unchanged DEF ServiceTypeOK
  <2>5. \A q \in Req : LocalsOK(q)'
    BY <1>0, <2>2, <2>3 DEF TypeInv, ServiceTypeOK, LocalsOK, Active, At, FileSteps
  <2>6. IdsBounded'
    <3>1. Adding' = Adding \union {p}
      BY <1>0, <2>2, <2>3 DEF ServiceTypeOK, Adding, At
    <3>2. IsFiniteSet(Adding)
      BY DomainAssumption, FS_Subset DEF Adding
    <3>3. Cardinality(Adding') = Cardinality(Adding) + 1 /\ Cardinality(Adding) \in Nat
      BY <2>3, <3>1, <3>2, FS_AddElement, FS_CardinalityType DEF Adding
    <3> QED BY <1>0, <2>1, <3>3, DomainAssumption
            DEF TableTypeOK, tableVars, IdsBounded, IdsClaimed, Adding
  <2> QED BY <2>4, <2>5, <2>6 DEF ServiceOK
<1>2. CASE AddFile(p)
  <2> DEFINE row == NewRow(req[p].upload, req[p].spelled)
             g == [req[p] EXCEPT !.pc = "createFile", !.file = nextId]
  <2>1. /\ At(p, "addFile") /\ req[p].alias \in Alias /\ req[p].spelled \in Spelling
        /\ req[p].upload \in Upload /\ req[p] \in Goroutine
    BY <1>0, <1>2 DEF TypeInv, AddFile, Uncut, At, Active, LocalsOK, ServiceTypeOK
  <2>2. IsFiniteSet(Adding) /\ Cardinality(Adding) \in Nat \ {0} /\ p \in Adding
    <3>1. p \in Adding /\ IsFiniteSet(Adding)
      BY <2>1, DomainAssumption, FS_Subset DEF Adding
    <3> QED BY <3>1, FS_CardinalityType, FS_EmptySet
  <2>3. nextId \in FileId
    BY <2>1, NextIdTyped
  <2>4. row \in Row
    BY <1>0, <2>1, <2>3, NewRowTyped
  <2>5. /\ g \in Goroutine /\ g.pc = "createFile"
        /\ g.alias = req[p].alias /\ g.spelled = req[p].spelled /\ g.file = nextId
    BY <2>1, <2>3 DEF Goroutine, StoreSteps
  <2>6. AddFileTx(p, req[p].alias, row) /\ req' = [req EXCEPT ![p] = g]
    BY <1>2 DEF AddFile
  <2> HIDE DEF row, g
  <2>7. TableTypeOK' /\ nextId' = nextId + 1
    BY <1>0, <2>1, <2>4, <2>6, TableStatements DEF AddFileTx
  <2>8. StoreTypeOK' /\ ServiceTypeOK'
    BY <1>0, <1>2, <2>5, <2>6, Unchanged DEF AddFile, ServiceTypeOK
  <2>9. \A q \in Req : LocalsOK(q)'
    BY <1>0, <2>1, <2>3, <2>5, <2>6 DEF TypeInv, ServiceTypeOK, LocalsOK, Active, At, FileSteps
  <2>10. IdsBounded'
    <3>1. Adding' = Adding \ {p}
      BY <1>0, <2>5, <2>6 DEF ServiceTypeOK, Adding, At
    <3>2. Cardinality(Adding') = Cardinality(Adding) - 1
      BY <2>2, <3>1, FS_RemoveElement
    <3> QED BY <1>0, <2>2, <2>7, <3>2, DomainAssumption
            DEF TypeInv, TableTypeOK, IdsBounded, IdsClaimed, Adding
  <2> QED BY <2>7, <2>8, <2>9, <2>10 DEF ServiceOK
<1>3. CASE AddFileTaken(p)
  BY <1>0, <1>3, Returns, Unchanged DEF AddFileTaken, ServiceOK, ServiceTypeOK, tableVars
<1>4. CASE CreateFile(p)
  <2>1. Active(p) /\ req[p].alias \in Alias /\ req[p].file \in FileId
    BY <1>0, <1>4 DEF TypeInv, CreateFile, LocalsOK, Active, At, FileSteps
  <2>2. TableTypeOK' /\ StoreTypeOK' /\ nextId' = nextId
    BY <1>0, <1>4, <2>1, Unchanged, CreateTyped DEF CreateFile, tableVars
  <2>3. Return(p) \/ Goto(p, "copyFile")
    BY <1>4 DEF CreateFile
  <2>4. req' \in [Req -> Goroutine] /\ IdsBounded' /\ \A q \in Req : LocalsOK(q)'
    BY <2>1, <2>2, <2>3, Returns, GoesTo DEF StoreSteps
  <2> QED BY <1>0, <1>4, <2>2, <2>4 DEF CreateFile, ServiceOK, ServiceTypeOK
<1>5. CASE CopyFile(p)
  <2>1. Active(p) /\ req[p].alias \in Alias /\ req[p].file \in FileId
    BY <1>0, <1>5 DEF TypeInv, CopyFile, LocalsOK, Active, At, FileSteps
  <2>2. TableTypeOK' /\ StoreTypeOK' /\ nextId' = nextId
    BY <1>0, <1>5, <2>1, Unchanged, FillTyped DEF CopyFile, tableVars
  <2>3. Goto(p, "commitUpload")
    BY <1>5 DEF CopyFile
  <2>4. req' \in [Req -> Goroutine] /\ IdsBounded' /\ \A q \in Req : LocalsOK(q)'
    BY <2>1, <2>2, <2>3, GoesTo DEF DbSteps
  <2> QED BY <1>0, <1>5, <2>2, <2>4 DEF CopyFile, ServiceOK, ServiceTypeOK
<1>6. CASE CommitUpload(p)
  <2>1. req[p].alias \in Alias /\ req[p].file \in FileId
    BY <1>0, <1>6 DEF TypeInv, CommitUpload, Uncut, LocalsOK, Active, At, FileSteps
  <2>2. TableTypeOK' /\ StoreTypeOK' /\ nextId' = nextId
    BY <1>0, <1>6, Unchanged, TableCommits DEF CommitUpload, Commit, Release
  <2>3. req' \in [Req -> Goroutine] /\ IdsBounded' /\ \A q \in Req : LocalsOK(q)'
    BY <1>6, <2>2, Returns DEF CommitUpload
  <2>4. born' \in [FileId -> Row \union {NoRow}]
    BY <1>0, <1>6, <2>1 DEF CommitUpload, Publish, TableTypeOK, ServiceTypeOK
  <2> QED BY <1>0, <1>6, <2>2, <2>3, <2>4 DEF CommitUpload, ServiceOK, ServiceTypeOK
<1> QED BY <1>1, <1>2, <1>3, <1>4, <1>5, <1>6

(* Steps that touch neither the worker nor a history variable and move p   *)
(* by Return or Goto share this conclusion.                                *)
LEMMA StepTyped ==
    ASSUME TypeInv, NEW p \in Req, TableTypeOK', StoreTypeOK', nextId' = nextId,
           served' \in [FileId -> Nat], born' \in [FileId -> Row \union {NoRow}],
           asked' \subseteq FileId, drawn' \subseteq Alias, mislaid' \subseteq FileId,
           \/ Return(p)
           \/ /\ Active(p)
              /\ \E step \in (DbSteps \union StoreSteps) \ {"addFile"} :
                    Goto(p, step) /\ (step \in FileSteps => req[p].file \in FileId)
    PROVE  ServiceOK'
BY Returns, GoesTo DEF ServiceOK, ServiceTypeOK

LEMMA MislayTyped ==
    ASSUME TypeInv, NEW p \in Req, Active(p), Mislay(p)
    PROVE  mislaid' \subseteq FileId
<1>1. req[p].alias \in Alias /\ mislaid \subseteq FileId
  BY DEF TypeInv, TypeOK, ServiceTypeOK, LocalsOK
<1>2. rows[req[p].alias] # NoRow => rows[req[p].alias].id \in FileId
  BY <1>1 DEF TypeInv, TypeOK, TableTypeOK, Row
<1> QED BY <1>1, <1>2 DEF Mislay

LEMMA DownloadTyped ==
    ASSUME TypeInv, NEW p \in Req,
           \/ DownloadBegin(p) \/ OpenFile(p) \/ OpenFileMisses(p)
           \/ ReadCounter(p) \/ ReadCounterMisses(p) \/ WriteCounter(p)
           \/ CommitDownload(p) \/ CutReturn(p)
    PROVE  ServiceOK'
<1>0. TypeOK /\ TableTypeOK /\ StoreTypeOK /\ ServiceTypeOK /\ p \in Actor
  BY DEF TypeInv, TypeOK, Actor
<1>1. CASE DownloadBegin(p)
  <2>1. PICK a \in Alias, s \in Spelling :
           /\ Begin(p, "openFile", a, s, NoUpload)
           /\ UNCHANGED <<tableVars, storeVars, served, born, asked, drawn, mislaid>>
    BY <1>1 DEF DownloadBegin
  <2> DEFINE g == [Idle EXCEPT !.pc = "openFile", !.alias = a, !.spelled = s, !.upload = NoUpload]
  <2>2. g \in Goroutine /\ g.pc = "openFile" /\ g.alias = a /\ g.spelled = s
    BY DEF Idle, Goroutine, StoreSteps
  <2>3. req' = [req EXCEPT ![p] = g]
    BY <2>1 DEF Begin
  <2> HIDE DEF g
  <2>4. req' \in [Req -> Goroutine] /\ IdsBounded' /\ \A q \in Req : LocalsOK(q)'
    BY <2>1, <2>2, <2>3, Moves DEF FileSteps, tableVars
  <2> QED BY <1>0, <2>1, <2>4, Unchanged DEF ServiceOK, ServiceTypeOK
<1>2. CASE OpenFile(p)
  <2>1. PICK f \in dir[req[p].alias][req[p].spelled] :
           req' = [req EXCEPT ![p].pc = "readCounter", ![p].file = f]
    BY <1>2 DEF OpenFile
  <2>2. /\ req[p] \in Goroutine /\ f \in FileId
        /\ req[p].alias \in Alias /\ req[p].spelled \in Spelling
    <3>1. /\ req[p] \in Goroutine
          /\ req[p].alias \in Alias /\ req[p].spelled \in Spelling
      BY <1>0, <1>2 DEF TypeInv, OpenFile, LocalsOK, Active, At, ServiceTypeOK
    <3>2. dir[req[p].alias][req[p].spelled] \subseteq FileId
      BY <1>0, <3>1 DEF StoreTypeOK
    <3> QED BY <2>1, <3>1, <3>2
  <2> DEFINE g == [req[p] EXCEPT !.pc = "readCounter", !.file = f]
  <2>3. /\ g \in Goroutine /\ g.pc = "readCounter"
        /\ g.alias = req[p].alias /\ g.spelled = req[p].spelled /\ g.file = f
    BY <2>2 DEF Goroutine, DbSteps
  <2>4. req' = [req EXCEPT ![p] = g]
    BY <2>1
  <2> HIDE DEF g
  <2>5. req' \in [Req -> Goroutine] /\ IdsBounded' /\ \A q \in Req : LocalsOK(q)'
    BY <1>2, <2>2, <2>3, <2>4, Moves DEF OpenFile, tableVars
  <2> QED BY <1>0, <1>2, <2>5, Unchanged DEF OpenFile, ServiceOK, ServiceTypeOK
<1>3. CASE OpenFileMisses(p)
  BY <1>0, <1>3, StepTyped, Unchanged DEF OpenFileMisses, ServiceTypeOK, tableVars
<1>4. CASE ReadCounter(p)
  <2> DEFINE n == rows[req[p].alias].left - 1
             g == [req[p] EXCEPT !.pc = "writeCounter", !.left = n]
  <2>1. /\ req[p] \in Goroutine /\ req[p].file \in FileId
        /\ req[p].alias \in Alias /\ req[p].spelled \in Spelling
    BY <1>0, <1>4 DEF TypeInv, ReadCounter, Uncut, LocalsOK, Active, At, FileSteps, ServiceTypeOK
  <2>2. n \in Nat
    <3>1. rows[req[p].alias] \in Row /\ rows[req[p].alias].left # 0
      BY <1>0, <1>4, <2>1 DEF ReadCounter, Downloadable, Visible, Live, TableTypeOK
    <3> QED BY <3>1 DEF Row
  <2>3. req' = [req EXCEPT ![p] = g]
    BY <1>4 DEF ReadCounter
  <2> HIDE DEF n
  <2>4. /\ g \in Goroutine /\ g.pc = "writeCounter"
        /\ g.alias = req[p].alias /\ g.spelled = req[p].spelled /\ g.file = req[p].file
    BY <2>1, <2>2 DEF Goroutine, DbSteps
  <2> HIDE DEF g
  <2>5. req' \in [Req -> Goroutine] /\ IdsBounded' /\ \A q \in Req : LocalsOK(q)'
    BY <1>4, <2>1, <2>3, <2>4, Moves DEF ReadCounter, tableVars
  <2> QED BY <1>0, <1>4, <2>5, Unchanged DEF ReadCounter, ServiceOK, ServiceTypeOK
<1>5. CASE ReadCounterMisses(p)
  BY <1>0, <1>5, StepTyped, Unchanged DEF ReadCounterMisses, ServiceTypeOK, tableVars
<1>6. CASE WriteCounter(p)
  <2>1. /\ Active(p) /\ req[p].alias \in Alias /\ req[p].file \in FileId
        /\ req[p].left \in Nat
    BY <1>0, <1>6
       DEF TypeInv, WriteCounter, Uncut, LocalsOK, Active, At, FileSteps, ServiceTypeOK, Goroutine
  <2>2. TableTypeOK' /\ nextId' = nextId
    BY <1>0, <1>6, <2>1, TableStatements DEF WriteCounter, UpdateCounter
  <2>3. \E step \in {"commitDownload", "deleteLastRow"} : Goto(p, step)
    BY <1>6 DEF WriteCounter
  <2>4. {"commitDownload", "deleteLastRow"} \subseteq (DbSteps \union StoreSteps) \ {"addFile"}
    BY DEF DbSteps
  <2> QED BY <1>0, <1>6, <2>1, <2>2, <2>3, <2>4, StepTyped, Unchanged
          DEF WriteCounter, ServiceTypeOK
<1>7. CASE CommitDownload(p)
  <2>1. req[p].file \in FileId
    BY <1>7 DEF TypeInv, CommitDownload, Uncut, LocalsOK, At, FileSteps
  <2>2. TableTypeOK' /\ nextId' = nextId
    BY <1>0, <1>7, TableCommits DEF CommitDownload, Commit, Release
  <2>3. served' \in [FileId -> Nat]
    BY <1>0, <1>7, <2>1 DEF CommitDownload, Serve, ServiceTypeOK
  <2>4. mislaid' \subseteq FileId
    BY <1>7, MislayTyped DEF CommitDownload, Uncut, Active, At
  <2> QED BY <1>0, <1>7, <2>2, <2>3, <2>4, StepTyped, Unchanged DEF CommitDownload, ServiceTypeOK
<1>8. CASE CutReturn(p)
  BY <1>0, <1>8, StepTyped, Unchanged DEF CutReturn, ServiceTypeOK, tableVars
<1> QED BY <1>1, <1>2, <1>3, <1>4, <1>5, <1>6, <1>7, <1>8

LEMMA DeleteTyped ==
    ASSUME TypeInv, NEW p \in Req,
           \/ DeleteBegin(p) \/ DeleteRow(p) \/ DeleteRowMisses(p)
           \/ DeleteFolder(p) \/ CommitDelete(p)
    PROVE  ServiceOK'
<1>0. TypeOK /\ TableTypeOK /\ StoreTypeOK /\ ServiceTypeOK /\ p \in Actor
  BY DEF TypeInv, TypeOK, Actor
<1>1. CASE DeleteBegin(p)
  <2>1. PICK a \in Alias, s \in Spelling :
           /\ Visible(a)
           /\ Begin(p, "deleteRow", a, s, NoUpload)
           /\ asked' = asked \union {rows[a].id}
           /\ UNCHANGED <<tableVars, storeVars, served, born, drawn, mislaid>>
    BY <1>1 DEF DeleteBegin
  <2> DEFINE g == [Idle EXCEPT !.pc = "deleteRow", !.alias = a, !.spelled = s,
                               !.upload = NoUpload]
  <2>2. g \in Goroutine /\ g.pc = "deleteRow" /\ g.alias = a /\ g.spelled = s
    BY DEF Idle, Goroutine, DbSteps
  <2>3. req' = [req EXCEPT ![p] = g]
    BY <2>1 DEF Begin
  <2> HIDE DEF g
  <2>4. req' \in [Req -> Goroutine] /\ IdsBounded' /\ \A q \in Req : LocalsOK(q)'
    BY <2>1, <2>2, <2>3, Moves DEF FileSteps, tableVars
  <2>5. asked' \subseteq FileId
    BY <1>0, <2>1 DEF Visible, Live, TableTypeOK, ServiceTypeOK, Row
  <2> QED BY <1>0, <2>1, <2>4, <2>5, Unchanged DEF ServiceOK, ServiceTypeOK
<1>2. CASE DeleteRow(p)
  <2>1. Active(p) /\ req[p].alias \in Alias
    BY <1>2 DEF TypeInv, DeleteRow, Uncut, LocalsOK, Active, At
  <2>2. TableTypeOK' /\ nextId' = nextId
    BY <1>0, <1>2, <2>1, TableStatements DEF DeleteRow, DeleteFileTx
  <2>3. \/ Goto(p, "deleteFile")
        \/ Goto(p, "deleteLastFile") /\ req[p].file \in FileId
    BY <1>2 DEF TypeInv, DeleteRow, Uncut, LocalsOK, At, FileSteps
  <2>4. /\ {"deleteFile", "deleteLastFile"} \subseteq (DbSteps \union StoreSteps) \ {"addFile"}
        /\ "deleteFile" \notin FileSteps
    BY DEF StoreSteps, FileSteps
  <2> QED BY <1>0, <1>2, <2>1, <2>2, <2>3, <2>4, StepTyped, Unchanged
          DEF DeleteRow, ServiceTypeOK
<1>3. CASE DeleteRowMisses(p)
  <2>1. TableTypeOK' /\ nextId' = nextId
    BY <1>0, <1>3, TableCommits DEF DeleteRowMisses, Rollback, Release
  <2> QED BY <1>0, <1>3, <2>1, StepTyped, Unchanged DEF DeleteRowMisses, ServiceTypeOK
<1>4. CASE DeleteFolder(p)
  <2>1. Active(p) /\ req[p].alias \in Alias
    BY <1>4 DEF TypeInv, DeleteFolder, LocalsOK, Active, At
  <2>2. TableTypeOK' /\ StoreTypeOK' /\ nextId' = nextId
    BY <1>0, <1>4, <2>1, Unchanged, ShrinkTyped DEF DeleteFolder, tableVars
  <2>3. \/ Goto(p, "commitDelete")
        \/ Goto(p, "commitLast") /\ req[p].file \in FileId
    BY <1>4 DEF TypeInv, DeleteFolder, LocalsOK, At, FileSteps
  <2>4. /\ {"commitDelete", "commitLast"} \subseteq (DbSteps \union StoreSteps) \ {"addFile"}
        /\ "commitDelete" \notin FileSteps
    BY DEF DbSteps, FileSteps
  <2> QED BY <1>0, <1>4, <2>1, <2>2, <2>3, <2>4, StepTyped DEF DeleteFolder, ServiceTypeOK
<1>5. CASE CommitDelete(p)
  <2>1. TableTypeOK' /\ nextId' = nextId
    BY <1>0, <1>5, TableCommits DEF CommitDelete, Commit, Release
  <2>2. mislaid' \subseteq FileId
    BY <1>5, MislayTyped DEF CommitDelete, Uncut, Active, At
  <2> QED BY <1>0, <1>5, <2>1, <2>2, StepTyped, Unchanged DEF CommitDelete, ServiceTypeOK
<1> QED BY <1>1, <1>2, <1>3, <1>4, <1>5

LEMMA RequestFaultTyped ==
    ASSUME TypeInv, NEW p \in Req,
           Disconnect(p) \/ DbError(p) \/ CommitLost(p) \/ StoreError(p)
    PROVE  ServiceOK'
<1>0. TypeOK /\ TableTypeOK /\ StoreTypeOK /\ ServiceTypeOK /\ p \in Actor
  BY DEF TypeInv, TypeOK, Actor
<1>1. CASE Disconnect(p)
  <2> DEFINE g == [req[p] EXCEPT !.cut = TRUE]
  <2>1. req[p] \in Goroutine /\ Active(p)
    BY <1>0, <1>1 DEF Disconnect, ServiceTypeOK
  <2>2. /\ g \in Goroutine /\ g.pc = req[p].pc /\ g.alias = req[p].alias
        /\ g.spelled = req[p].spelled /\ g.upload = req[p].upload /\ g.file = req[p].file
    BY <2>1 DEF Goroutine
  <2>3. req' = [req EXCEPT ![p] = g]
    BY <1>1 DEF Disconnect
  <2> HIDE DEF g
  <2>4. TableTypeOK' /\ nextId' = nextId
    BY <1>0, <1>1, TableCommits DEF Disconnect, Rollback, Release
  <2>5. StoreTypeOK' /\ ServiceTypeOK'
    BY <1>0, <1>1, <2>2, <2>3, Unchanged DEF Disconnect, ServiceTypeOK
  <2>6. \A q \in Req : LocalsOK(q)'
    BY <1>0, <2>1, <2>2, <2>3 DEF TypeInv, ServiceTypeOK, LocalsOK, Active, At
  <2>7. IdsBounded'
    <3>1. \A q \in Req : At(q, "addFile")' <=> At(q, "addFile")
      BY <1>0, <2>2, <2>3 DEF ServiceTypeOK, At
    <3>2. Adding' = Adding
      BY <3>1 DEF Adding
    <3> QED BY <2>4, <3>2 DEF TypeInv, IdsBounded, IdsClaimed, Adding
  <2> QED BY <2>4, <2>5, <2>6, <2>7 DEF ServiceOK
<1>2. CASE DbError(p)
  <2>1. TableTypeOK' /\ nextId' = nextId
    BY <1>0, <1>2, TableCommits DEF DbError, Rollback, Release
  <2> QED BY <1>0, <1>2, <2>1, StepTyped, Unchanged DEF DbError, ServiceTypeOK
<1>3. CASE CommitLost(p)
  <2>1. TableTypeOK' /\ nextId' = nextId
    BY <1>0, <1>3, TableCommits DEF CommitLost, Commit, Release
  <2>2. born' \in [FileId -> Row \union {NoRow}]
    <3>1. At(p, "commitUpload") => req[p].alias \in Alias
      BY DEF TypeInv, LocalsOK, Active, At
    <3> QED BY <1>0, <1>3, <3>1 DEF CommitLost, Publish, TableTypeOK, ServiceTypeOK
  <2>3. mislaid' \subseteq FileId
    BY <1>3, MislayTyped DEF CommitLost, CommitSteps, Uncut, Active, At
  <2> QED BY <1>0, <1>3, <2>1, <2>2, <2>3, StepTyped, Unchanged DEF CommitLost, ServiceTypeOK
<1>4. CASE StoreError(p)
  <2>1. TableTypeOK' /\ nextId' = nextId
    BY <1>0, <1>4, TableCommits DEF StoreError, Rollback, Release
  <2>2. StoreTypeOK'
    <3>1. req[p].alias \in Alias
      BY <1>4 DEF TypeInv, StoreError, LocalsOK, Active, At
    <3>2. At(p, "copyFile") => req[p].file \in FileId
      BY DEF TypeInv, LocalsOK, At, FileSteps
    <3>3. CASE UNCHANGED storeVars
      BY <1>0, <3>3, Unchanged
    <3>4. CASE At(p, "copyFile") /\ FillBlob(req[p].file)
      BY <1>0, <3>2, <3>4, FillTyped
    <3>5. CASE RemoveFolder(req[p].alias, req[p].spelled)
      BY <1>0, <3>1, <3>5, ShrinkTyped
    <3>6. CASE RemoveFolderFails(req[p].alias, req[p].spelled)
      BY <1>0, <3>1, <3>6, ShrinkTyped
    <3> QED BY <1>4, <3>3, <3>4, <3>5, <3>6 DEF StoreError
  <2> QED BY <1>0, <1>4, <2>1, <2>2, StepTyped DEF StoreError, ServiceTypeOK
<1> QED BY <1>1, <1>2, <1>3, <1>4

LEMMA WorkerTyped ==
    ASSUME TypeInv, WorkerStep \/ RemoveExpiredFails \/ WorkerDbError
    PROVE  TableTypeOK' /\ StoreTypeOK' /\ WorkerTypeOK' /\ nextId' = nextId
<1>0. TypeOK /\ TableTypeOK /\ StoreTypeOK /\ WorkerTypeOK /\ Worker \in Actor
  BY DEF TypeInv, TypeOK, Actor
<1>1. CASE CollectExpired
  <2>1. PICK batch \in SUBSET Alias : DeleteExpiredFilesTx(Worker, batch) /\ todo' = batch
    BY <1>1 DEF CollectExpired, Expired
  <2>2. TableTypeOK' /\ nextId' = nextId
    BY <1>0, <2>1 DEF DeleteExpiredFilesTx, TableTypeOK
  <2> QED BY <1>0, <1>1, <2>1, <2>2, Unchanged DEF TypeInv, CollectExpired, WorkerTypeOK
<1>2. CASE RemoveExpired
  <2>1. PICK a \in todo : RemoveFolder(a, rows[a].spelled)
    BY <1>2 DEF RemoveExpired
  <2>2. StoreTypeOK'
    BY <1>0, <2>1, ShrinkTyped DEF WorkerTypeOK
  <2> QED BY <1>0, <1>2, <2>2, Unchanged DEF RemoveExpired, WorkerTypeOK, tableVars
<1>3. CASE CommitExpired
  BY <1>0, <1>3, TableCommits, Unchanged
     DEF TypeInv, CommitExpired, Commit, Release, Sleep, WorkerTypeOK
<1>4. CASE RemoveExpiredFails
  <2>1. PICK a \in todo : RemoveFolderFails(a, rows[a].spelled)
    BY <1>4 DEF RemoveExpiredFails
  <2>2. StoreTypeOK'
    BY <1>0, <2>1, ShrinkTyped DEF WorkerTypeOK
  <2> QED BY <1>0, <1>4, <2>2, TableCommits
          DEF RemoveExpiredFails, Rollback, Release, Sleep, WorkerTypeOK
<1>5. CASE WorkerDbError
  BY <1>0, <1>5, TableCommits, Unchanged
     DEF TypeInv, WorkerDbError, Rollback, Release, Sleep, WorkerTypeOK
<1> QED BY <1>1, <1>2, <1>3, <1>4, <1>5 DEF WorkerStep

(* Steps that leave the goroutines alone leave their part of TypeInv alone. *)
LEMMA ServiceUntouched ==
    ASSUME TypeInv, UNCHANGED serviceVars, nextId' = nextId
    PROVE  ServiceTypeOK' /\ IdsBounded' /\ \A q \in Req : LocalsOK(q)'
BY Unchanged DEF TypeInv, serviceVars, IdsBounded, IdsClaimed, At, LocalsOK, Active

LEMMA NextTyped == TypeInv /\ [Next]_vars => TypeInv'
<1> SUFFICES ASSUME TypeInv, [Next]_vars PROVE TypeInv'
  OBVIOUS
<1>0. TypeOK /\ WorkerTypeOK /\ faults \in Nat
  BY DEF TypeInv, TypeOK
<1>a. ASSUME NEW kind, Fault(kind) PROVE faults' \in Nat
  BY <1>0, <1>a DEF Fault
<1>1. ASSUME NEW p \in Req, RequestNext(p) PROVE TypeInv'
  <2>1. ServiceOK'
    BY <1>1, UploadTyped, DownloadTyped, DeleteTyped
       DEF RequestNext, RequestBegin, RequestStep
  <2> QED BY <1>0, <1>1, <2>1, Unchanged DEF RequestNext, ServiceOK, TypeInv, TypeOK
<1>2. ASSUME NEW p \in Req, RequestFault(p), UNCHANGED workerVars PROVE TypeInv'
  <2>1. ServiceOK'
    BY <1>2, RequestFaultTyped DEF RequestFault
  <2>2. faults' \in Nat
    BY <1>a, <1>2 DEF RequestFault
  <2> QED BY <1>0, <1>2, <2>1, <2>2, Unchanged DEF ServiceOK, TypeInv, TypeOK
<1>3. CASE WorkerNext
  BY <1>0, <1>3, WorkerTyped, ServiceUntouched DEF WorkerNext, TypeInv, TypeOK
<1>4. CASE WorkerFault /\ UNCHANGED serviceVars
  BY <1>a, <1>4, WorkerTyped, ServiceUntouched DEF WorkerFault, TypeInv, TypeOK
<1>5. CASE Fault("crash") /\ Crash
  <2>1. TableTypeOK' /\ nextId' = nextId
    BY <1>0, <1>5 DEF Crash, RollbackAll, TypeOK, TableTypeOK
  <2>2. StoreTypeOK' /\ WorkerTypeOK'
    BY <1>0, <1>5, Unchanged DEF Crash, Sleep, WorkerTypeOK
  <2>3. ServiceTypeOK'
    BY <1>0, <1>5 DEF Crash, TypeOK, ServiceTypeOK, Idle, Goroutine
  <2>4. \A q \in Req : LocalsOK(q)'
    BY <1>5 DEF Crash, Idle, LocalsOK, Active, At, FileSteps
  <2>5. IdsBounded'
    <3>1. Adding' = {}
      BY <1>5 DEF Crash, Idle, Adding, At
    <3>2. IsFiniteSet(Adding) /\ Cardinality(Adding) \in Nat
      BY DomainAssumption, FS_Subset, FS_CardinalityType DEF Adding
    <3>3. Cardinality(Adding') = 0
      BY <3>1, FS_EmptySet
    <3>4. nextId \in Nat /\ MaxId \in Nat /\ nextId - 1 + Cardinality(Adding) <= MaxId
      BY <1>0, DomainAssumption
         DEF TypeInv, TypeOK, TableTypeOK, IdsBounded, IdsClaimed, Adding
    <3>5. nextId - 1 + Cardinality(Adding') <= MaxId
      BY <3>2, <3>3, <3>4
    <3> QED BY <2>1, <3>5 DEF IdsBounded, IdsClaimed, Adding
  <2> QED BY <1>a, <1>5, <2>1, <2>2, <2>3, <2>4, <2>5 DEF TypeInv, TypeOK
<1>6. CASE ClockNext
  <2>1. TableTypeOK' /\ nextId' = nextId
    BY <1>0, <1>6 DEF ClockNext, Tick, TypeOK, TableTypeOK
  <2> QED BY <1>0, <1>6, <2>1, Unchanged, ServiceUntouched DEF ClockNext, TypeInv, TypeOK
<1>7. CASE UNCHANGED vars
  BY <1>0, <1>7, Unchanged, ServiceUntouched DEF vars, TypeInv, TypeOK, tableVars
<1> QED BY <1>1, <1>2, <1>3, <1>4, <1>5, <1>6, <1>7 DEF Next, Rest

(* Every reachable state is well typed. *)
THEOREM TypeCorrect == Spec => []TypeOK
<1>1. Spec => []TypeInv
  BY InitTyped, NextTyped, PTL DEF Spec
<1>2. TypeInv => TypeOK
  BY DEF TypeInv
<1> QED BY <1>1, <1>2, PTL
=============================================================================
