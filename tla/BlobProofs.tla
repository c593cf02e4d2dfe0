------------------------------ MODULE BlobProofs ------------------------------
(***************************************************************************)
(* Published content outlives its row only if the row was deleted in       *)
(* another spelling.  The id of an upload that is still under way is       *)
(* fresh; a removal has emptied the folder of its own spelling before its  *)
(* commit; and a commit that publishes finds nothing published under its   *)
(* alias.  Inductive given what the holder has made of the row.            *)
(***************************************************************************)
EXTENDS RowProofs

Uploading(p) == req[p].pc \in UploadSteps

(* The id of an upload: given out, not published, in no other folder and   *)
(* no other upload's.                                                      *)
FreshId(p) ==
    Uploading(p) =>
        /\ req[p].file < nextId
        /\ req[p].file \notin Published
        /\ \A a \in Alias, s \in Spelling :
              req[p].file \in dir[a][s] => a = req[p].alias /\ s = req[p].spelled
        /\ \A q \in Req : q # p /\ Uploading(q) => req[q].file # req[p].file

UsedIds ==
    /\ \A a \in Alias, s \in Spelling : \A f \in dir[a][s] : f < nextId
    /\ \A f \in Published : f < nextId

(* A blob is in the one folder its upload has created it in. *)
OneFolder ==
    \A a, b \in Alias, s, t \in Spelling :
        dir[a][s] \intersect dir[b][t] # {} => a = b /\ s = t

RowsPublished ==
    /\ \A a \in Alias : rows[a] # NoRow => rows[a].id \in Published
    /\ mislaid \subseteq Published

Emptied(a, s) == dir[a][s] \intersect Published = {}

Emptying(p) == ~req[p].cut /\ req[p].pc \in {"commitDelete", "commitLast"}

HolderEmptied(p) == Emptying(p) => Emptied(req[p].alias, req[p].spelled)

WorkerEmptied ==
    \A a \in Alias : lock[a] = Worker /\ a \notin todo /\ rows[a] # NoRow =>
        Emptied(a, rows[a].spelled)

BlobInv ==
    /\ PublishedBlobsHaveRow
    /\ UsedIds
    /\ OneFolder
    /\ RowsPublished
    /\ WorkerEmptied
    /\ \A p \in Req : FreshId(p) /\ HolderEmptied(p)

ShareInv == RowInv /\ BlobInv

LEMMA BlobInit == Init => BlobInv
<1> SUFFICES ASSUME Init PROVE BlobInv
  OBVIOUS
<1>1. /\ Published = {} /\ mislaid = {}
      /\ \A a \in Alias : rows[a] = NoRow /\ \A s \in Spelling : dir[a][s] = {}
  BY DEF Init, TableInit, ServiceInit, StoreInit, Published
<1>2. \A p \in Req : ~Uploading(p) /\ ~Emptying(p)
  BY DEF Init, ServiceInit, Idle, Uploading, UploadSteps, Emptying
<1> QED BY <1>1, <1>2
        DEF BlobInv, PublishedBlobsHaveRow, UsedIds, OneFolder, RowsPublished, WorkerEmptied, Emptied,
            FreshId, HolderEmptied

(* Typing facts every step below uses. *)
LEMMA Shapes ==
    ASSUME TypeInv
    PROVE  /\ Worker \notin Req /\ Worker # None /\ None \notin Req
           /\ lock \in [Alias -> Actor \union {None}] /\ req \in [Req -> Goroutine]
           /\ pend \in [Alias -> Row \union {NoRow}] /\ rows \in [Alias -> Row \union {NoRow}]
           /\ StoreTypeOK /\ born \in [FileId -> Row \union {NoRow}]
           /\ \A a \in Alias, s \in Spelling : dir[a][s] \subseteq FileId
           /\ nextId \in Nat /\ FileId \subseteq Nat
           /\ \A a \in Alias : rows[a] # NoRow =>
                 rows[a] \in Row /\ rows[a].spelled \in Spelling
           /\ \A p \in Req : Active(p) => req[p].alias \in Alias /\ req[p].spelled \in Spelling
           /\ \A p \in Req : Uploading(p) => /\ req[p].file \in FileId /\ req[p].alias \in Alias
                                            /\ req[p].spelled \in Spelling
<1>1. FileId \subseteq Nat
  BY DomainAssumption DEF FileId
<1>2. \A a \in Alias, s \in Spelling : dir[a][s] \subseteq FileId
  BY DEF TypeInv, TypeOK, StoreTypeOK
<1>3. \A a \in Alias : rows[a] # NoRow => rows[a] \in Row /\ rows[a].spelled \in Spelling
  BY DEF TypeInv, TypeOK, TableTypeOK, Row
<1> QED BY <1>1, <1>2, <1>3, DomainAssumption
        DEF Actor, TypeInv, TypeOK, TableTypeOK, ServiceTypeOK, LocalsOK, Active,
            Uploading, UploadSteps, FileSteps

(* Who holds an alias, read off a goroutine. *)
LEMMA Holds ==
    ASSUME TypeInv, LockInv, NEW p \in Req, InTx(p)
    PROVE  req[p].alias \in Alias /\ req[p].spelled \in Spelling /\ lock[req[p].alias] = p
BY DEF TypeInv, LockInv, LocalsOK, Active, InTx, TxSteps, UploadSteps, RemovalSteps

(* Removing a folder, wholly or not, adds no blob to any. *)
LEMMA BlobsShrink ==
    ASSUME StoreTypeOK, NEW a \in Alias, NEW s, RemoveFolder(a, s) \/ RemoveFolderFails(a, s),
           NEW b \in Alias, NEW t \in Spelling
    PROVE  dir'[b][t] \subseteq dir[b][t]
<1>1. \E rest \in SUBSET dir[a][s] : Put(a, s, rest)
  BY RemovePuts, FailPuts
<1>2. ASSUME NEW rest \in SUBSET dir[a][s], Put(a, s, rest)
      PROVE  dir'[b][t] \subseteq dir[b][t]
  BY <1>2, PutEffect
<1> QED BY <1>1, <1>2

LEMMA FolderEmpties ==
    ASSUME StoreTypeOK, NEW a \in Alias, NEW s \in Spelling, RemoveFolder(a, s)
    PROVE  dir'[a][s] = {}
BY RemovePuts, PutEffect

(* A step of p may leave it in the state g: no new upload, and no removal  *)
(* before its folder is empty.                                             *)
Leaves(p, g) ==
    /\ req' = [req EXCEPT ![p] = g]
    /\ g.pc \in UploadSteps =>
          /\ Uploading(p) /\ g.file = req[p].file
          /\ g.alias = req[p].alias /\ g.spelled = req[p].spelled
    /\ ~g.cut /\ g.pc \in {"commitDelete", "commitLast"} =>
          dir'[g.alias][g.spelled] = {}

(* A step of p that publishes nothing and adds no blob. *)
LEMMA BlobKept ==
    ASSUME ShareInv, NEW p \in Req, UNCHANGED <<rows, born, nextId, todo, mislaid>>,
           \A a \in Alias, s \in Spelling : dir'[a][s] \subseteq dir[a][s],
           \A a \in Alias : lock'[a] = Worker <=> lock[a] = Worker,
           NEW g, Leaves(p, g)
    PROVE  BlobInv'
<1>1. ShareInv /\ TypeInv /\ LockInv /\ BlobInv
  BY DEF ShareInv, RowInv
<1>2. /\ req'[p] = g /\ \A q \in Req \ {p} : req'[q] = req[q]
      /\ Published' = Published
  BY <1>1, Shapes DEF Leaves, Published
<1>3. ASSUME NEW q \in Req PROVE FreshId(q)'
  <2>1. Uploading(q)' => /\ Uploading(q) /\ req'[q].file = req[q].file
                         /\ req'[q].alias = req[q].alias /\ req'[q].spelled = req[q].spelled
    BY <1>2 DEF Leaves, Uploading
  <2>2. \A r \in Req : Uploading(r)' => Uploading(r) /\ req'[r].file = req[r].file
    BY <1>2 DEF Leaves, Uploading
  <2> QED BY <1>1, <1>2, <2>1, <2>2 DEF BlobInv, FreshId
<1>4. ASSUME NEW q \in Req PROVE HolderEmptied(q)'
  <2>1. CASE q = p
    BY <1>2, <2>1 DEF Leaves, HolderEmptied, Emptying, Emptied
  <2>2. CASE q # p
    <3>1. Emptying(q)' => /\ Emptying(q) /\ req'[q] = req[q]
                          /\ req[q].alias \in Alias /\ req[q].spelled \in Spelling
      BY <1>1, <1>2, <2>2, Shapes DEF Emptying, Active
    <3> QED BY <1>1, <1>2, <3>1 DEF BlobInv, HolderEmptied, Emptied
  <2> QED BY <2>1, <2>2
<1>5. PublishedBlobsHaveRow' /\ UsedIds' /\ OneFolder' /\ RowsPublished'
  BY <1>1, <1>2 DEF BlobInv, PublishedBlobsHaveRow, UsedIds, OneFolder, RowsPublished
<1>6. WorkerEmptied'
  BY <1>1, <1>2, Shapes DEF BlobInv, WorkerEmptied, Emptied
<1> QED BY <1>3, <1>4, <1>5, <1>6 DEF BlobInv

LEMMA BlobUpload ==
    ASSUME ShareInv, NEW p \in Req, UNCHANGED todo, AddFile(p) \/ CreateFile(p)
    PROVE  BlobInv'
<1>1. TypeInv /\ LockInv /\ BlobInv
  BY DEF ShareInv, RowInv
<1>2. /\ Published' = Published /\ \A f \in Published : f \in FileId
      /\ UNCHANGED <<rows, mislaid>>
  BY DEF AddFile, AddFileTx, CreateFile, tableVars, Published
<1>3. CASE AddFile(p)
  <2> DEFINE g == [req[p] EXCEPT !.pc = "createFile", !.file = nextId]
  <2>1. req' = [req EXCEPT ![p] = g] /\ g.pc = "createFile" /\ g.file = nextId
    BY <1>1, <1>3, Shapes DEF AddFile, Goroutine
  <2> HIDE DEF g
  <2>2. /\ req'[p] = g /\ \A q \in Req \ {p} : req'[q] = req[q]
        /\ dir' = dir /\ nextId' = nextId + 1
        /\ \A a \in Alias : lock'[a] = Worker => lock[a] = Worker
    BY <1>1, <1>3, <2>1, Shapes DEF AddFile, AddFileTx, storeVars
  <2>3. ASSUME NEW q \in Req PROVE FreshId(q)'
    <3>1. \A r \in Req : Uploading(r) => req[r].file < nextId
      BY <1>1 DEF BlobInv, FreshId
    <3>2. \A f \in FileId : f < nextId => f < nextId + 1 /\ f # nextId
      BY <1>1, Shapes
    <3>3. \A r \in Req \ {p} : Uploading(r)' => Uploading(r) /\ req'[r] = req[r]
      BY <2>2 DEF Uploading
    <3>4. CASE q = p
      <4>1. nextId < nextId + 1
        BY <1>1, Shapes
      <4>2. nextId \notin Published
        BY <1>1, Shapes DEF BlobInv, UsedIds
      <4>3. \A a \in Alias, s \in Spelling : nextId \notin dir[a][s]
        BY <1>1, Shapes DEF BlobInv, UsedIds
      <4>4. \A r \in Req \ {p} : Uploading(r) => req[r].file # nextId
        BY <1>1, <3>1, Shapes
      <4> QED BY <1>2, <2>1, <2>2, <3>3, <3>4, <4>1, <4>2, <4>3, <4>4 DEF FreshId
    <3>5. CASE q # p
      <4>1. Uploading(q)' => Uploading(q) /\ req'[q] = req[q]
        BY <3>3, <3>5
      <4>2. Uploading(q) => req[q].file # nextId /\ req[q].file < nextId + 1
        BY <1>1, <3>1, <3>2, Shapes
      <4>3. ASSUME Uploading(q)', NEW r \in Req, r # q, Uploading(r)'
            PROVE  req'[r].file # req'[q].file
        <5>1. CASE r = p
          BY <2>1, <2>2, <4>1, <4>2, <4>3, <5>1
        <5>2. CASE r # p
          BY <1>1, <3>3, <4>1, <4>3, <5>2 DEF BlobInv, FreshId
        <5> QED BY <5>1, <5>2
      <4> QED BY <1>1, <1>2, <2>2, <4>1, <4>2, <4>3 DEF BlobInv, FreshId
    <3> QED BY <3>4, <3>5
  <2>4. ASSUME NEW q \in Req PROVE HolderEmptied(q)'
    <3>1. Emptying(q)' => Emptying(q) /\ req'[q] = req[q]
      BY <2>1, <2>2 DEF Emptying
    <3> QED BY <1>1, <1>2, <2>2, <3>1 DEF BlobInv, HolderEmptied, Emptied
  <2>5. UsedIds'
    <3>1. \A f \in FileId : f < nextId => f < nextId + 1
      BY <1>1, Shapes
    <3> QED BY <1>1, <1>2, <2>2, <3>1, Shapes DEF BlobInv, UsedIds
  <2>6. PublishedBlobsHaveRow' /\ WorkerEmptied' /\ OneFolder' /\ RowsPublished'
    BY <1>1, <1>2, <2>2
       DEF BlobInv, PublishedBlobsHaveRow, WorkerEmptied, Emptied, OneFolder, RowsPublished
  <2> QED BY <2>3, <2>4, <2>5, <2>6 DEF BlobInv
<1>4. CASE CreateFile(p)
  <2> DEFINE a == req[p].alias
             s == req[p].spelled
             f == req[p].file
  <2>1. /\ Uploading(p) /\ a \in Alias /\ s \in Spelling /\ f \in FileId
        /\ f < nextId /\ f \notin Published
        /\ \A b \in Alias, t \in Spelling : f \in dir[b][t] => b = a /\ t = s
        /\ \A q \in Req : q # p /\ Uploading(q) => req[q].file # f
    BY <1>1, <1>4, Shapes DEF CreateFile, At, Uploading, UploadSteps, BlobInv, FreshId
  <2>2. /\ nextId' = nextId /\ lock' = lock
        /\ \A b \in Alias, t \in Spelling :
              dir'[b][t] \subseteq dir[b][t] \union (IF b = a /\ t = s THEN {f} ELSE {})
    <3>1. PICK rest : Put(a, s, (dir[a][s] \ rest) \union {f})
      BY <1>4, CreatePuts DEF CreateFile
    <3>2. /\ \A b \in Alias \ {a} : dir'[b] = dir[b]
          /\ \A t \in Spelling \ {s} : dir'[a][t] = dir[a][t]
          /\ dir'[a][s] \subseteq dir[a][s] \union {f}
      BY <1>1, <2>1, <3>1, PutEffect, Shapes
    <3>3. nextId' = nextId /\ lock' = lock
      BY <1>4 DEF CreateFile, tableVars
    <3> HIDE DEF a, s, f
    <3>4. ASSUME NEW b \in Alias, NEW t \in Spelling
          PROVE  dir'[b][t] \subseteq dir[b][t] \union (IF b = a /\ t = s THEN {f} ELSE {})
      BY <3>2
    <3> QED BY <3>3, <3>4
  <2>3. \/ req' = [req EXCEPT ![p] = Idle]
        \/ req' = [req EXCEPT ![p] = [req[p] EXCEPT !.pc = "copyFile"]]
    BY <1>4 DEF CreateFile, Return, Goto
  <2>4. /\ \A q \in Req \ {p} : req'[q] = req[q]
        /\ \/ req'[p].pc = "idle"
           \/ /\ req'[p].pc = "copyFile" /\ req'[p].file = f
              /\ req'[p].alias = a /\ req'[p].spelled = s
    BY <1>1, <2>3, Shapes DEF Goroutine, Idle
  <2> HIDE DEF a, s, f
  <2>5. \A b \in Alias, t \in Spelling :
            dir'[b][t] \intersect Published \subseteq dir[b][t] \intersect Published
    BY <2>1, <2>2
  <2>6. ASSUME NEW q \in Req PROVE FreshId(q)'
    <3>1. \A r \in Req : Uploading(r)' =>
              /\ Uploading(r) /\ req'[r].file = req[r].file
              /\ req'[r].alias = req[r].alias /\ req'[r].spelled = req[r].spelled
      BY <2>1, <2>4 DEF Uploading, UploadSteps, a, s, f
    <3>2. ASSUME Uploading(q), NEW b \in Alias, NEW t \in Spelling, req[q].file \in dir'[b][t]
          PROVE  b = req[q].alias /\ t = req[q].spelled
      <4>1. CASE q = p
        BY <2>1, <2>2, <3>2, <4>1 DEF a, s, f
      <4>2. CASE q # p
        <5>1. req[q].file \in dir[b][t]
          BY <2>1, <2>2, <3>2, <4>2
        <5> QED BY <1>1, <3>2, <5>1 DEF BlobInv, FreshId
      <4> QED BY <4>1, <4>2
    <3> QED BY <1>1, <1>2, <2>2, <3>1, <3>2 DEF BlobInv, FreshId
  <2>7. ASSUME NEW q \in Req PROVE HolderEmptied(q)'
    <3>1. Emptying(q)' => /\ Emptying(q) /\ req'[q] = req[q]
                          /\ req[q].alias \in Alias /\ req[q].spelled \in Spelling
      BY <1>1, <2>4, Shapes DEF Emptying, Active
    <3> QED BY <1>1, <1>2, <2>5, <3>1 DEF BlobInv, HolderEmptied, Emptied
  <2>8. PublishedBlobsHaveRow' /\ WorkerEmptied' /\ RowsPublished'
    BY <1>1, <1>2, <2>2, <2>5, Shapes
       DEF BlobInv, PublishedBlobsHaveRow, WorkerEmptied, Emptied, RowsPublished
  <2>9. UsedIds'
    BY <1>1, <1>2, <2>1, <2>2 DEF BlobInv, UsedIds
  <2>10. OneFolder'
    <3>1. ASSUME NEW b \in Alias, NEW t \in Spelling, NEW x \in dir'[b][t]
          PROVE  (x = f /\ b = a /\ t = s) \/ (x # f /\ x \in dir[b][t])
      <4>1. CASE b = a /\ t = s
        BY <2>2, <3>1, <4>1
      <4>2. CASE ~(b = a /\ t = s)
        BY <2>1, <2>2, <3>1, <4>2
      <4> QED BY <4>1, <4>2
    <3> QED BY <1>1, <3>1 DEF BlobInv, OneFolder
  <2> QED BY <2>6, <2>7, <2>8, <2>9, <2>10 DEF BlobInv
<1> QED BY <1>3, <1>4

(* A commit of p, with or without an answer. *)
LEMMA BlobCommit ==
    ASSUME ShareInv, NEW p \in Req, UNCHANGED <<dir, todo>>, Commit(p), Return(p),
           \E step \in CommitSteps : Uncut(p, step),
           IF At(p, "commitUpload") THEN Publish(p) ELSE UNCHANGED born,
           \/ Mislay(p)
           \/ At(p, "commitUpload") /\ UNCHANGED mislaid
    PROVE  BlobInv'
<1> DEFINE a == req[p].alias
           f == req[p].file
<1>1. TypeInv /\ LockInv /\ PendInv /\ BlobInv
  BY DEF ShareInv, RowInv
<1>2. /\ InTx(p) /\ lock[a] = p /\ a \in Alias /\ req[p].spelled \in Spelling
      /\ req[p].pc \in CommitSteps
  <2>1. InTx(p) /\ req[p].pc \in CommitSteps
    BY DEF CommitSteps, Uncut, At, InTx, TxSteps, UploadSteps, RemovalSteps
  <2> QED BY <1>1, <2>1, Holds
<1>3. \A b \in Alias \ {a} : lock[b] # p /\ rows'[b] = rows[b]
  <2>1. \A b \in Alias \ {a} : lock[b] # p
    BY <1>1, <1>2 DEF LockInv
  <2> QED BY <2>1 DEF Commit
<1>4. /\ rows'[a] = pend[a] /\ nextId' = nextId
      /\ \A b \in Alias : lock'[b] = Worker => lock[b] = Worker
  BY <1>1, <1>2, Shapes DEF Commit, Release
<1>5. /\ req'[p].pc = "idle" /\ \A q \in Req \ {p} : req'[q] = req[q]
  BY <1>1, Shapes DEF Return, Idle
<1>6. \A q \in Req : Uploading(q)' => q # p /\ Uploading(q) /\ req'[q] = req[q]
  BY <1>5 DEF Uploading, UploadSteps
<1>7. \A q \in Req : Emptying(q)' =>
          /\ q # p /\ Emptying(q) /\ req'[q] = req[q]
          /\ req[q].alias \in Alias /\ req[q].alias # a /\ req[q].spelled \in Spelling
  <2>1. \A q \in Req : Emptying(q)' => q # p /\ Emptying(q) /\ req'[q] = req[q]
    BY <1>5 DEF Emptying
  <2>2. ASSUME NEW q \in Req, q # p, Emptying(q)
        PROVE  req[q].alias \in Alias /\ req[q].alias # a /\ req[q].spelled \in Spelling
    <3>1. InTx(q)
      BY <2>2 DEF Emptying, InTx, TxSteps, RemovalSteps
    <3> QED BY <1>1, <1>2, <2>2, <3>1, Holds
  <2> QED BY <2>1, <2>2
<1>8. CASE At(p, "commitUpload")
  <2>1. /\ rows[a] = NoRow /\ pend[a] # NoRow /\ pend[a].id = f
        /\ pend[a].spelled = req[p].spelled
        /\ Uploading(p)
    BY <1>1, <1>2, <1>8 DEF PendInv, HolderOK, At, UploadSteps, Uploading
  <2>2. /\ f \in FileId /\ f < nextId
        /\ \A b \in Alias, t \in Spelling : f \in dir[b][t] => b = a /\ t = req[p].spelled
    BY <1>1, <2>1, Shapes DEF BlobInv, FreshId
  <2>12. mislaid' = mislaid
    BY <2>1 DEF Mislay
  <2>3. \A q \in Req : Uploading(q)' => req[q].file # f
    BY <1>1, <1>6, <2>1 DEF BlobInv, FreshId
  <2>4. \A t \in Spelling : dir[a][t] \intersect Published \subseteq mislaid
    BY <1>1, <1>2, <2>1 DEF BlobInv, PublishedBlobsHaveRow
  <2>5. Published' = Published \union {f}
    BY <1>1, <1>8, <2>1, <2>2, Shapes DEF Publish, Published
  <2> HIDE DEF f
  <2>6. \A b \in Alias \ {a}, t \in Spelling :
            dir[b][t] \intersect Published' = dir[b][t] \intersect Published
    BY <2>2, <2>5
  <2>7. \A b \in Alias : lock[b] = Worker => b # a
    BY <1>1, <1>2, Shapes
  <2>8. PublishedBlobsHaveRow'
    <3>1. ASSUME NEW b \in Alias, NEW t \in Spelling, NEW x \in dir[b][t] \intersect Published'
          PROVE  \/ rows'[b] # NoRow /\ rows'[b].id = x /\ rows'[b].spelled = t
                 \/ x \in mislaid
      <4>1. CASE b = a
        <5>1. x = f \/ x \in mislaid
          BY <2>4, <2>5, <3>1, <4>1
        <5>2. x = f => t = req[p].spelled
          BY <2>2, <3>1, <4>1
        <5> QED BY <1>4, <2>1, <4>1, <5>1, <5>2 DEF f
      <4>2. CASE b # a
        BY <1>1, <1>3, <2>6, <3>1, <4>2 DEF BlobInv, PublishedBlobsHaveRow
      <4> QED BY <4>1, <4>2
    <3> QED BY <2>12, <3>1 DEF PublishedBlobsHaveRow
  <2>9. UsedIds' /\ OneFolder' /\ RowsPublished'
    <3>1. UsedIds' /\ OneFolder'
      BY <1>1, <1>4, <2>2, <2>5 DEF BlobInv, UsedIds, OneFolder
    <3>2. RowsPublished'
      BY <1>1, <1>3, <1>4, <2>1, <2>5, <2>12 DEF BlobInv, RowsPublished, f
    <3> QED BY <3>1, <3>2
  <2>10. WorkerEmptied'
    BY <1>1, <1>3, <1>4, <2>6, <2>7, Shapes DEF BlobInv, WorkerEmptied, Emptied
  <2>11. ASSUME NEW q \in Req PROVE FreshId(q)' /\ HolderEmptied(q)'
    <3>1. HolderEmptied(q)'
      BY <1>1, <1>7, <2>6 DEF BlobInv, HolderEmptied, Emptied
    <3>2. FreshId(q)'
      BY <1>1, <1>4, <1>6, <2>3, <2>5 DEF BlobInv, FreshId
    <3> QED BY <3>1, <3>2
  <2> QED BY <2>8, <2>9, <2>10, <2>11 DEF BlobInv
<1>9. CASE ~At(p, "commitUpload")
  <2>1. Published' = Published
    BY <1>9 DEF Published
  <2>2. \/ req[p].pc = "commitDownload" \/ Emptying(p)
    BY <1>2, <1>9 DEF At, CommitSteps, Emptying, InTx
  <2>3. ASSUME NEW t \in Spelling, NEW x \in dir[a][t] \intersect Published
        PROVE  \/ rows'[a] # NoRow /\ rows'[a].id = x /\ rows'[a].spelled = t
               \/ x \in mislaid'
    <3>1. (rows[a] # NoRow /\ rows[a].id = x /\ rows[a].spelled = t) \/ x \in mislaid
      BY <1>1, <1>2, <2>3 DEF BlobInv, PublishedBlobsHaveRow
    <3>2. CASE x \in mislaid
      BY <1>9, <3>2 DEF Mislay
    <3>3. CASE x \notin mislaid /\ Emptying(p)
      <4>1. t # req[p].spelled
        BY <1>1, <2>3, <3>3 DEF BlobInv, HolderEmptied, Emptied
      <4>2. pend[a] = NoRow
        BY <1>1, <1>2, <3>3 DEF PendInv, HolderOK, Emptying, RemovalSteps
      <4> QED BY <1>9, <3>1, <3>3, <4>1, <4>2 DEF Mislay
    <3>4. CASE x \notin mislaid /\ req[p].pc = "commitDownload"
      BY <1>1, <1>2, <1>4, <3>1, <3>4 DEF PendInv, HolderOK
    <3> QED BY <2>2, <3>2, <3>3, <3>4
  <2>4. PublishedBlobsHaveRow'
    <3>1. mislaid \subseteq mislaid'
      BY <1>9 DEF Mislay
    <3> QED BY <1>1, <1>3, <2>1, <2>3, <3>1 DEF BlobInv, PublishedBlobsHaveRow
  <2>5. UsedIds' /\ OneFolder' /\ RowsPublished' /\ WorkerEmptied'
    <3>1. UsedIds' /\ OneFolder'
      BY <1>1, <1>4, <2>1 DEF BlobInv, UsedIds, OneFolder
    <3>2. rows'[a] # NoRow => rows[a] # NoRow /\ rows'[a].id = rows[a].id
      BY <1>1, <1>2, <1>4, <2>2 DEF PendInv, HolderOK, Emptying, RemovalSteps
    <3>3. mislaid' \subseteq Published
      BY <1>1, <1>2, <1>9 DEF Mislay, BlobInv, RowsPublished
    <3>4. RowsPublished'
      BY <1>1, <1>3, <2>1, <3>2, <3>3 DEF BlobInv, RowsPublished
    <3>5. \A b \in Alias : lock'[b] = Worker => b # a
      BY <1>1, <1>2, <1>4, Shapes
    <3>6. WorkerEmptied'
      BY <1>1, <1>3, <1>4, <2>1, <3>5 DEF BlobInv, WorkerEmptied, Emptied
    <3> QED BY <3>1, <3>4, <3>6
  <2>6. ASSUME NEW q \in Req PROVE FreshId(q)' /\ HolderEmptied(q)'
    <3>1. HolderEmptied(q)'
      BY <1>1, <1>7, <2>1 DEF BlobInv, HolderEmptied, Emptied
    <3>2. FreshId(q)'
      BY <1>1, <1>4, <1>6, <2>1 DEF BlobInv, FreshId
    <3> QED BY <3>1, <3>2
  <2> QED BY <2>4, <2>5, <2>6 DEF BlobInv
<1> QED BY <1>8, <1>9

(* Every other step of p removes blobs or leaves them alone. *)
Removes(p) ==
    \/ CopyFile(p) \/ WriteCounter(p) \/ DeleteRow(p) \/ DeleteFolder(p)
    \/ DeleteRowMisses(p) \/ Disconnect(p) \/ DbError(p) \/ StoreError(p)

LEMMA BlobRemoves ==
    ASSUME ShareInv, NEW p \in Req, UNCHANGED todo, Removes(p)
    PROVE  BlobInv'
<1>1. TypeInv /\ LockInv /\ BlobInv
  BY DEF ShareInv, RowInv
<1>2. UNCHANGED <<rows, born, nextId, mislaid>>
  BY DEF Removes, CopyFile, WriteCounter, UpdateCounter, DeleteRow, DeleteFileTx, DeleteFolder,
         DeleteRowMisses, Disconnect, DbError, StoreError, Rollback, Release, tableVars
<1>3. \A a \in Alias, s \in Spelling : dir'[a][s] \subseteq dir[a][s]
  <2>1. \/ dir' = dir
        \/ \E a \in Alias : \E s : RemoveFolder(a, s) \/ RemoveFolderFails(a, s)
    <3>1. DeleteFolder(p) \/ StoreError(p) => req[p].alias \in Alias
      BY <1>1, Shapes DEF DeleteFolder, StoreError, At, Active
    <3> QED BY <3>1 DEF Removes, CopyFile, FillBlob, WriteCounter, DeleteRow, DeleteFolder,
              DeleteRowMisses, Disconnect, DbError, StoreError, storeVars
  <2>2. CASE dir' = dir
    BY <2>2
  <2>3. ASSUME NEW a \in Alias, NEW s, RemoveFolder(a, s) \/ RemoveFolderFails(a, s),
               NEW b \in Alias, NEW t \in Spelling
        PROVE  dir'[b][t] \subseteq dir[b][t]
    <3>1. StoreTypeOK
      BY <1>1, Shapes
    <3> QED BY <2>3, <3>1, BlobsShrink
  <2> QED BY <2>1, <2>2, <2>3
<1>4. \A a \in Alias : lock'[a] = Worker <=> lock[a] = Worker
  <2>1. \/ lock' = lock
        \/ Release(p)
        \/ req[p].alias \in Alias /\ lock[req[p].alias] \in {None, p}
             /\ lock' = [lock EXCEPT ![req[p].alias] = p]
    <3>1. WriteCounter(p) \/ DeleteRow(p) => req[p].alias \in Alias
      BY <1>1, Shapes DEF WriteCounter, DeleteRow, Uncut, At, Active
    <3> QED BY <3>1 DEF Removes, CopyFile, WriteCounter, UpdateCounter, Unlocked, DeleteRow,
              DeleteFileTx, DeleteFolder, DeleteRowMisses, Disconnect, DbError, StoreError,
              Rollback, tableVars
  <2> QED BY <1>1, <2>1, Shapes DEF Release
<1>5. \E g : Leaves(p, g)
  <2> USE DEF UploadSteps, Leaves
  <2>1. req[p] \in Goroutine /\ Idle.pc = "idle"
    BY <1>1, Shapes DEF Idle
  <2>2. CASE Return(p)
    BY <2>1, <2>2 DEF Return
  <2>3. CASE Disconnect(p)
    <3> DEFINE g == [req[p] EXCEPT !.cut = TRUE]
    <3>1. /\ req' = [req EXCEPT ![p] = g] /\ g.cut /\ g.pc = req[p].pc
          /\ g.file = req[p].file /\ g.alias = req[p].alias /\ g.spelled = req[p].spelled
      BY <2>1, <2>3 DEF Disconnect, Goroutine
    <3> HIDE DEF g
    <3> QED BY <3>1 DEF Uploading
  <2>4. ASSUME NEW step, Goto(p, step),
               \/ step \notin UploadSteps \union {"commitDelete", "commitLast"}
               \/ step \in UploadSteps /\ Uploading(p)
               \/ dir'[req[p].alias][req[p].spelled] = {} /\ step \notin UploadSteps
        PROVE  \E g : Leaves(p, g)
    <3> DEFINE g == [req[p] EXCEPT !.pc = step]
    <3>1. /\ req' = [req EXCEPT ![p] = g] /\ g.pc = step
          /\ g.file = req[p].file /\ g.alias = req[p].alias /\ g.spelled = req[p].spelled
      BY <2>1, <2>4 DEF Goto, Goroutine
    <3> HIDE DEF g
    <3> QED BY <2>4, <3>1
  <2>5. CASE CopyFile(p)
    BY <2>4, <2>5 DEF CopyFile, At, Uploading
  <2>6. CASE WriteCounter(p) \/ DeleteRow(p)
    <3>1. \E step \in {"commitDownload", "deleteLastRow", "deleteFile", "deleteLastFile"} :
              Goto(p, step)
      BY <2>6 DEF WriteCounter, DeleteRow
    <3> QED BY <2>4, <3>1
  <2>7. CASE DeleteFolder(p)
    <3>1. \E step \in {"commitDelete", "commitLast"} : Goto(p, step)
      BY <2>7 DEF DeleteFolder
    <3>2. dir'[req[p].alias][req[p].spelled] = {}
      BY <1>1, <2>7, Shapes, FolderEmpties DEF DeleteFolder, At, Active
    <3> QED BY <2>4, <3>1, <3>2
  <2> QED BY <2>2, <2>3, <2>5, <2>6, <2>7
          DEF Removes, DeleteRowMisses, DbError, StoreError
<1> QED BY <1>2, <1>3, <1>4, <1>5, BlobKept

LEMMA BlobRequest ==
    ASSUME ShareInv, NEW p \in Req, UNCHANGED todo,
           \/ RequestBegin(p) \/ RequestStep(p)
           \/ Disconnect(p) \/ DbError(p) \/ CommitLost(p) \/ StoreError(p)
    PROVE  BlobInv'
<1>0. TypeInv
  BY DEF ShareInv, RowInv
<1>1. CASE Outside(p)
  <2>1. UNCHANGED <<rows, lock, nextId, dir, born, mislaid>>
    BY <1>0, <1>1, StaysOutside DEF tableVars, storeVars
  <2>2. PICK g : req' = [req EXCEPT ![p] = g] /\ g.pc \notin TxSteps
    BY <1>0, <1>1, StaysOutside
  <2> QED BY <2>1, <2>2, BlobKept DEF Leaves, TxSteps, UploadSteps, RemovalSteps
<1>2. CASE CommitUpload(p) \/ CommitDownload(p) \/ CommitDelete(p) \/ CommitLost(p)
  <2>1. /\ UNCHANGED dir /\ Commit(p) /\ Return(p)
        /\ \E step \in CommitSteps : Uncut(p, step)
        /\ IF At(p, "commitUpload") THEN Publish(p) ELSE UNCHANGED born
        /\ Mislay(p) \/ (At(p, "commitUpload") /\ UNCHANGED mislaid)
    BY <1>2 DEF CommitUpload, CommitDownload, CommitDelete, CommitLost, CommitSteps, Uncut, At,
              storeVars
  <2> QED BY <2>1, BlobCommit
<1>3. CASE AddFile(p) \/ CreateFile(p)
  BY <1>3, BlobUpload
<1>4. CASE Removes(p)
  BY <1>4, BlobRemoves
<1> QED BY <1>1, <1>2, <1>3, <1>4 DEF RequestStep, Outside, Removes

(* No step of the worker adds a blob to a folder. *)
LEMMA WorkerShrinks ==
    ASSUME TypeInv, WorkerStep \/ RemoveExpiredFails \/ WorkerDbError
    PROVE  \A a \in Alias, s \in Spelling : dir'[a][s] \subseteq dir[a][s]
<1>1. \/ dir' = dir
      \/ \E a \in Alias : \E s : RemoveFolder(a, s) \/ RemoveFolderFails(a, s)
  BY DEF WorkerStep, CollectExpired, RemoveExpired, CommitExpired, RemoveExpiredFails,
         WorkerDbError, storeVars, TypeInv, TypeOK, WorkerTypeOK
<1>2. CASE dir' = dir
  BY <1>2
<1>3. ASSUME NEW a \in Alias, NEW s, RemoveFolder(a, s) \/ RemoveFolderFails(a, s),
             NEW b \in Alias, NEW t \in Spelling
      PROVE  dir'[b][t] \subseteq dir[b][t]
  <2>1. StoreTypeOK
    BY Shapes
  <2> QED BY <1>3, <2>1, BlobsShrink
<1> QED BY <1>1, <1>2, <1>3

LEMMA BlobWorker ==
    ASSUME ShareInv, UNCHANGED serviceVars, WorkerStep \/ RemoveExpiredFails \/ WorkerDbError
    PROVE  BlobInv'
<1>1. TypeInv /\ LockInv /\ PendInv /\ BlobInv
  BY DEF ShareInv, RowInv
<1>2. /\ UNCHANGED <<req, born, mislaid>> /\ nextId' = nextId /\ Published' = Published
      /\ \A q \in Req : Uploading(q)' = Uploading(q) /\ Emptying(q)' = Emptying(q)
  BY <1>1, WorkerTyped DEF serviceVars, Published, Uploading, Emptying
<1>3. \A a \in Alias, s \in Spelling : dir'[a][s] \subseteq dir[a][s]
  BY <1>1, WorkerShrinks
<1>4. UsedIds' /\ OneFolder' /\ \A q \in Req : FreshId(q)' /\ HolderEmptied(q)'
  <2>1. UsedIds' /\ OneFolder'
    BY <1>1, <1>2, <1>3 DEF BlobInv, UsedIds, OneFolder
  <2>2. ASSUME NEW q \in Req PROVE FreshId(q)'
    BY <1>1, <1>2, <1>3 DEF BlobInv, FreshId
  <2>3. ASSUME NEW q \in Req PROVE HolderEmptied(q)'
    <3>1. Emptying(q) => req[q].alias \in Alias /\ req[q].spelled \in Spelling
      BY <1>1, Shapes DEF Emptying, Active
    <3> QED BY <1>1, <1>2, <1>3, <3>1 DEF BlobInv, HolderEmptied, Emptied
  <2> QED BY <2>1, <2>2, <2>3
<1>5. WorkerEmptied' /\ PublishedBlobsHaveRow' /\ RowsPublished'
  <2>1. CASE CollectExpired
    <3>1. PICK batch \in SUBSET Alias :
             /\ lock' = [a \in Alias |-> IF a \in batch THEN Worker ELSE lock[a]]
             /\ todo' = batch /\ rows' = rows
      BY <2>1 DEF CollectExpired, Expired, DeleteExpiredFilesTx
    <3>2. todo = {} /\ \A a \in Alias : lock[a] # Worker
      BY <1>1, <2>1 DEF LockInv, CollectExpired
    <3> QED BY <1>1, <1>2, <1>3, <3>1, <3>2
            DEF BlobInv, WorkerEmptied, PublishedBlobsHaveRow, RowsPublished
  <2>2. CASE RemoveExpired
    <3>1. PICK a \in todo :
             RemoveFolder(a, rows[a].spelled) /\ todo' = todo \ {a} /\ UNCHANGED <<rows, lock>>
      BY <2>2 DEF RemoveExpired, tableVars
    <3>2. /\ a \in Alias
          /\ rows[a] # NoRow => rows[a].spelled \in Spelling /\ dir'[a][rows[a].spelled] = {}
      BY <1>1, <3>1, Shapes, FolderEmpties DEF TypeInv, TypeOK, WorkerTypeOK
    <3>3. WorkerEmptied'
      <4>1. ASSUME NEW b \in Alias, lock[b] = Worker, b \notin todo', rows[b] # NoRow
            PROVE  Emptied(b, rows[b].spelled)'
        <5>1. CASE b = a
          BY <3>1, <3>2, <4>1, <5>1 DEF Emptied
        <5>2. CASE b # a
          <6>1. b \notin todo /\ rows[b].spelled \in Spelling
            BY <1>1, <3>1, <4>1, <5>2, Shapes
          <6> QED BY <1>1, <1>2, <1>3, <3>1, <4>1, <6>1 DEF BlobInv, WorkerEmptied, Emptied
        <5> QED BY <5>1, <5>2
      <4> QED BY <3>1, <4>1 DEF WorkerEmptied
    <3> QED BY <1>1, <1>2, <1>3, <3>1, <3>3
            DEF BlobInv, PublishedBlobsHaveRow, RowsPublished
  <2>3. CASE CommitExpired \/ RemoveExpiredFails \/ WorkerDbError
    <3>1. \A a \in Alias : lock'[a] # Worker
      BY <1>1, <2>3, Shapes
         DEF CommitExpired, RemoveExpiredFails, WorkerDbError, Commit, Rollback, Release
    <3>2. ASSUME NEW a \in Alias
          PROVE  \/ rows'[a] = rows[a]
                 \/ /\ rows'[a] = NoRow
                    /\ rows[a] # NoRow => Emptied(a, rows[a].spelled)
      <4>1. CASE CommitExpired
        BY <1>1, <4>1 DEF CommitExpired, Commit, BlobInv, WorkerEmptied, PendInv, WorkerHolds
      <4>2. CASE ~CommitExpired
        BY <2>3, <4>2 DEF RemoveExpiredFails, WorkerDbError, Rollback
      <4> QED BY <4>1, <4>2
    <3>3. PublishedBlobsHaveRow'
      <4>1. ASSUME NEW a \in Alias, NEW s \in Spelling, NEW f \in dir'[a][s] \intersect Published
            PROVE  \/ rows'[a] # NoRow /\ rows'[a].id = f /\ rows'[a].spelled = s
                   \/ f \in mislaid
        <5>1. f \in dir[a][s] \intersect Published
          BY <1>3, <4>1
        <5>2. (rows[a] # NoRow /\ rows[a].id = f /\ rows[a].spelled = s) \/ f \in mislaid
          BY <1>1, <5>1 DEF BlobInv, PublishedBlobsHaveRow
        <5> QED BY <3>2, <5>1, <5>2 DEF Emptied
      <4> QED BY <1>2, <4>1 DEF PublishedBlobsHaveRow
    <3> QED BY <1>1, <1>2, <3>1, <3>2, <3>3 DEF BlobInv, WorkerEmptied, RowsPublished
  <2> QED BY <2>1, <2>2, <2>3 DEF WorkerStep
<1> QED BY <1>4, <1>5 DEF BlobInv

LEMMA BlobNext == ShareInv /\ [Next]_vars => BlobInv'
<1> SUFFICES ASSUME ShareInv, [Next]_vars PROVE BlobInv'
  OBVIOUS
<1>1. ASSUME NEW p \in Req, RequestNext(p) PROVE BlobInv'
  BY <1>1, BlobRequest DEF RequestNext, workerVars
<1>2. ASSUME NEW p \in Req, RequestFault(p), UNCHANGED workerVars PROVE BlobInv'
  BY <1>2, BlobRequest DEF RequestFault, workerVars
<1>3. CASE WorkerNext \/ (WorkerFault /\ UNCHANGED serviceVars)
  BY <1>3, BlobWorker DEF WorkerNext, WorkerFault
<1>4. CASE Fault("crash") /\ Crash
  <2>1. /\ UNCHANGED <<rows, nextId, dir, born, mislaid>>
        /\ \A a \in Alias : lock'[a] = None
        /\ \A q \in Req : req'[q].pc = "idle"
    BY <1>4 DEF Crash, RollbackAll, Idle, storeVars
  <2>2. Published' = Published /\ Worker # None
    BY <2>1, DomainAssumption DEF Published, Actor
  <2>3. \A q \in Req : FreshId(q)' /\ HolderEmptied(q)'
    BY <2>1 DEF FreshId, HolderEmptied, Uploading, UploadSteps, Emptying
  <2>4. PublishedBlobsHaveRow' /\ UsedIds' /\ OneFolder' /\ RowsPublished' /\ WorkerEmptied'
    BY <2>1, <2>2 DEF ShareInv, BlobInv, PublishedBlobsHaveRow, UsedIds, OneFolder, RowsPublished,
                      WorkerEmptied
  <2> QED BY <2>3, <2>4 DEF BlobInv
<1>5. CASE UNCHANGED <<rows, lock, nextId, storeVars, serviceVars, workerVars>>
  BY <1>5 DEF ShareInv, BlobInv, PublishedBlobsHaveRow, UsedIds, OneFolder, RowsPublished,
              WorkerEmptied, Emptied, FreshId,
              HolderEmptied, Uploading, Emptying, Published, storeVars, serviceVars, workerVars
<1> QED BY <1>1, <1>2, <1>3, <1>4, <1>5 DEF Next, Rest, ClockNext, Tick, vars, tableVars

(* Whatever fails and whoever races, content that was once shared outlives *)
(* the row that a sweep could find it by only if that row was deleted by a *)
(* request that spelled its alias otherwise.                               *)
THEOREM NoPublishedGarbage == Spec => []PublishedBlobsHaveRow
<1>1. Init => ShareInv
  BY InitTyped, LockInit, PendInit, BlobInit DEF RowInv, ShareInv
<1>2. ShareInv /\ [Next]_vars => ShareInv'
  BY NextTyped, LockNext, PendNext, BlobNext DEF RowInv, ShareInv
<1>3. ShareInv => PublishedBlobsHaveRow
  BY DEF ShareInv, BlobInv
<1> QED BY <1>1, <1>2, <1>3, PTL DEF Spec

(***************************************************************************)
(* The table and the store agree, as long as clients stay and only answers *)
(* to commits fail.  Then every transaction runs to its commit, and at     *)
(* each of its steps the folders of its alias hold what the row was before *)
(* it, or what the commit will make of it, mislaid content left aside.     *)
(***************************************************************************)
Kept(a, s) == dir[a][s] \ mislaid

Bare(a) == \A s \in Spelling : Kept(a, s) = {}

HasOnly(a, s, f) == \A t \in Spelling : Kept(a, t) = IF t = s THEN {f} ELSE {}

Matches(a) ==
    IF rows[a] = NoRow THEN Bare(a) ELSE HasOnly(a, rows[a].spelled, rows[a].id)

(* What a removal in the spelling s leaves of a committed row's content. *)
Left(a, s) ==
    IF rows[a] # NoRow /\ rows[a].spelled # s
    THEN HasOnly(a, rows[a].spelled, rows[a].id) ELSE Bare(a)

FolderOK(p) ==
    LET a == req[p].alias
        s == req[p].spelled
    IN
    /\ At(p, "createFile") => Bare(a)
    /\ req[p].pc \in {"copyFile", "commitUpload"} => HasOnly(a, s, req[p].file)
    /\ req[p].pc \in {"commitDownload", "deleteLastRow", "deleteFile", "deleteLastFile"}
           => Matches(a)
    /\ req[p].pc \in {"commitDelete", "commitLast"} => Left(a, s)

WorkerFolderOK ==
    \A a \in Alias : lock[a] = Worker =>
        IF a \in todo THEN Matches(a) ELSE Bare(a)

MatchInv ==
    /\ \A p \in Req : ~req[p].cut /\ FolderOK(p)
    /\ WorkerFolderOK
    /\ \A a \in Alias : Unlocked(a) => Matches(a)

LEMMA MatchInit == Init => MatchInv
<1> SUFFICES ASSUME Init PROVE MatchInv
  OBVIOUS
<1>1. \A a \in Alias : Bare(a) /\ rows[a] = NoRow /\ lock[a] = None
  BY DEF Init, TableInit, StoreInit, Bare, Kept
<1>2. \A p \in Req : ~req[p].cut /\ req[p].pc = "idle"
  BY DEF Init, ServiceInit, Idle
<1> QED BY <1>1, <1>2, DomainAssumption
        DEF MatchInv, FolderOK, WorkerFolderOK, Unlocked, Matches, At, Actor

(* Two folders with the same rows and the same kept content. *)
AliasKept(a) == rows'[a] = rows[a] /\ \A s \in Spelling : Kept(a, s)' = Kept(a, s)

LEMMA KeptMatches ==
    ASSUME NEW a, AliasKept(a)
    PROVE  /\ Matches(a)' = Matches(a) /\ Bare(a)' = Bare(a)
           /\ \A s, f : HasOnly(a, s, f)' = HasOnly(a, s, f) /\ Left(a, s)' = Left(a, s)
<1>1. /\ Bare(a)' = Bare(a)
      /\ \A s, f : HasOnly(a, s, f)' = HasOnly(a, s, f)
  BY DEF AliasKept, Bare, HasOnly
<1> QED BY <1>1 DEF AliasKept, Matches, Left

(* A step of p that touches at most the row and the folders it holds, and  *)
(* leaves what it lets go matched.                                         *)
LEMMA MatchKept ==
    ASSUME RowInv, MatchInv, NEW p \in Req, UNCHANGED todo,
           \A a \in Alias : lock[a] # p => AliasKept(a),
           \A a \in Alias : lock'[a] = Worker <=> lock[a] = Worker,
           \A a \in Alias : lock'[a] = None => lock[a] = None \/ Matches(a)',
           NEW g, req' = [req EXCEPT ![p] = g], ~g.cut, FolderOK(p)'
    PROVE  MatchInv'
<1>0. /\ TypeInv /\ LockInv
      /\ Worker \notin Req /\ Worker # None /\ None \notin Req /\ req \in [Req -> Goroutine]
  BY Shapes DEF RowInv
<1>1. ASSUME NEW q \in Req PROVE ~req'[q].cut /\ FolderOK(q)'
  <2>1. CASE q = p
    BY <1>0, <2>1
  <2>2. CASE q # p
    <3>1. req'[q] = req[q] /\ ~req[q].cut
      BY <1>0, <2>2 DEF MatchInv
    <3>2. PICK b : b = req[q].alias
      OBVIOUS
    <3>3. FolderOK(q)
      BY DEF MatchInv
    <3>4. CASE req[q].pc \in TxSteps
      <4>1. InTx(q)
        BY <3>1, <3>4 DEF InTx
      <4>2. AliasKept(b)
        BY <1>0, <2>2, <3>2, <4>1, Holds
      <4> QED BY <3>1, <3>2, <3>3, <4>2, KeptMatches DEF FolderOK, At
    <3>5. CASE req[q].pc \notin TxSteps
      BY <3>1, <3>5 DEF FolderOK, At, TxSteps, UploadSteps, RemovalSteps
    <3> QED BY <3>1, <3>4, <3>5
  <2> QED BY <2>1, <2>2
<1>2. WorkerFolderOK'
  <2>1. \A a \in Alias : lock[a] = Worker => Matches(a)' = Matches(a) /\ Bare(a)' = Bare(a)
    BY <1>0, KeptMatches
  <2> QED BY <2>1 DEF MatchInv, WorkerFolderOK
<1>3. \A a \in Alias : Unlocked(a)' => Matches(a)'
  <2>1. \A a \in Alias : lock[a] = None => Matches(a)' = Matches(a)
    BY <1>0, KeptMatches
  <2> QED BY <2>1 DEF MatchInv, Unlocked
<1> QED BY <1>1, <1>2, <1>3 DEF MatchInv

(* Nothing is kept of what is neither a row nor a folder's. *)
LEMMA SameRowsAndFolders ==
    ASSUME UNCHANGED <<rows, dir, mislaid>>
    PROVE  \A a \in Alias : AliasKept(a)
BY DEF AliasKept, Kept

(* What a goroutine in a transaction holds, and what is left behind when   *)
(* it lets go.                                                             *)
LEMMA MatchUpload ==
    ASSUME ShareInv, MatchInv, NEW p \in Req, UNCHANGED todo,
           AddFile(p) \/ CreateFile(p) \/ CopyFile(p)
    PROVE  MatchInv'
<1>a. PICK a : a = req[p].alias
  OBVIOUS
<1>s. PICK s : s = req[p].spelled
  OBVIOUS
<1>f. PICK f : f = req[p].file
  OBVIOUS
<1>0. /\ Worker \notin Req /\ Worker # None /\ None \notin Req
      /\ req[p] \in Goroutine /\ req \in [Req -> Goroutine] /\ a \in Alias /\ s \in Spelling
      /\ lock \in [Alias -> Actor \union {None}]
      /\ RowInv /\ TypeInv /\ LockInv /\ StoreTypeOK /\ ~req[p].cut /\ mislaid' = mislaid
  BY <1>a, <1>s, Shapes
     DEF ShareInv, RowInv, MatchInv, Active, AddFile, CreateFile, CopyFile, Uncut, At
<1>1. CASE AddFile(p)
  <2> DEFINE g == [req[p] EXCEPT !.pc = "createFile", !.file = nextId]
  <2>1. /\ req' = [req EXCEPT ![p] = g] /\ g.pc = "createFile" /\ ~g.cut /\ g.alias = a
    BY <1>a, <1>0, <1>1 DEF AddFile, Goroutine
  <2> HIDE DEF g
  <2>2. /\ lock[a] = None /\ rows[a] = NoRow /\ UNCHANGED <<rows, dir>>
        /\ lock' = [lock EXCEPT ![a] = p]
    BY <1>a, <1>1 DEF AddFile, AddFileTx, Unlocked, storeVars
  <2>3. \A b \in Alias : AliasKept(b)
    BY <1>0, <2>2, SameRowsAndFolders
  <2>4. Bare(a)'
    BY <1>0, <2>2, <2>3, KeptMatches DEF MatchInv, Unlocked, Matches
  <2>5. FolderOK(p)'
    BY <1>0, <2>1, <2>4 DEF FolderOK, At
  <2> QED BY <1>0, <2>1, <2>2, <2>3, <2>5, MatchKept
<1>2. CASE CreateFile(p)
  <2> DEFINE g == [req[p] EXCEPT !.pc = "copyFile"]
  <2>1. InTx(p) /\ lock[a] = p /\ Bare(a) /\ Uploading(p)
    <3>1. InTx(p) /\ Bare(a) /\ Uploading(p)
      BY <1>a, <1>0, <1>2
         DEF CreateFile, At, InTx, TxSteps, UploadSteps, Uploading, MatchInv, FolderOK
    <3> QED BY <1>a, <1>0, <3>1, Holds
  <2>2. /\ req' = [req EXCEPT ![p] = g] /\ g.pc = "copyFile" /\ ~g.cut /\ g.alias = a
        /\ g.spelled = s /\ g.file = f
    BY <1>a, <1>s, <1>f, <1>0, <1>2 DEF CreateFile, Goto, Goroutine
  <2> HIDE DEF g
  <2>3. f \notin mislaid
    BY <1>f, <2>1 DEF ShareInv, BlobInv, FreshId, RowsPublished
  <2>4. UNCHANGED <<rows, lock>> /\ CreateBlob(a, s, f)
    BY <1>a, <1>s, <1>f, <1>2 DEF CreateFile, tableVars
  <2>5. PICK rest \in SUBSET dir[a][s] : Put(a, s, (dir[a][s] \ rest) \union {f})
    BY <2>4, CreatePuts
  <2>6. /\ \A b \in Alias \ {a} : dir'[b] = dir[b]
        /\ \A t \in Spelling \ {s} : dir'[a][t] = dir[a][t]
        /\ dir'[a][s] = (dir[a][s] \ rest) \union {f}
    BY <1>0, <2>5, PutEffect
  <2>7. \A b \in Alias : lock[b] # p => AliasKept(b)
    BY <1>0, <2>1, <2>4, <2>6 DEF AliasKept, Kept
  <2>8. HasOnly(a, s, f)'
    <3>1. ASSUME NEW t \in Spelling PROVE Kept(a, t)' = IF t = s THEN {f} ELSE {}
      <4>1. CASE t = s
        <5>1. dir[a][s] \ mislaid = {}
          BY <1>0, <2>1 DEF Bare, Kept
        <5> QED BY <1>0, <2>3, <2>6, <4>1, <5>1 DEF Kept
      <4>2. CASE t # s
        BY <1>0, <2>1, <2>6, <4>2 DEF Bare, Kept
      <4> QED BY <4>1, <4>2
    <3> QED BY <3>1 DEF HasOnly
  <2>9. FolderOK(p)'
    BY <1>0, <2>2, <2>8 DEF FolderOK, At
  <2> QED BY <1>0, <2>2, <2>4, <2>7, <2>9, MatchKept
<1>3. CASE CopyFile(p)
  <2> DEFINE g == [req[p] EXCEPT !.pc = "commitUpload"]
  <2>1. /\ req' = [req EXCEPT ![p] = g] /\ g.pc = "commitUpload" /\ ~g.cut /\ g.alias = a
        /\ g.spelled = s /\ g.file = f
    BY <1>a, <1>s, <1>f, <1>0, <1>3 DEF CopyFile, Goto, Goroutine
  <2> HIDE DEF g
  <2>2. UNCHANGED <<rows, lock, dir>>
    BY <1>3 DEF CopyFile, FillBlob, tableVars
  <2>3. \A b \in Alias : AliasKept(b)
    BY <1>0, <2>2, SameRowsAndFolders
  <2>4. HasOnly(a, s, f)
    BY <1>a, <1>s, <1>f, <1>3 DEF CopyFile, At, MatchInv, FolderOK
  <2>5. HasOnly(a, s, f)'
    BY <1>0, <2>3, <2>4, KeptMatches
  <2>6. FolderOK(p)'
    BY <1>0, <2>1, <2>5 DEF FolderOK, At
  <2> QED BY <1>0, <2>1, <2>2, <2>3, <2>6, MatchKept
<1> QED BY <1>1, <1>2, <1>3

LEMMA MatchRemoval ==
    ASSUME ShareInv, MatchInv, NEW p \in Req, UNCHANGED todo,
           WriteCounter(p) \/ DeleteRow(p) \/ DeleteFolder(p)
    PROVE  MatchInv'
<1>a. PICK a : a = req[p].alias
  OBVIOUS
<1>s. PICK s : s = req[p].spelled
  OBVIOUS
<1>0. /\ Worker \notin Req /\ Worker # None /\ None \notin Req
      /\ req[p] \in Goroutine /\ req \in [Req -> Goroutine] /\ a \in Alias /\ s \in Spelling
      /\ lock \in [Alias -> Actor \union {None}]
      /\ RowInv /\ TypeInv /\ LockInv /\ StoreTypeOK /\ ~req[p].cut /\ mislaid' = mislaid
  BY <1>a, <1>s, Shapes
     DEF ShareInv, RowInv, MatchInv, Active, WriteCounter, DeleteRow, DeleteFolder, Uncut, At
<1>1. PICK step \in {"commitDownload", "deleteLastRow", "deleteFile", "deleteLastFile",
                     "commitDelete", "commitLast"} : Goto(p, step)
  BY DEF WriteCounter, DeleteRow, DeleteFolder
<1> DEFINE g == [req[p] EXCEPT !.pc = step]
<1>2. /\ req' = [req EXCEPT ![p] = g] /\ g.pc = step /\ ~g.cut /\ g.alias = a /\ g.spelled = s
  BY <1>a, <1>s, <1>0, <1>1 DEF Goto, Goroutine
<1> HIDE DEF g
<1>3. CASE WriteCounter(p) \/ DeleteRow(p)
  <2>1. /\ lock[a] \in {None, p} /\ UNCHANGED <<rows, dir>>
        /\ lock' = [lock EXCEPT ![a] = p]
    BY <1>a, <1>3 DEF WriteCounter, UpdateCounter, DeleteRow, DeleteFileTx, Unlocked, storeVars
  <2>2. Matches(a)
    <3>1. CASE lock[a] = None
      BY <1>0, <3>1 DEF MatchInv, Unlocked
    <3>2. CASE lock[a] = p
      <4>1. InTx(p)
        BY <1>0, <3>2 DEF LockInv
      <4>2. At(p, "deleteLastRow")
        BY <1>3, <4>1 DEF WriteCounter, DeleteRow, Uncut, At, InTx, TxSteps, UploadSteps, RemovalSteps
      <4> QED BY <1>a, <4>2 DEF MatchInv, FolderOK, At
    <3> QED BY <2>1, <3>1, <3>2
  <2>3. step \notin {"commitDelete", "commitLast"}
    BY <1>0, <1>1, <1>2, <1>3 DEF WriteCounter, DeleteRow, Goto, Goroutine
  <2>4. \A b \in Alias : AliasKept(b)
    BY <1>0, <2>1, SameRowsAndFolders
  <2>5. Matches(a)'
    BY <1>0, <2>2, <2>4, KeptMatches
  <2>6. FolderOK(p)'
    BY <1>0, <1>2, <2>3, <2>5 DEF FolderOK, At
  <2> QED BY <1>0, <1>2, <2>1, <2>4, <2>6, MatchKept
<1>4. CASE DeleteFolder(p)
  <2>1. InTx(p) /\ lock[a] = p /\ Matches(a)
    <3>1. InTx(p) /\ Matches(a)
      BY <1>a, <1>0, <1>4 DEF DeleteFolder, At, InTx, TxSteps, RemovalSteps, MatchInv, FolderOK
    <3> QED BY <1>a, <1>0, <3>1, Holds
  <2>2. UNCHANGED <<rows, lock>> /\ Put(a, s, {})
    BY <1>a, <1>s, <1>4, RemovePuts DEF DeleteFolder, tableVars
  <2>3. /\ \A b \in Alias \ {a} : dir'[b] = dir[b]
        /\ \A t \in Spelling \ {s} : dir'[a][t] = dir[a][t]
        /\ dir'[a][s] = {}
    BY <1>0, <2>2, PutEffect
  <2>4. step \in {"commitDelete", "commitLast"}
    BY <1>0, <1>1, <1>2, <1>4 DEF DeleteFolder, Goto, Goroutine
  <2>5. \A b \in Alias : lock[b] # p => AliasKept(b)
    BY <1>0, <2>1, <2>2, <2>3 DEF AliasKept, Kept
  <2>6. \A t \in Spelling : Kept(a, t)' = IF t = s THEN {} ELSE Kept(a, t)
    BY <1>0, <2>3 DEF Kept
  <2>7. Left(a, s)'
    BY <2>1, <2>2, <2>6 DEF Left, Matches, HasOnly, Bare
  <2>8. FolderOK(p)'
    BY <1>0, <1>2, <2>4, <2>7 DEF FolderOK, At
  <2> QED BY <1>0, <1>2, <2>2, <2>5, <2>8, MatchKept
<1> QED BY <1>3, <1>4

(* A commit that mislays a file takes it out of what is kept, and only it. *)
LEMMA MislaidAlone ==
    ASSUME ShareInv, NEW a \in Alias, NEW s \in Spelling, rows[a] # NoRow,
           dir' = dir, mislaid' = mislaid \union {rows[a].id}, HasOnly(a, s, rows[a].id)
    PROVE  /\ Bare(a)'
           /\ \A b \in Alias \ {a}, t \in Spelling : Kept(b, t)' = Kept(b, t)
<1>1. rows[a].id \in dir[a][s]
  BY DEF HasOnly, Kept
<1>2. \A b \in Alias \ {a}, t \in Spelling : rows[a].id \notin dir[b][t]
  BY <1>1 DEF ShareInv, BlobInv, OneFolder
<1> QED BY <1>2 DEF HasOnly, Bare, Kept

LEMMA MatchEnds ==
    ASSUME ShareInv, MatchInv, NEW p \in Req, UNCHANGED todo,
           \/ CommitUpload(p) \/ CommitDownload(p) \/ CommitDelete(p) \/ CommitLost(p)
           \/ DeleteRowMisses(p)
    PROVE  MatchInv'
<1>a. PICK a : a = req[p].alias
  OBVIOUS
<1>s. PICK s : s = req[p].spelled
  OBVIOUS
<1>0. /\ Worker \notin Req /\ Worker # None /\ None \notin Req
      /\ req[p] \in Goroutine /\ req \in [Req -> Goroutine] /\ a \in Alias
      /\ lock \in [Alias -> Actor \union {None}] /\ rows \in [Alias -> Row \union {NoRow}]
      /\ RowInv /\ TypeInv /\ LockInv /\ ~req[p].cut
  BY <1>a, Shapes DEF ShareInv, RowInv, MatchInv, Active, CommitUpload, CommitDownload, CommitDelete,
                CommitLost, DeleteRowMisses, CommitSteps, Uncut, At
<1>1. Return(p) /\ dir' = dir
  BY DEF CommitUpload, CommitDownload, CommitDelete, CommitLost, DeleteRowMisses, storeVars
<1>2. FolderOK(p)'
  BY <1>0, <1>1 DEF Return, Idle, FolderOK, At
<1>3. \/ /\ Commit(p) /\ \E step \in CommitSteps : Uncut(p, step)
         /\ Mislay(p) \/ (At(p, "commitUpload") /\ mislaid' = mislaid)
      \/ DeleteRowMisses(p) /\ Rollback(p) /\ mislaid' = mislaid
  BY DEF CommitUpload, CommitDownload, CommitDelete, CommitLost, DeleteRowMisses, CommitSteps,
         Uncut, At
<1>4. \A b \in Alias : lock[b] # p => rows'[b] = rows[b] /\ lock'[b] = lock[b]
  BY <1>3 DEF Commit, Rollback, Release
<1>5. \A b \in Alias : lock[b] = p => b = a
  BY <1>a, <1>0 DEF LockInv
<1>6. /\ lock[a] = p => Matches(a)'
      /\ \A b \in Alias : lock[b] # p => AliasKept(b)
  <2>1. CASE DeleteRowMisses(p) /\ Rollback(p) /\ mislaid' = mislaid
    <3>1. UNCHANGED rows
      BY <2>1 DEF Rollback
    <3>2. \A b \in Alias : AliasKept(b)
      BY <1>1, <2>1, <3>1, SameRowsAndFolders
    <3>3. lock[a] = p => Matches(a)
      <4>1. lock[a] = p => InTx(p)
        BY <1>0 DEF LockInv
      <4>2. InTx(p) => At(p, "deleteLastRow")
        BY <2>1 DEF DeleteRowMisses, Uncut, At, InTx, TxSteps, UploadSteps, RemovalSteps
      <4> QED BY <1>a, <4>1, <4>2 DEF MatchInv, FolderOK, At
    <3> QED BY <1>0, <3>2, <3>3, KeptMatches
  <2>2. CASE /\ Commit(p) /\ \E step \in CommitSteps : Uncut(p, step)
             /\ Mislay(p) \/ (At(p, "commitUpload") /\ mislaid' = mislaid)
    <3>1. InTx(p) /\ FolderOK(p) /\ HolderOK(p) /\ s \in Spelling /\ lock[a] = p
      <4>1. InTx(p)
        BY <2>2 DEF CommitSteps, Uncut, At, InTx, TxSteps, UploadSteps, RemovalSteps
      <4> QED BY <1>a, <1>s, <1>0, <4>1, Holds DEF RowInv, PendInv, MatchInv
    <3>2. rows'[a] = pend[a]
      BY <1>0, <2>2, <3>1 DEF Commit
    <3>3. ASSUME mislaid' = mislaid
          PROVE  /\ \A t \in Spelling : Kept(a, t)' = Kept(a, t)
                 /\ \A b \in Alias : lock[b] # p => AliasKept(b)
      BY <1>0, <1>1, <1>4, <3>3 DEF Kept, AliasKept
    <3>4. CASE At(p, "commitUpload")
      <4>1. /\ rows[a] = NoRow /\ pend[a] # NoRow /\ pend[a].id = req[p].file
            /\ pend[a].spelled = s /\ HasOnly(a, s, req[p].file)
        BY <1>a, <1>s, <3>1, <3>4 DEF HolderOK, At, UploadSteps, FolderOK
      <4>2. mislaid' = mislaid
        BY <1>a, <2>2, <4>1 DEF Mislay
      <4> QED BY <3>2, <3>3, <4>1, <4>2 DEF Matches, HasOnly
    <3>5. CASE At(p, "commitDownload")
      <4>1. /\ Matches(a) /\ (rows[a] = NoRow <=> pend[a] = NoRow)
            /\ pend[a] # NoRow => pend[a].id = rows[a].id /\ pend[a].spelled = rows[a].spelled
        BY <1>a, <3>1, <3>5 DEF HolderOK, At, FolderOK
      <4>2. mislaid' = mislaid
        BY <1>a, <2>2, <4>1 DEF Mislay
      <4> QED BY <3>2, <3>3, <4>1, <4>2 DEF Matches, HasOnly, Bare
    <3>6. CASE At(p, "commitDelete") \/ At(p, "commitLast")
      <4>1. pend[a] = NoRow /\ Left(a, s)
        BY <1>a, <1>s, <3>1, <3>6 DEF HolderOK, At, RemovalSteps, FolderOK
      <4>2. mislaid' = IF rows[a] # NoRow /\ rows[a].spelled # s
                       THEN mislaid \union {rows[a].id} ELSE mislaid
        BY <1>a, <1>s, <2>2, <3>6, <4>1 DEF Mislay, At
      <4>3. CASE rows[a] # NoRow /\ rows[a].spelled # s
        <5>1. /\ HasOnly(a, rows[a].spelled, rows[a].id)
              /\ rows[a].spelled \in Spelling
          BY <1>0, <4>1, <4>3, Shapes DEF Left
        <5>2. /\ Bare(a)'
              /\ \A b \in Alias \ {a}, t \in Spelling : Kept(b, t)' = Kept(b, t)
          BY <1>0, <1>1, <4>2, <4>3, <5>1, MislaidAlone
        <5> QED BY <1>4, <3>1, <3>2, <4>1, <5>2 DEF Matches, AliasKept
      <4>4. CASE ~(rows[a] # NoRow /\ rows[a].spelled # s)
        BY <3>2, <3>3, <4>1, <4>2, <4>4 DEF Left, Matches, Bare
      <4> QED BY <4>3, <4>4
    <3> QED BY <2>2, <3>4, <3>5, <3>6 DEF CommitSteps, Uncut, At
  <2> QED BY <1>3, <2>1, <2>2
<1>7. \A b \in Alias : lock'[b] = Worker <=> lock[b] = Worker
  BY <1>0, <1>3 DEF Commit, Rollback, Release
<1>8. \A b \in Alias : lock'[b] = None => lock[b] = None \/ Matches(b)'
  BY <1>4, <1>5, <1>6
<1>9. ~Idle.cut
  BY DEF Idle
<1> QED BY <1>0, <1>1, <1>2, <1>6, <1>7, <1>8, <1>9, MatchKept DEF Return

LEMMA MatchRequest ==
    ASSUME ShareInv, MatchInv, NEW p \in Req, UNCHANGED todo,
           RequestBegin(p) \/ RequestStep(p) \/ CommitLost(p)
    PROVE  MatchInv'
<1>0. RowInv /\ TypeInv
  BY DEF ShareInv, RowInv
<1>1. CASE Outside(p)
  <2>1. UNCHANGED <<rows, dir, lock, mislaid>>
    BY <1>0, <1>1, StaysOutside DEF tableVars, storeVars
  <2>2. PICK g : req' = [req EXCEPT ![p] = g] /\ g.pc \notin TxSteps
    BY <1>0, <1>1, StaysOutside
  <2>3. req[p] \in Goroutine /\ req \in [Req -> Goroutine] /\ ~req[p].cut /\ ~Idle.cut
    BY <1>0 DEF TypeInv, TypeOK, ServiceTypeOK, MatchInv, Idle
  <2>4. ~req'[p].cut
    <3>1. CASE RequestBegin(p)
      <4>1. PICK step, b, s, cmd : Begin(p, step, b, s, cmd)
        BY <3>1 DEF RequestBegin, UploadBegin, DownloadBegin, DeleteBegin
      <4>2. req'[p] = [Idle EXCEPT !.pc = step, !.alias = b, !.spelled = s, !.upload = cmd]
        BY <2>3, <4>1 DEF Begin
      <4> QED BY <4>2 DEF Idle
    <3>2. CASE AddFileTaken(p) \/ OpenFileMisses(p) \/ ReadCounterMisses(p) \/ CutReturn(p)
      BY <2>3, <3>2 DEF AddFileTaken, OpenFileMisses, ReadCounterMisses, CutReturn, Return
    <3>3. CASE OpenFile(p) \/ ReadCounter(p)
      BY <2>3, <3>3 DEF OpenFile, ReadCounter, Goroutine
    <3> QED BY <1>1, <3>1, <3>2, <3>3 DEF Outside
  <2>5. ~g.cut /\ req'[p] = g
    BY <2>2, <2>3, <2>4
  <2>6. FolderOK(p)'
    BY <2>2, <2>5 DEF FolderOK, At, TxSteps, UploadSteps, RemovalSteps
  <2>7. \A a \in Alias : AliasKept(a)
    BY <2>1, SameRowsAndFolders
  <2> QED BY <1>0, <2>1, <2>2, <2>5, <2>6, <2>7, MatchKept
<1> QED BY <1>1, MatchUpload, MatchRemoval, MatchEnds DEF RequestStep, Outside

LEMMA MatchWorker ==
    ASSUME ShareInv, MatchInv, UNCHANGED <<req, mislaid>>, WorkerStep
    PROVE  MatchInv'
<1>0. /\ Worker \notin Req /\ Worker # None /\ None \notin Req
      /\ lock \in [Alias -> Actor \union {None}]
      /\ RowInv /\ TypeInv /\ LockInv /\ StoreTypeOK
  BY Shapes DEF ShareInv, RowInv
<1>1. ASSUME \A a \in Alias : lock[a] \notin {Worker, None} => AliasKept(a)
      PROVE  \A q \in Req : ~req'[q].cut /\ FolderOK(q)'
  <2> SUFFICES ASSUME NEW q \in Req PROVE ~req'[q].cut /\ FolderOK(q)'
    OBVIOUS
  <2>1. ~req[q].cut /\ FolderOK(q)
    BY DEF MatchInv
  <2>2. PICK b : b = req[q].alias
    OBVIOUS
  <2>3. CASE req[q].pc \in TxSteps
    <3>1. InTx(q)
      BY <2>1, <2>3 DEF InTx
    <3>2. AliasKept(b)
      BY <1>0, <1>1, <2>2, <3>1, Holds
    <3> QED BY <2>1, <2>2, <3>2, KeptMatches DEF FolderOK, At
  <2>4. CASE req[q].pc \notin TxSteps
    BY <2>1, <2>4 DEF FolderOK, At, TxSteps, UploadSteps, RemovalSteps
  <2> QED BY <2>3, <2>4
<1>2. CASE CollectExpired
  <2>1. PICK batch \in SUBSET Alias :
           /\ \A a \in batch : lock[a] = None
           /\ lock' = [a \in Alias |-> IF a \in batch THEN Worker ELSE lock[a]]
           /\ UNCHANGED <<rows, dir>> /\ todo' = batch
    BY <1>2 DEF CollectExpired, Expired, DeleteExpiredFilesTx, Unlocked, storeVars
  <2>2. \A a \in Alias : lock[a] # Worker
    BY <1>0, <1>2 DEF CollectExpired, LockInv
  <2>3. \A a \in Alias : AliasKept(a)
    BY <2>1, SameRowsAndFolders
  <2>4. \A a \in Alias : Matches(a)' = Matches(a)
    BY <2>3, KeptMatches
  <2>5. WorkerFolderOK' /\ \A a \in Alias : Unlocked(a)' => Matches(a)'
    BY <1>0, <2>1, <2>2, <2>4 DEF MatchInv, WorkerFolderOK, Unlocked
  <2> QED BY <1>1, <2>3, <2>5 DEF MatchInv
<1>3. CASE RemoveExpired
  <2>1. PICK a \in todo : RemoveFolder(a, rows[a].spelled) /\ todo' = todo \ {a}
    BY <1>3 DEF RemoveExpired
  <2>2. /\ UNCHANGED <<rows, lock>> /\ a \in Alias /\ lock[a] = Worker /\ Matches(a)
    BY <1>0, <1>3, <2>1
       DEF RemoveExpired, tableVars, LockInv, TypeInv, TypeOK, WorkerTypeOK, MatchInv, WorkerFolderOK
  <2>3. Put(a, rows[a].spelled, {})
    BY <2>1, RemovePuts
  <2>4. /\ \A b \in Alias \ {a} : dir'[b] = dir[b]
        /\ \A t \in Spelling \ {rows[a].spelled} : dir'[a][t] = dir[a][t]
        /\ rows[a].spelled \in Spelling => dir'[a][rows[a].spelled] = {}
    BY <1>0, <2>2, <2>3, PutEffect
  <2>5. \A b \in Alias \ {a} : AliasKept(b)
    BY <2>2, <2>4 DEF AliasKept, Kept
  <2>6. Bare(a)'
    <3>1. ASSUME NEW t \in Spelling PROVE Kept(a, t)' = {}
      <4>1. CASE t = rows[a].spelled
        BY <2>4, <4>1 DEF Kept
      <4>2. CASE t # rows[a].spelled
        <5>1. Kept(a, t) = {}
          BY <2>2, <4>2 DEF Matches, Bare, HasOnly
        <5> QED BY <2>4, <4>2, <5>1 DEF Kept
      <4> QED BY <4>1, <4>2
    <3> QED BY <3>1 DEF Bare
  <2>7. \A b \in Alias \ {a} : Matches(b)' = Matches(b) /\ Bare(b)' = Bare(b)
    BY <2>5, KeptMatches
  <2>8. WorkerFolderOK'
    BY <2>1, <2>2, <2>6, <2>7 DEF MatchInv, WorkerFolderOK
  <2>9. \A b \in Alias : Unlocked(b)' => Matches(b)'
    BY <1>0, <2>2, <2>7 DEF MatchInv, Unlocked
  <2>10. \A b \in Alias : lock[b] \notin {Worker, None} => AliasKept(b)
    BY <2>2, <2>5
  <2> QED BY <1>1, <2>8, <2>9, <2>10 DEF MatchInv
<1>4. CASE CommitExpired
  <2>1. /\ todo = {} /\ dir' = dir
        /\ rows' = [a \in Alias |-> IF lock[a] = Worker THEN pend[a] ELSE rows[a]]
        /\ lock' = [a \in Alias |-> IF lock[a] = Worker THEN None ELSE lock[a]]
    BY <1>4 DEF CommitExpired, Commit, Release, storeVars
  <2>2. WorkerFolderOK'
    BY <1>0, <2>1 DEF WorkerFolderOK
  <2>3. \A b \in Alias : lock[b] # Worker => AliasKept(b)
    BY <2>1 DEF AliasKept, Kept
  <2>4. ASSUME NEW b \in Alias, Unlocked(b)' PROVE Matches(b)'
    <3>1. CASE lock[b] = Worker
      <4>1. rows'[b] = NoRow /\ Bare(b)
        BY <1>0, <2>1, <3>1 DEF MatchInv, WorkerFolderOK, RowInv, PendInv, WorkerHolds
      <4>2. Bare(b)'
        BY <2>1, <4>1 DEF Bare, Kept
      <4> QED BY <4>1, <4>2 DEF Matches
    <3>2. CASE lock[b] # Worker
      <4>1. Matches(b)
        BY <2>1, <2>4, <3>2 DEF MatchInv, Unlocked
      <4> QED BY <2>3, <3>2, <4>1, KeptMatches
    <3> QED BY <3>1, <3>2
  <2>5. \A b \in Alias : lock[b] \notin {Worker, None} => AliasKept(b)
    BY <2>3
  <2> QED BY <1>1, <2>2, <2>4, <2>5 DEF MatchInv
<1> QED BY <1>2, <1>3, <1>4 DEF WorkerStep

LEMMA MatchNext ==
    ASSUME Faults \subseteq {"lost"}, ShareInv, MatchInv, [Next]_vars
    PROVE  MatchInv'
<1>1. ASSUME NEW p \in Req, RequestNext(p) PROVE MatchInv'
  BY <1>1, MatchRequest DEF RequestNext, workerVars
<1>2. ASSUME NEW p \in Req, RequestFault(p), UNCHANGED workerVars PROVE MatchInv'
  BY <1>2, MatchRequest DEF RequestFault, Fault, workerVars
<1>3. CASE WorkerNext
  BY <1>3, MatchWorker DEF WorkerNext, serviceVars
<1>4. CASE WorkerFault \/ Fault("crash")
  BY <1>4 DEF WorkerFault, Fault
<1>5. CASE UNCHANGED <<rows, lock, dir, req, mislaid, todo>>
  <2>1. \A a \in Alias : AliasKept(a)
    BY <1>5, SameRowsAndFolders
  <2>2. \A a \in Alias : Matches(a)' = Matches(a) /\ Bare(a)' = Bare(a)
    BY <2>1, KeptMatches
  <2>3. \A q \in Req : ~req'[q].cut /\ FolderOK(q)'
    BY <1>5 DEF MatchInv, FolderOK, Matches, Left, Bare, HasOnly, Kept, At
  <2> QED BY <1>5, <2>2, <2>3 DEF MatchInv, WorkerFolderOK, Unlocked
<1> QED BY <1>1, <1>2, <1>3, <1>4, <1>5
        DEF Next, Rest, ClockNext, Tick, vars, tableVars, storeVars, serviceVars, workerVars

(* With clients that stay and statements that work, each folder holds what *)
(* the table says wherever no transaction is under way, and besides that   *)
(* only what deletions in another spelling have left, even if answers to   *)
(* commits are lost and aliases are drawn twice.                           *)
THEOREM TableAndStoreAgree ==
    ASSUME Faults \subseteq {"lost"}
    PROVE  Spec => []TableMatchesStore
<1>1. Init => ShareInv /\ MatchInv
  BY InitTyped, LockInit, PendInit, BlobInit, MatchInit DEF RowInv, ShareInv
<1>2. ShareInv /\ MatchInv /\ [Next]_vars => (ShareInv /\ MatchInv)'
  BY NextTyped, LockNext, PendNext, BlobNext, MatchNext DEF RowInv, ShareInv
<1>3. MatchInv => TableMatchesStore
  <2> SUFFICES ASSUME MatchInv, NEW a \in Alias, NEW s \in Spelling, Unlocked(a)
               PROVE  dir[a][s] \ mislaid =
                        IF rows[a] # NoRow /\ rows[a].spelled = s THEN {rows[a].id} ELSE {}
    BY DEF TableMatchesStore
  <2>1. Matches(a)
    BY DEF MatchInv
  <2> QED BY <2>1 DEF Matches, Bare, HasOnly, Kept
<1> QED BY <1>1, <1>2, <1>3, PTL DEF Spec

(***************************************************************************)
(* What a download hands out is whole, as long as alias.Gen never draws an *)
(* alias twice.  Then an alias belongs to one upload: as long as that is   *)
(* under way nobody can find the alias, and once a row has made it known   *)
(* nobody writes its folder again, except to empty it.                     *)
(***************************************************************************)

Good == whole \intersect Published

OnUpload(p) == req[p].pc \in UploadSteps \union {"addFile"}

(* Nobody will ever write into a folder of this alias again. *)
Settled(a) ==
    /\ a \in drawn
    /\ \A s \in Spelling : dir[a][s] \subseteq Good
    /\ \A p \in Req : OnUpload(p) => req[p].alias # a

(* What is left in the folders of a row's alias is the row's content. *)
Holding(a) == Settled(a) /\ \A s \in Spelling : dir[a][s] \subseteq {rows[a].id}

UploadOK(p) ==
    LET a == req[p].alias
        f == req[p].file
    IN  OnUpload(p) =>
          /\ a \in drawn
          /\ \A q \in Req : q # p /\ OnUpload(q) => req[q].alias # a
          /\ req[p].pc \in {"addFile", "createFile"} => \A s \in Spelling : dir[a][s] = {}
          /\ req[p].pc \in {"copyFile", "commitUpload"} =>
                \A s \in Spelling : dir[a][s] \subseteq {f}
          /\ req[p].pc = "commitUpload" => f \in whole

ServingSteps == {"readCounter", "writeCounter", "commitDownload",
                 "deleteLastRow", "deleteLastFile", "commitLast"}

(* Who does not upload knows the alias from a lookup that found its row. *)
Knows(p) == Active(p) /\ ~OnUpload(p)

DownloadOK(p) ==
    /\ Knows(p) => Settled(req[p].alias)
    /\ req[p].pc \in ServingSteps => req[p].file \in Good

ServedInv ==
    /\ \A a \in Alias, s \in Spelling : a \notin drawn => dir[a][s] = {}
    /\ \A a \in Alias : rows[a] # NoRow => Holding(a)
    /\ \A p \in Req : UploadOK(p) /\ DownloadOK(p)

LEMMA ServedInit == Init => ServedInv
<1> SUFFICES ASSUME Init PROVE ServedInv
  OBVIOUS
<1>1. \A p \in Req : req[p].pc = "idle"
  BY DEF Init, ServiceInit, Idle
<1>2. \A a \in Alias : rows[a] = NoRow /\ \A s \in Spelling : dir[a][s] = {}
  BY DEF Init, StoreInit, TableInit
<1> QED BY <1>1, <1>2
        DEF ServedInv, UploadOK, DownloadOK, Knows, Active, OnUpload, UploadSteps, ServingSteps

(* A step after which q goes on as before, or in a state of its own that   *)
(* begins no upload.                                                       *)
Follows(q) ==
    \/ req'[q] = req[q]
    \/ /\ UploadOK(q)' /\ DownloadOK(q)'
       /\ OnUpload(q)' => OnUpload(q) /\ req'[q].alias = req[q].alias

(* Every step but two adds no blob and draws no alias. *)
LEMMA ServedKept ==
    ASSUME TypeInv, ServedInv,
           drawn' = drawn, whole \subseteq whole', Published \subseteq Published',
           \A a \in Alias, s \in Spelling : dir'[a][s] \subseteq dir[a][s],
           \A a \in Alias : rows'[a] # NoRow =>
              (rows[a] # NoRow /\ rows'[a].id = rows[a].id) \/ Holding(a)',
           \A q \in Req : Follows(q)
    PROVE  ServedInv'
<1>1. \A q \in Req : OnUpload(q)' => OnUpload(q) /\ req'[q].alias = req[q].alias
  BY DEF Follows, OnUpload
<1>2. Good \subseteq Good'
  BY DEF Good
<1>3. \A a \in Alias : Settled(a) => Settled(a)'
  BY <1>1, <1>2 DEF Settled
<1>4. ASSUME NEW q \in Req, req'[q] = req[q] PROVE UploadOK(q)' /\ DownloadOK(q)'
  <2>1. UploadOK(q) /\ DownloadOK(q) /\ OnUpload(q)' = OnUpload(q)
    BY <1>4 DEF ServedInv, OnUpload
  <2>2. /\ OnUpload(q) => req[q].alias \in Alias
        /\ Knows(q) => req[q].alias \in Alias
        /\ Knows(q)' = Knows(q)
    BY <1>4, Shapes DEF OnUpload, UploadSteps, Active, Knows
  <2>3. UploadOK(q)'
    BY <1>1, <1>4, <2>1, <2>2 DEF UploadOK
  <2>4. DownloadOK(q)'
    BY <1>2, <1>3, <1>4, <2>1, <2>2 DEF DownloadOK
  <2> QED BY <2>3, <2>4
<1>5. \A q \in Req : UploadOK(q)' /\ DownloadOK(q)'
  BY <1>4 DEF Follows
<1>6. \A a \in Alias : rows'[a] # NoRow => Holding(a)'
  BY <1>3 DEF ServedInv, Holding
<1> QED BY <1>5, <1>6 DEF ServedInv

(* The two: an upload draws its alias, and creates its blob. *)
LEMMA ServedDraws ==
    ASSUME ShareInv, ServedInv, ~AliasReuse, NEW p \in Req, UploadBegin(p)
    PROVE  ServedInv'
<1>0. TypeInv
  BY DEF ShareInv, RowInv
<1>1. PICK cmd \in Upload, a \in Alias, s \in Spelling :
        /\ a \notin drawn /\ drawn' = drawn \union {a}
        /\ Begin(p, "addFile", a, s, cmd)
  BY DEF UploadBegin
<1>2. UNCHANGED <<rows, dir, whole, born>> /\ Good' = Good
  BY DEF UploadBegin, tableVars, storeVars, Good, Published
<1>3. /\ req[p].pc = "idle" /\ req'[p].pc = "addFile" /\ req'[p].alias = a
      /\ \A q \in Req \ {p} : req'[q] = req[q]
  BY <1>0, <1>1, Shapes DEF Begin, Idle
<1>4. \A q \in Req \ {p} : OnUpload(q)' = OnUpload(q) /\ (OnUpload(q) => req[q].alias # a)
  BY <1>1, <1>3 DEF ServedInv, UploadOK, OnUpload
<1>5. \A b \in Alias : Settled(b) => Settled(b)'
  BY <1>1, <1>2, <1>3, <1>4 DEF Settled
<1>6. UploadOK(p)' /\ DownloadOK(p)'
  <2>1. a \in drawn' /\ \A t \in Spelling : dir'[a][t] = {}
    BY <1>1, <1>2 DEF ServedInv
  <2> QED BY <1>3, <1>4, <2>1 DEF UploadOK, DownloadOK, Knows, OnUpload, ServingSteps
<1>7. ASSUME NEW q \in Req \ {p} PROVE UploadOK(q)' /\ DownloadOK(q)'
  <2>1. UploadOK(q) /\ DownloadOK(q)
    BY DEF ServedInv
  <2>2. UploadOK(q)'
    BY <1>1, <1>2, <1>3, <1>4, <2>1 DEF UploadOK
  <2>3. (Knows(q) => req[q].alias \in Alias) /\ Knows(q)' = Knows(q)
    BY <1>0, <1>3, <1>4, Shapes DEF Active, Knows
  <2>4. DownloadOK(q)'
    BY <1>2, <1>3, <1>5, <2>1, <2>3 DEF DownloadOK
  <2> QED BY <2>2, <2>4
<1> QED BY <1>1, <1>2, <1>5, <1>6, <1>7 DEF ServedInv, Holding

LEMMA ServedCreates ==
    ASSUME ShareInv, ServedInv, NEW p \in Req, CreateFile(p)
    PROVE  ServedInv'
<1> DEFINE a == req[p].alias
           f == req[p].file
<1>0. TypeInv /\ BlobInv
  BY DEF ShareInv, RowInv
<1>1. /\ OnUpload(p) /\ Uploading(p) /\ req[p].pc = "createFile"
      /\ a \in Alias /\ a \in drawn /\ \A s \in Spelling : dir[a][s] = {}
  BY <1>0, Shapes DEF CreateFile, At, OnUpload, Uploading, UploadSteps, ServedInv, UploadOK
<1>2. /\ f \notin Published
      /\ \A q \in Req : q # p /\ Uploading(q) => req[q].file # f
  BY <1>0, <1>1 DEF BlobInv, FreshId
<1>3. /\ UNCHANGED <<rows, drawn, born>>
      /\ whole' = whole \ {f} /\ \A s \in Spelling : dir'[a][s] \subseteq {f}
      /\ \A b \in Alias \ {a} : dir'[b] = dir[b]
  <2>1. UNCHANGED <<rows, drawn, born>> /\ whole' = whole \ {f}
    BY DEF CreateFile, CreateBlob, tableVars
  <2>2. PICK t, rest : t = req[p].spelled /\ Put(a, t, (dir[a][t] \ rest) \union {f})
    BY CreatePuts DEF CreateFile
  <2> HIDE DEF a, f
  <2>3. /\ \A b \in Alias \ {a} : dir'[b] = dir[b]
        /\ \A s \in Spelling \ {t} : dir'[a][s] = dir[a][s]
        /\ t \in Spelling => dir'[a][t] = (dir[a][t] \ rest) \union {f}
    BY <1>0, <1>1, <2>2, PutEffect, Shapes
  <2>4. ASSUME NEW s \in Spelling PROVE dir'[a][s] \subseteq {f}
    BY <1>1, <2>3
  <2> QED BY <2>1, <2>3, <2>4
<1>4. Good' = Good
  BY <1>2, <1>3 DEF Good, Published
<1>5. /\ \A q \in Req \ {p} : req'[q] = req[q]
      /\ \/ req'[p].pc = "idle"
         \/ req'[p].pc = "copyFile" /\ req'[p].alias = a /\ req'[p].file = f
  <2>1. CASE Return(p)
    BY <1>0, <2>1, Shapes DEF Return, Idle
  <2>2. CASE Goto(p, "copyFile")
    BY <1>0, <2>2, Shapes DEF Goto, Goroutine
  <2> QED BY <2>1, <2>2 DEF CreateFile
<1> HIDE DEF a, f
<1>6. \A q \in Req : OnUpload(q)' => OnUpload(q) /\ req'[q].alias = req[q].alias
  BY <1>1, <1>5 DEF OnUpload, UploadSteps, a
<1>7. \A b \in Alias : Settled(b) => b # a /\ Settled(b)'
  BY <1>1, <1>3, <1>4, <1>6 DEF Settled, a
<1>8. UploadOK(p)' /\ DownloadOK(p)'
  <2>1. \A q \in Req : q # p /\ OnUpload(q)' => req'[q].alias # a
    BY <1>1, <1>6 DEF ServedInv, UploadOK, a
  <2> QED BY <1>1, <1>3, <1>5, <2>1
        DEF UploadOK, DownloadOK, Knows, Active, OnUpload, UploadSteps, ServingSteps
<1>9. ASSUME NEW q \in Req \ {p} PROVE UploadOK(q)' /\ DownloadOK(q)'
  <2>1. UploadOK(q) /\ DownloadOK(q) /\ OnUpload(q)' = OnUpload(q) /\ req'[q] = req[q]
    BY <1>5 DEF ServedInv, OnUpload
  <2>2. /\ OnUpload(q) => req[q].alias \in Alias /\ req[q].alias # a
        /\ (Knows(q) => req[q].alias \in Alias) /\ Knows(q)' = Knows(q)
        /\ req[q].pc = "commitUpload" => req[q].file # f
    BY <1>0, <1>1, <1>2, <2>1, Shapes
       DEF OnUpload, Uploading, UploadSteps, Active, Knows, ServedInv, UploadOK, a
  <2>3. UploadOK(q)'
    BY <1>3, <1>6, <2>1, <2>2 DEF UploadOK
  <2>4. DownloadOK(q)'
    BY <1>4, <1>7, <2>1, <2>2 DEF DownloadOK
  <2> QED BY <2>3, <2>4
<1>10. \A b \in Alias : rows[b] # NoRow => Holding(b)'
  BY <1>3, <1>7 DEF ServedInv, Holding
<1> QED BY <1>1, <1>3, <1>8, <1>9, <1>10 DEF ServedInv, a

(* Every other step of p. *)
LEMMA ServedRequest ==
    ASSUME ShareInv, ServedInv, ~AliasReuse, NEW p \in Req,
           \/ RequestBegin(p) \/ RequestStep(p)
           \/ Disconnect(p) \/ DbError(p) \/ CommitLost(p) \/ StoreError(p)
    PROVE  ServedInv'
<1> USE DEF UploadSteps, ServingSteps, Knows, Active
<1> DEFINE a == req[p].alias
           f == req[p].file
<1>1. /\ TypeInv /\ LockInv /\ PendInv /\ UploadOK(p) /\ DownloadOK(p)
      /\ req[p] \in Goroutine /\ Idle.pc = "idle"
  BY Shapes DEF ShareInv, RowInv, ServedInv, Idle
<1>2. Active(p) => a \in Alias
  BY <1>1, Shapes
<1>0. Knows(p) => Settled(a)
  BY <1>1 DEF DownloadOK
(* What is left to show of a step of p that keeps or shrinks the folders. *)
<1>3. ASSUME drawn' = drawn, whole \subseteq whole', Published \subseteq Published',
             \A b \in Alias, s \in Spelling : dir'[b][s] \subseteq dir[b][s],
             \A b \in Alias : rows'[b] # NoRow =>
                (rows[b] # NoRow /\ rows'[b].id = rows[b].id) \/ Holding(b)',
             NEW g, req' = [req EXCEPT ![p] = g],
             UploadOK(p)',
             OnUpload(p)' => OnUpload(p) /\ g.alias = a,
             g.pc \in ServingSteps => g.file \in Good',
             \/ g.pc \in UploadSteps \union {"addFile", "idle"}
             \/ g.alias \in Alias /\ Settled(g.alias)
      PROVE  ServedInv'
  <2>1. req'[p] = g /\ \A q \in Req \ {p} : req'[q] = req[q]
    BY <1>1, <1>3, Shapes
  <2>2. \A q \in Req : OnUpload(q)' => OnUpload(q) /\ req'[q].alias = req[q].alias
    BY <1>3, <2>1 DEF OnUpload
  <2>3. \A b \in Alias : Settled(b) => Settled(b)'
    BY <1>3, <2>2 DEF Settled, Good
  <2>4. DownloadOK(p)'
    BY <1>3, <2>1, <2>3 DEF DownloadOK, OnUpload
  <2>5. \A q \in Req : Follows(q)
    BY <1>3, <2>1, <2>2, <2>4 DEF Follows
  <2> QED BY <1>1, <1>3, <2>5, ServedKept
<1>4. ASSUME Return(p), drawn' = drawn, whole \subseteq whole', Published \subseteq Published',
             \A b \in Alias, s \in Spelling : dir'[b][s] \subseteq dir[b][s],
             \A b \in Alias : rows'[b] # NoRow =>
                (rows[b] # NoRow /\ rows'[b].id = rows[b].id) \/ Holding(b)'
      PROVE  ServedInv'
  <2>1. req' = [req EXCEPT ![p] = Idle] /\ req'[p].pc = "idle"
    BY <1>1, <1>4, Shapes DEF Return
  <2>2. UploadOK(p)' /\ ~OnUpload(p)'
    BY <2>1 DEF UploadOK, OnUpload
  <2> QED BY <1>1, <1>3, <1>4, <2>1, <2>2
(* A step that goes on to the state g and touches neither table nor store. *)
<1>5. ASSUME drawn' = drawn, UNCHANGED <<rows, dir, whole, born>>,
             NEW g, req' = [req EXCEPT ![p] = g],
             g.pc \notin UploadSteps \union {"addFile"},
             g.alias \in Alias /\ Settled(g.alias),
             g.pc \in ServingSteps => g.file \in Good
      PROVE  ServedInv'
  <2>1. req'[p] = g /\ Published' = Published /\ Good' = Good
    BY <1>1, <1>5, Shapes DEF Published, Good
  <2>2. UploadOK(p)' /\ ~OnUpload(p)'
    BY <1>5, <2>1 DEF UploadOK, OnUpload
  <2> QED BY <1>3, <1>5, <2>1, <2>2
<1>6. CASE UploadBegin(p)
  BY <1>6, ServedDraws
<1>7. CASE CreateFile(p)
  BY <1>7, ServedCreates
<1>8. CASE DownloadBegin(p) \/ DeleteBegin(p)
  <2>1. PICK step \in {"openFile", "deleteRow"}, b \in Alias, s \in Spelling :
           Begin(p, step, b, s, NoUpload) /\ rows[b] # NoRow
    BY <1>8 DEF DownloadBegin, DeleteBegin, Visible, Live
  <2> DEFINE g == [Idle EXCEPT !.pc = step, !.alias = b, !.spelled = s, !.upload = NoUpload]
  <2>2. req' = [req EXCEPT ![p] = g] /\ g.pc = step /\ g.alias = b
    BY <2>1 DEF Begin, Idle
  <2>3. Settled(b)
    BY <2>1 DEF ServedInv, Holding
  <2>4. drawn' = drawn /\ UNCHANGED <<rows, dir, whole, born>>
    BY <1>8 DEF DownloadBegin, DeleteBegin, tableVars, storeVars
  <2> HIDE DEF g
  <2> QED BY <1>5, <2>1, <2>2, <2>3, <2>4
<1>9. CASE OpenFile(p)
  <2>1. PICK x \in dir[a][req[p].spelled] : req' = [req EXCEPT ![p].pc = "readCounter", ![p].file = x]
    BY <1>9 DEF OpenFile
  <2> DEFINE g == [req[p] EXCEPT !.pc = "readCounter", !.file = x]
  <2>2. /\ req' = [req EXCEPT ![p] = g]
        /\ g.pc = "readCounter" /\ g.file = x /\ g.alias = a
    BY <1>1, <2>1 DEF Goroutine
  <2>3. a \in Alias /\ Settled(a) /\ x \in Good
    <3>1. req[p].spelled \in Spelling
      BY <1>1, <1>9, Shapes DEF OpenFile, At
    <3> QED BY <1>0, <1>2, <1>9, <2>1, <3>1 DEF OpenFile, At, OnUpload, Settled
  <2>4. drawn' = drawn /\ UNCHANGED <<rows, dir, whole, born>>
    BY <1>9 DEF OpenFile, tableVars, storeVars
  <2> HIDE DEF g
  <2> QED BY <1>5, <2>2, <2>3, <2>4
<1>10. CASE ReadCounter(p)
  <2> DEFINE g == [req[p] EXCEPT !.pc = "writeCounter", !.left = rows[a].left - 1]
  <2>1. /\ req' = [req EXCEPT ![p] = g]
        /\ g.pc = "writeCounter" /\ g.file = f /\ g.alias = a
    BY <1>1, <1>10 DEF ReadCounter, Goroutine
  <2>2. a \in Alias /\ Settled(a) /\ f \in Good
    BY <1>0, <1>1, <1>2, <1>10 DEF ReadCounter, Uncut, At, OnUpload, DownloadOK
  <2>3. drawn' = drawn /\ UNCHANGED <<rows, dir, whole, born>>
    BY <1>10 DEF ReadCounter, tableVars, storeVars
  <2> HIDE DEF g
  <2> QED BY <1>5, <2>1, <2>2, <2>3
<1>11. CASE WriteCounter(p) \/ DeleteRow(p)
  <2>1. PICK step \in {"commitDownload", "deleteLastRow", "deleteFile", "deleteLastFile"} :
           /\ Goto(p, step)
           /\ step # "deleteFile" => req[p].pc \in ServingSteps
           /\ Knows(p)
    BY <1>11 DEF WriteCounter, DeleteRow, Uncut, At, OnUpload
  <2> DEFINE g == [req[p] EXCEPT !.pc = step]
  <2>2. req' = [req EXCEPT ![p] = g] /\ g.pc = step /\ g.file = f /\ g.alias = a
    BY <1>1, <2>1 DEF Goto, Goroutine
  <2>3. drawn' = drawn /\ UNCHANGED <<rows, dir, whole, born>>
    BY <1>11 DEF WriteCounter, UpdateCounter, DeleteRow, DeleteFileTx, storeVars
  <2> HIDE DEF g
  <2>4. g.pc \in ServingSteps => g.file \in Good
    BY <1>1, <2>1, <2>2 DEF DownloadOK
  <2> QED BY <1>0, <1>2, <1>5, <2>1, <2>2, <2>3, <2>4
<1>12. CASE AddFile(p)
  <2> DEFINE g == [req[p] EXCEPT !.pc = "createFile", !.file = nextId]
  <2>1. req' = [req EXCEPT ![p] = g] /\ g.pc = "createFile" /\ g.alias = a
    BY <1>1, <1>12, Shapes DEF AddFile, Goroutine
  <2> HIDE DEF g
  <2>2. /\ OnUpload(p) /\ req'[p] = g
        /\ \A q \in Req \ {p} : req'[q] = req[q] /\ OnUpload(q)' = OnUpload(q)
    BY <1>1, <1>12, <2>1, Shapes DEF AddFile, Uncut, At, OnUpload
  <2>3. drawn' = drawn /\ UNCHANGED <<rows, dir, whole, born>> /\ Published' = Published
    BY <1>12 DEF AddFile, AddFileTx, storeVars, Published
  <2>4. UploadOK(p)'
    BY <1>1, <1>12, <2>1, <2>2, <2>3 DEF UploadOK, AddFile, Uncut, At
  <2> QED BY <1>3, <2>1, <2>2, <2>3, <2>4
<1>13. CASE CopyFile(p)
  <2> DEFINE g == [req[p] EXCEPT !.pc = "commitUpload"]
  <2>1. req' = [req EXCEPT ![p] = g] /\ g.pc = "commitUpload" /\ g.alias = a /\ g.file = f
    BY <1>1, <1>13 DEF CopyFile, Goto, Goroutine
  <2> HIDE DEF g
  <2>2. /\ OnUpload(p) /\ req'[p] = g
        /\ \A q \in Req \ {p} : req'[q] = req[q] /\ OnUpload(q)' = OnUpload(q)
    BY <1>1, <1>13, <2>1, Shapes DEF CopyFile, At, OnUpload
  <2>3. /\ drawn' = drawn /\ UNCHANGED <<rows, dir, born>> /\ Published' = Published
        /\ whole' = whole \union {f}
    BY <1>13 DEF CopyFile, FillBlob, tableVars, Published
  <2>4. UploadOK(p)'
    BY <1>1, <1>13, <2>1, <2>2, <2>3 DEF UploadOK, CopyFile, At
  <2> QED BY <1>3, <2>1, <2>2, <2>3, <2>4
<1>14. CASE DeleteFolder(p)
  <2>1. PICK step \in {"commitDelete", "commitLast"} :
           /\ Goto(p, step)
           /\ step = "commitLast" => req[p].pc = "deleteLastFile"
           /\ Knows(p)
    BY <1>14 DEF DeleteFolder, At, OnUpload
  <2> DEFINE g == [req[p] EXCEPT !.pc = step]
  <2>2. req' = [req EXCEPT ![p] = g] /\ g.pc = step /\ g.file = f /\ g.alias = a
    BY <1>1, <2>1 DEF Goto, Goroutine
  <2> HIDE DEF g
  <2>3. /\ drawn' = drawn /\ UNCHANGED <<rows, whole, born>> /\ Published' = Published
        /\ \A b \in Alias, s \in Spelling : dir'[b][s] \subseteq dir[b][s]
    <3>1. drawn' = drawn /\ UNCHANGED <<rows, whole, born>> /\ Published' = Published
      BY <1>14 DEF DeleteFolder, RemoveFolder, tableVars, Published
    <3>2. StoreTypeOK /\ a \in Alias /\ RemoveFolder(a, req[p].spelled)
      BY <1>1, <1>2, <1>14, Shapes DEF DeleteFolder, At
    <3> HIDE DEF a
    <3>3. ASSUME NEW b \in Alias, NEW s \in Spelling PROVE dir'[b][s] \subseteq dir[b][s]
      BY <3>2, BlobsShrink
    <3> QED BY <3>1, <3>3
  <2>4. UploadOK(p)' /\ ~OnUpload(p)' /\ (g.pc \in ServingSteps => g.file \in Good')
    BY <1>1, <2>1, <2>2, <2>3, Shapes DEF UploadOK, DownloadOK, OnUpload, Good
  <2> QED BY <1>0, <1>2, <1>3, <2>1, <2>2, <2>3, <2>4
<1>15. CASE Disconnect(p)
  <2> DEFINE g == [req[p] EXCEPT !.cut = TRUE]
  <2>1. /\ req' = [req EXCEPT ![p] = g]
        /\ g.pc = req[p].pc /\ g.file = f /\ g.alias = a
    BY <1>1, <1>15 DEF Disconnect, Goroutine
  <2> HIDE DEF g
  <2>2. drawn' = drawn /\ UNCHANGED <<rows, dir, whole, born>> /\ Good' = Good
    BY <1>15 DEF Disconnect, Rollback, storeVars, Published, Good
  <2>3. \A q \in Req : /\ OnUpload(q)' = OnUpload(q)
                       /\ req'[q].alias = req[q].alias
                       /\ req'[q].pc = req[q].pc /\ req'[q].file = req[q].file
    BY <1>1, <2>1, Shapes DEF OnUpload
  <2>4. UploadOK(p)' /\ (g.pc \in ServingSteps => g.file \in Good')
    BY <1>1, <2>1, <2>2, <2>3 DEF UploadOK, DownloadOK
  <2>5. \/ g.pc \in UploadSteps \union {"addFile", "idle"}
        \/ g.alias \in Alias /\ Settled(g.alias)
    BY <1>0, <1>2, <2>1 DEF OnUpload
  <2> QED BY <1>3, <2>1, <2>2, <2>3, <2>4, <2>5 DEF Published
<1>16. CASE \/ AddFileTaken(p) \/ OpenFileMisses(p) \/ ReadCounterMisses(p) \/ CutReturn(p)
            \/ DeleteRowMisses(p) \/ DbError(p) \/ StoreError(p)
  <2>1. Return(p) /\ drawn' = drawn /\ UNCHANGED <<rows, born>> /\ Published' = Published
    BY <1>16 DEF AddFileTaken, OpenFileMisses, ReadCounterMisses, CutReturn, DeleteRowMisses,
                 DbError, StoreError, Rollback, tableVars, Published
  <2>2. whole \subseteq whole' /\ \A b \in Alias, s \in Spelling : dir'[b][s] \subseteq dir[b][s]
    <3>1. CASE ~StoreError(p)
      BY <1>16, <3>1 DEF AddFileTaken, OpenFileMisses, ReadCounterMisses, CutReturn,
                         DeleteRowMisses, DbError, storeVars
    <3>2. CASE StoreError(p)
      <4>1. a \in Alias
        BY <1>2, <3>2 DEF StoreError, At, Active
      <4>2. \/ UNCHANGED storeVars \/ FillBlob(f)
            \/ RemoveFolder(a, req[p].spelled) \/ RemoveFolderFails(a, req[p].spelled)
        BY <3>2 DEF StoreError
      <4> HIDE DEF a, f
      <4>3. CASE RemoveFolder(a, req[p].spelled) \/ RemoveFolderFails(a, req[p].spelled)
        <5>1. StoreTypeOK /\ whole' = whole
          BY <1>1, <4>3, Shapes DEF RemoveFolder, RemoveFolderFails
        <5>2. ASSUME NEW b \in Alias, NEW s \in Spelling PROVE dir'[b][s] \subseteq dir[b][s]
          BY <4>1, <4>3, <5>1, BlobsShrink
        <5> QED BY <5>1, <5>2
      <4> QED BY <4>2, <4>3 DEF FillBlob, storeVars
    <3> QED BY <3>1, <3>2
  <2> QED BY <1>4, <2>1, <2>2
<1>17. CASE CommitUpload(p) \/ CommitDownload(p) \/ CommitDelete(p) \/ CommitLost(p)
  <2>1. /\ UNCHANGED <<dir, whole, drawn>> /\ Commit(p) /\ Return(p)
        /\ \E step \in CommitSteps : Uncut(p, step)
        /\ IF At(p, "commitUpload") THEN Publish(p) ELSE UNCHANGED born
    BY <1>17 DEF CommitUpload, CommitDownload, CommitDelete, CommitLost, CommitSteps, Uncut, At,
                 storeVars
  <2>2. InTx(p) /\ req[p].pc \in CommitSteps /\ a \in Alias /\ lock[a] = p
    <3>1. InTx(p) /\ req[p].pc \in CommitSteps
      BY <2>1 DEF CommitSteps, Uncut, At, InTx, TxSteps, RemovalSteps
    <3> QED BY <1>1, <3>1, Holds
  <2>3. \A b \in Alias : rows'[b] = IF b = a THEN pend[a] ELSE rows[b]
    BY <1>1, <2>1, <2>2 DEF Commit, LockInv
  <2>4. \A q \in Req : OnUpload(q)' => q # p /\ OnUpload(q) /\ req'[q] = req[q]
    BY <1>1, <2>1, Shapes DEF Return, OnUpload
  <2>5. CASE At(p, "commitUpload")
    <3>1. /\ pend[a] # NoRow /\ pend[a].id = f /\ OnUpload(p) /\ a \in drawn
          /\ (\A s \in Spelling : dir[a][s] \subseteq {f}) /\ f \in whole /\ f \in FileId
          /\ \A q \in Req : q # p /\ OnUpload(q) => req[q].alias # a
      BY <1>1, <2>2, <2>5, Shapes DEF At, PendInv, HolderOK, UploadOK, OnUpload, Uploading
    <3>2. Published' = Published \union {f}
      BY <1>1, <2>1, <2>5, <3>1, Shapes DEF Publish, Published
    <3>3. ASSUME NEW b \in Alias, b = a PROVE Holding(b)'
      BY <2>1, <2>3, <2>4, <3>1, <3>2, <3>3 DEF Settled, Holding, Good
    <3>4. \A b \in Alias : rows'[b] # NoRow =>
             (rows[b] # NoRow /\ rows'[b].id = rows[b].id) \/ Holding(b)'
      BY <2>3, <3>3
    <3> QED BY <1>4, <2>1, <3>2, <3>4
  <2>6. CASE ~At(p, "commitUpload")
    <3>1. rows'[a] # NoRow => rows[a] # NoRow /\ rows'[a].id = rows[a].id
      BY <1>1, <2>2, <2>3, <2>6 DEF At, CommitSteps, PendInv, HolderOK, RemovalSteps
    <3>2. Published' = Published
      BY <2>1, <2>6 DEF Published
    <3> QED BY <1>4, <2>1, <2>3, <3>1, <3>2
  <2> QED BY <2>5, <2>6
<1> QED BY <1>6, <1>7, <1>8, <1>9, <1>10, <1>11, <1>12, <1>13, <1>14, <1>15, <1>16, <1>17
        DEF RequestBegin, RequestStep

LEMMA ServedWorker ==
    ASSUME ShareInv, ServedInv, UNCHANGED serviceVars,
           WorkerStep \/ RemoveExpiredFails \/ WorkerDbError
    PROVE  ServedInv'
<1>1. TypeInv /\ LockInv /\ PendInv
  BY DEF ShareInv, RowInv
<1>2. /\ whole' = whole /\ drawn' = drawn /\ Published' = Published
      /\ \A q \in Req : Follows(q)
  BY DEF serviceVars, Published, Follows, WorkerStep, CollectExpired, RemoveExpired, CommitExpired,
         RemoveExpiredFails, WorkerDbError, RemoveFolder, RemoveFolderFails, storeVars
<1>3. \A a \in Alias, s \in Spelling : dir'[a][s] \subseteq dir[a][s]
  BY <1>1, WorkerShrinks
<1>4. \A a \in Alias : rows'[a] # NoRow => rows[a] # NoRow /\ rows'[a].id = rows[a].id
  <2>1. CASE CommitExpired
    BY <1>1, <2>1 DEF CommitExpired, Commit, PendInv, WorkerHolds
  <2>2. CASE ~CommitExpired
    BY <2>2 DEF WorkerStep, CollectExpired, DeleteExpiredFilesTx, RemoveExpired,
                RemoveExpiredFails, WorkerDbError, Rollback, tableVars
  <2> QED BY <2>1, <2>2
<1> QED BY <1>1, <1>2, <1>3, <1>4, ServedKept

LEMMA ServedNext == ~AliasReuse /\ ShareInv /\ ServedInv /\ [Next]_vars => ServedInv'
<1> SUFFICES ASSUME ~AliasReuse, ShareInv, ServedInv, [Next]_vars PROVE ServedInv'
  OBVIOUS
<1>0. TypeInv
  BY DEF ShareInv, RowInv
<1>1. ASSUME NEW p \in Req, RequestNext(p) PROVE ServedInv'
  BY <1>1, ServedRequest DEF RequestNext
<1>2. ASSUME NEW p \in Req, RequestFault(p) PROVE ServedInv'
  BY <1>2, ServedRequest DEF RequestFault
<1>3. CASE WorkerNext \/ (WorkerFault /\ UNCHANGED serviceVars)
  BY <1>3, ServedWorker DEF WorkerNext, WorkerFault
<1>4. CASE Fault("crash") /\ Crash
  <2>1. /\ UNCHANGED <<rows, dir, whole, born, drawn>>
        /\ \A q \in Req : req'[q].pc = "idle"
    BY <1>4 DEF Crash, RollbackAll, Idle, storeVars
  <2>2. Published' = Published
    BY <2>1 DEF Published
  <2>3. \A q \in Req : Follows(q)
    BY <2>1 DEF Follows, UploadOK, DownloadOK, Knows, Active, OnUpload, UploadSteps, ServingSteps
  <2> QED BY <1>0, <2>1, <2>2, <2>3, ServedKept
<1>5. CASE UNCHANGED <<rows, storeVars, serviceVars>>
  <2>1. Published' = Published /\ \A q \in Req : Follows(q)
    BY <1>5 DEF Published, Follows, serviceVars
  <2> QED BY <1>0, <1>5, <2>1, ServedKept DEF storeVars, serviceVars
<1> QED BY <1>1, <1>2, <1>3, <1>4, <1>5 DEF Next, Rest, ClockNext, Tick, vars, tableVars

(* Unless alias.Gen repeats itself, a download never holds a file that was *)
(* not published or is not completely written: the commit comes after the  *)
(* whole content has been copied (upload.go:81, :94).                      *)
THEOREM ServedIsWhole ==
    ASSUME ~AliasReuse
    PROVE  Spec => []ServedWhole
<1>1. Init => ShareInv /\ ServedInv
  BY InitTyped, LockInit, PendInit, BlobInit, ServedInit DEF RowInv, ShareInv
<1>2. ShareInv /\ ServedInv /\ [Next]_vars => (ShareInv /\ ServedInv)'
  BY NextTyped, LockNext, PendNext, BlobNext, ServedNext DEF RowInv, ShareInv
<1>3. ServedInv => ServedWhole
  BY DEF ServedInv, DownloadOK, ServingSteps, Good, ServedWhole
<1> QED BY <1>1, <1>2, <1>3, PTL DEF Spec
=============================================================================
