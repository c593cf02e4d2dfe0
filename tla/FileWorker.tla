----------------------------- MODULE FileWorker -----------------------------
(***************************************************************************)
(* The sweep of services/worker/worker.go: on a tick of its timer it locks *)
(* and deletes a batch of expired rows, removes their folders one by one,  *)
(* and commits; any error rolls the batch back until the next tick.        *)
(***************************************************************************)
EXTENDS FilesTable, LocalStorage

CONSTANT BatchLimit   \* const batchLimit

ASSUME BatchAssumption == BatchLimit \in Nat \ {0}

VARIABLES
    sweeping,    \* a batch's transaction is open
    todo         \* aliases of the batch whose folders are still to be removed

workerVars == <<sweeping, todo>>

WorkerTypeOK ==
    /\ sweeping \in BOOLEAN
    /\ todo \subseteq Alias

WorkerInit ==
    /\ sweeping = FALSE
    /\ todo = {}

Sleep ==
    /\ sweeping' = FALSE
    /\ todo' = {}

(* LIMIT: all of the expired rows, or BatchLimit of them. *)
FullBatch(batch) ==
    \/ batch = Expired /\ Cardinality(batch) <= BatchLimit
    \/ Cardinality(batch) = BatchLimit

(* A tick that finds nothing expired has no effect. *)
CollectExpired ==
    /\ ~sweeping
    /\ \E batch \in SUBSET Expired \ {{}} :
          /\ FullBatch(batch)
          /\ DeleteExpiredFilesTx(Worker, batch)
          /\ todo' = batch
    /\ sweeping' = TRUE
    /\ UNCHANGED storeVars

(* The alias comes from the row, which is still the committed one. *)
RemoveExpired ==
    /\ \E a \in todo :
          /\ RemoveFolder(a, rows[a].spelled)
          /\ todo' = todo \ {a}
    /\ UNCHANGED <<tableVars, sweeping>>

(* Mutant: the commit does not wait for the folders. *)
CommitExpiredEarly ==
    /\ sweeping
    /\ Commit(Worker)
    /\ Sleep
    /\ UNCHANGED storeVars

CommitExpired ==
    /\ sweeping
    /\ todo = {}
    /\ Commit(Worker)
    /\ Sleep
    /\ UNCHANGED storeVars

WorkerStep == CollectExpired \/ RemoveExpired \/ CommitExpired

(* Mutant: the error path forgets the rollback. *)
RemoveExpiredFailsNoRollback ==
    /\ \E a \in todo : RemoveFolderFails(a, rows[a].spelled)
    /\ Sleep
    /\ UNCHANGED tableVars

(* A folder that cannot be removed gives up the whole batch, the folders   *)
(* already removed included.                                               *)
RemoveExpiredFails ==
    /\ \E a \in todo : RemoveFolderFails(a, rows[a].spelled)
    /\ Rollback(Worker)
    /\ Sleep

(* The commit fails.  One that was applied although it reported an error   *)
(* is CommitExpired: the worker only logs either.                          *)
WorkerDbError ==
    /\ sweeping
    /\ todo = {}
    /\ Rollback(Worker)
    /\ Sleep
    /\ UNCHANGED storeVars

=============================================================================
