----------------------------- MODULE FilesTable -----------------------------
(***************************************************************************)
(* The files table of infrastructure/mysql/files.go and the InnoDB         *)
(* transactions its callers run on it (REPEATABLE READ, the default that   *)
(* BeginTx(ctx, nil) asks for).                                            *)
(*                                                                         *)
(* A plain SELECT is a consistent read: it sees committed rows and takes   *)
(* no lock.  INSERT, UPDATE, DELETE and SELECT ... FOR UPDATE lock the     *)
(* alias they touch, present or not, until the transaction ends; a second  *)
(* transaction waits, which is the guard Unlocked.  What a transaction has *)
(* written is in pend until it commits.                                    *)
(***************************************************************************)
EXTENDS Domain, FiniteSetsExt

CONSTANT MaxTime      \* bound on the clock

VARIABLES
    rows,        \* [Alias -> committed row or NoRow]
    pend,        \* [Alias -> what the lock's holder has made of the row]
    lock,        \* [Alias -> Actor or None]
    nextId,      \* AUTO_INCREMENT of files.id
    now          \* NOW() of the server

tableVars == <<rows, pend, lock, nextId, now>>

TableTypeOK ==
    /\ rows \in [Alias -> Row \union {NoRow}]
    /\ pend \in [Alias -> Row \union {NoRow}]
    /\ lock \in [Alias -> Actor \union {None}]
    /\ nextId \in Nat \ {0}
    /\ now \in Nat

TableInit ==
    /\ rows = [a \in Alias |-> NoRow]
    /\ pend = [a \in Alias |-> NoRow]
    /\ lock = [a \in Alias |-> None]
    /\ nextId = 1
    /\ now = 0

Unlocked(a) == lock[a] = None

(* Statement results ------------------------------------------------------*)

(* WHERE alias = ? AND expires_at > NOW(): every lookup for a request.     *)
Live(row) == row # NoRow /\ row.exp > now

Visible(a) == Live(rows[a])

(* COUNT and SUM of GetFilesStatByUserID: no condition on expires_at.      *)
FilesOf(u) == {a \in Alias : rows[a] # NoRow /\ rows[a].owner = u}

FilesStat(u) ==
    [count |-> Cardinality(FilesOf(u)),
     size  |-> MapThenSumSet(LAMBDA a : rows[a].size, FilesOf(u))]

(* WHERE expires_at < NOW(): strictly, so that a row whose time is NOW()   *)
(* is neither visible nor collected.                                       *)
Expired == {a \in Alias : rows[a] # NoRow /\ rows[a].exp < now}

(* Statements of a transaction of actor p ---------------------------------*)

(* INSERT by AddFileTx; a row already there is the duplicate-key error     *)
(* ErrAliasTaken, which leaves the table alone.                            *)
AliasTaken(a) == Unlocked(a) /\ rows[a] # NoRow

(* Mutant: the INSERT runs on the pool, outside of the transaction. *)
AddFileAutocommit(p, a, row) ==
    /\ Unlocked(a)
    /\ rows[a] = NoRow
    /\ rows' = [rows EXCEPT ![a] = row]
    /\ nextId' = nextId + 1
    /\ UNCHANGED <<pend, lock, now>>

AddFileTx(p, a, row) ==
    /\ Unlocked(a)
    /\ rows[a] = NoRow
    /\ lock' = [lock EXCEPT ![a] = p]
    /\ pend' = [pend EXCEPT ![a] = row]
    /\ nextId' = nextId + 1
    /\ UNCHANGED <<rows, now>>

(* UPDATE files SET downloads_left = n WHERE alias = a.  It matches        *)
(* whatever row is there by now, or none; RowsAffected is not looked at.   *)
(* Mutant: SET downloads_left = downloads_left - 1, while the caller still *)
(* goes by the value it read.                                              *)
UpdateCounterRelative(p, a, n) ==
    /\ Unlocked(a)
    /\ lock' = [lock EXCEPT ![a] = p]
    /\ pend' = [pend EXCEPT ![a] =
                   IF rows[a] = NoRow THEN NoRow ELSE [rows[a] EXCEPT !.left = @ - 1]]
    /\ UNCHANGED <<rows, nextId, now>>

(* Mutant: the UPDATE runs on the pool and is committed at once. *)
UpdateCounterAutocommit(p, a, n) ==
    /\ Unlocked(a)
    /\ rows' = [rows EXCEPT ![a] =
                   IF rows[a] = NoRow THEN NoRow ELSE [rows[a] EXCEPT !.left = n]]
    /\ UNCHANGED <<pend, lock, nextId, now>>

UpdateCounter(p, a, n) ==
    /\ Unlocked(a)
    /\ lock' = [lock EXCEPT ![a] = p]
    /\ pend' = [pend EXCEPT ![a] =
                   IF rows[a] = NoRow THEN NoRow ELSE [rows[a] EXCEPT !.left = n]]
    /\ UNCHANGED <<rows, nextId, now>>

(* DELETE by DeleteFileTx: the current version, the transaction's own or   *)
(* the committed one, and only while it is live.                           *)
Current(p, a) == IF lock[a] = p THEN pend[a] ELSE rows[a]

(* Mutant: the DELETE runs on the pool and is committed at once. *)
DeleteFileAutocommit(p, a) ==
    /\ lock[a] \in {None, p}
    /\ Live(Current(p, a))
    /\ rows' = [rows EXCEPT ![a] = NoRow]
    /\ UNCHANGED <<pend, lock, nextId, now>>

DeleteFileTx(p, a) ==
    /\ lock[a] \in {None, p}
    /\ Live(Current(p, a))
    /\ lock' = [lock EXCEPT ![a] = p]
    /\ pend' = [pend EXCEPT ![a] = NoRow]
    /\ UNCHANGED <<rows, nextId, now>>

DeleteMisses(p, a) ==
    /\ lock[a] \in {None, p}
    /\ ~Live(Current(p, a))

(* SELECT alias ... LIMIT ? FOR UPDATE and the DELETE of each alias.  The  *)
(* statement waits for every row it selects, and LIMIT without ORDER BY    *)
(* may pick any of them.                                                   *)
DeleteExpiredFilesTx(p, batch) ==
    /\ \A a \in batch : Unlocked(a)
    /\ lock' = [a \in Alias |-> IF a \in batch THEN p ELSE lock[a]]
    /\ pend' = [a \in Alias |-> IF a \in batch THEN NoRow ELSE pend[a]]
    /\ UNCHANGED <<rows, nextId, now>>

(* Ends of a transaction --------------------------------------------------*)

Release(p) ==
    /\ lock' = [a \in Alias |-> IF lock[a] = p THEN None ELSE lock[a]]
    /\ pend' = [a \in Alias |-> IF lock[a] = p THEN NoRow ELSE pend[a]]
    /\ UNCHANGED <<nextId, now>>

Commit(p) ==
    /\ rows' = [a \in Alias |-> IF lock[a] = p THEN pend[a] ELSE rows[a]]
    /\ Release(p)

Rollback(p) ==
    /\ Release(p)
    /\ UNCHANGED rows

(* The database rolls back whatever the dead process had open. *)
RollbackAll ==
    /\ lock' = [a \in Alias |-> None]
    /\ pend' = [a \in Alias |-> NoRow]
    /\ UNCHANGED <<rows, nextId, now>>

(* One unit of the database's clock. *)
Tick ==
    /\ now < MaxTime
    /\ now' = now + 1
    /\ UNCHANGED <<rows, pend, lock, nextId>>
=============================================================================
