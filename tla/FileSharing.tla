---------------------------- MODULE FileSharing ----------------------------
(***************************************************************************)
(* What the service promises of each file, without a word about rows,      *)
(* transactions, folders, requests or a worker: a file is published once   *)
(* under terms that never change, and leaves for a reason or not at all.   *)
(***************************************************************************)
EXTENDS Domain, Access

CONSTANT RolesOf

VARIABLES
    terms,      \* [FileId -> the row it was published with, or NoRow]
    status,     \* [FileId -> "unborn", "shared" or "gone"]
    served,     \* [FileId -> downloads handed out]
    asked,      \* files somebody allowed to has asked to delete
    now

vars == <<terms, status, served, asked, now>>

Init ==
    /\ terms = [f \in FileId |-> NoRow]
    /\ status = [f \in FileId |-> "unborn"]
    /\ served = [f \in FileId |-> 0]
    /\ asked = {}
    /\ now = 0

Shared(f) == status[f] = "shared"

Publish(f) ==
    /\ status[f] = "unborn"
    /\ status' = [status EXCEPT ![f] = "shared"]
    /\ terms' = [terms EXCEPT ![f] = terms'[f]]
    /\ terms'[f] \in {row \in Row : row.id = f}
    /\ UNCHANGED <<served, asked, now>>

Gone(files) == status' = [f \in FileId |-> IF f \in files THEN "gone" ELSE status[f]]

(* A download may finish after the file has gone: it started before. *)
Serve(f) ==
    /\ status[f] # "unborn"
    /\ served' = [served EXCEPT ![f] = @ + 1]
    /\ UNCHANGED <<terms, status, asked, now>>

(* No download may take the file away before all that were promised have   *)
(* been handed out, this one included.                                     *)
ServeLast(f) ==
    /\ Shared(f)
    /\ served' = [served EXCEPT ![f] = @ + 1]
    /\ served'[f] >= terms[f].left
    /\ Gone({f})
    /\ UNCHANGED <<terms, asked, now>>

Ask(f) ==
    /\ Shared(f)
    /\ terms[f].exp > now
    /\ \E u \in User : CheckAccess(terms[f], u, RolesOf[u])
    /\ asked' = asked \union {f}
    /\ UNCHANGED <<terms, status, served, now>>

Withdraw(f) ==
    /\ Shared(f)
    /\ f \in asked
    /\ Gone({f})
    /\ UNCHANGED <<terms, served, asked, now>>

Expire ==
    /\ \E files \in SUBSET {f \in FileId : Shared(f) /\ terms[f].exp < now} :
          /\ files # {}
          /\ Gone(files)
    /\ UNCHANGED <<terms, served, asked, now>>

Tick ==
    /\ now' = now + 1
    /\ UNCHANGED <<terms, status, served, asked>>

Next ==
    \/ \E f \in FileId : Publish(f) \/ Serve(f) \/ ServeLast(f) \/ Ask(f) \/ Withdraw(f)
    \/ Expire
    \/ Tick

Spec == Init /\ [][Next]_vars
=============================================================================
