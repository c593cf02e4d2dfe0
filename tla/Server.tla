------------------------------- MODULE Server -------------------------------
(***************************************************************************)
(* The running program: main, the requests in the router, the auth-service *)
(* and the expiry of tokens and files.                                     *)
(***************************************************************************)
EXTENDS Gateway

CONSTANTS
    RolesOf,      \* [User -> SUBSET UserRole] at the start
    Newcomers,    \* users that are not registered yet
    Signals       \* whether a signal to stop may come

ASSUME ServerAssumption ==
    /\ RolesOf \in [User -> SUBSET UserRole]
    /\ Newcomers \subseteq User
    /\ Signals \in BOOLEAN

Init ==
    /\ ProcessInit
    /\ AccountInit(RolesOf, Newcomers \union {DefaultUser})
    /\ files = [a \in Alias |-> NoFile]
    /\ req = [p \in Req |-> Idle]
    /\ goodbye = {}
    /\ admins = {u \in User : HasRole(RolesOf[u], "admin")}

Drained == \A p \in Req : ~Active(p)

MainNext == MainStep(Drained) /\ UNCHANGED <<accountVars, gatewayVars>>

(* A file's time is over. *)
FileExpires ==
    /\ \E a \in Alias : files[a] # NoFile /\ files' = [files EXCEPT ![a] = NoFile]
    /\ UNCHANGED <<processVars, accountVars, req, goodbye, admins>>

(* Nothing is left to do once the process has ended. *)
Ended == main = "exited" /\ UNCHANGED vars

Next ==
    \/ MainNext
    \/ Signals /\ Signal /\ UNCHANGED <<accountVars, gatewayVars>>
    \/ \E p \in Req : Arrive(p) \/ ServeStep(p) \/ Disconnect(p)
    \/ Expire /\ UNCHANGED <<processVars, gatewayVars>>
    \/ FileExpires
    \/ Ended

Spec == Init /\ [][Next]_vars

(* main and the requests under way are goroutines the scheduler runs. *)
FairSpec ==
    /\ Spec
    /\ WF_vars(MainNext)
    /\ \A p \in Req : WF_vars(ServeStep(p))

-----------------------------------------------------------------------------
InDone(p) == req[p].pc = "done"

(* A file is shown to, or deleted by, its owner, an administrator or the   *)
(* bearer of the admin secret (README.md:16, access.go:15), though tokens, *)
(* roles and the files under an alias change between the validation of a   *)
(* token and the call of the service.                                      *)
OwnerOrAdmin ==
    \A p \in Req :
        InDone(p) /\ req[p].did
        /\ req[p].r.route \in {"fileGet", "fileDelete",
                               "adminFileGet", "adminFileDelete"}
        => \/ req[p].r.secret = "right"
           \/ /\ req[p].r.token \in Token
              /\ holder[req[p].r.token] \in admins \union {req[p].touched}

(* Once a logout was answered with success, no request that comes later    *)
(* does anything with the access token (logout.go:38).                     *)
LoggedOutIsRefused ==
    \A p \in Req :
        InDone(p) /\ req[p].stale /\ req[p].r.route \in DOMAIN FileRoutes
        => ~req[p].did

(* A client that is still there and is sent an empty 200 has logged out    *)
(* (logout.go:84), or its request was given up because a call of the       *)
(* auth-service was left unanswered (auth.go:57, :61, login.go:78).  Such  *)
(* a call ends the request wherever it was made: no handler runs behind a  *)
(* token that could not be validated, and none reports a success.          *)
EmptyAnswerHasReason ==
    \A p \in Req : InDone(p) =>
        /\ ~req[p].gone /\ req[p].answer = Unwritten =>
              \/ req[p].failed = "unanswered"
              \/ req[p].did /\ req[p].r.route = "logout"
        /\ req[p].failed = "unanswered" =>
              ~req[p].did /\ req[p].answer \in {Unwritten, 500}

(* No request is accepted before everything it needs is connected, and     *)
(* none is under way when the process ends.                                *)
ServedOnlyWhenReady ==
    \A p \in Req : Active(p) =>
        /\ main # "exited"
        /\ main \in {"wait", "MySql.Close"} => open = Conn

(* A signal ends the process: Shutdown waits for requests that all get     *)
(* their answer, and main for nobody else.                                 *)
SignalEndsProcess == main = "MySql.Close" ~> main = "exited"
=============================================================================
