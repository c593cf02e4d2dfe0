------------------------------ MODULE Lifecycle ------------------------------
(***************************************************************************)
(* The process of cmd/expire-share and the apps it starts: connections are *)
(* opened one by one, then the HTTP server and the file worker run in      *)
(* goroutines of their own until a signal; then the connections are closed *)
(* and only after them the server is shut down.                            *)
(***************************************************************************)
EXTENDS Integers

VARIABLES
    main,        \* what main executes next
    open,        \* the connections that are open
    listening,   \* the HTTP server accepts requests
    sweeper      \* the FileWorker goroutine runs

processVars == <<main, open, listening, sweeper>>

Conn == {"mysql", "redis", "auth"}

Phase == {"MySql.MustConnect", "Redis.MustConnect", "Auth.MustConnect",
          "go", "wait", "MySql.Close", "Auth.Close", "Redis.Close",
          "HTTP.Shutdown", "drain", "exited"}

ProcessTypeOK ==
    /\ main \in Phase
    /\ open \subseteq Conn
    /\ listening \in BOOLEAN
    /\ sweeper \in BOOLEAN

ProcessInit ==
    /\ main = "MySql.MustConnect"
    /\ open = {}
    /\ listening = FALSE
    /\ sweeper = FALSE

(* A connection that cannot be opened ends the process. *)
ExitProcess ==
    /\ main' = "exited"
    /\ open' = {}
    /\ listening' = FALSE
    /\ sweeper' = FALSE

Connect(conn, here, next) ==
    /\ main = here
    /\ \/ /\ main' = next
          /\ open' = open \union {conn}
          /\ UNCHANGED <<listening, sweeper>>
       \/ ExitProcess

ConnectMySql == Connect("mysql", "MySql.MustConnect", "Redis.MustConnect")

ConnectRedis == Connect("redis", "Redis.MustConnect", "Auth.MustConnect")

ConnectAuth == Connect("auth", "Auth.MustConnect", "go")

(* go HTTP.MustRun and go StartFileWorker; a port that is taken ends the   *)
(* process.                                                                *)
StartGoroutines ==
    /\ main = "go"
    /\ \/ /\ main' = "wait"
          /\ listening' = TRUE
          /\ sweeper' = TRUE
          /\ UNCHANGED open
       \/ ExitProcess

(* SIGINT or SIGTERM. *)
Signal ==
    /\ main = "wait"
    /\ main' = "MySql.Close"
    /\ UNCHANGED <<open, listening, sweeper>>

(* An error of Close is dropped. *)
CloseConn(conn, here, next) ==
    /\ main = here
    /\ main' = next
    /\ open' = open \ {conn}
    /\ UNCHANGED <<listening, sweeper>>

CloseMySql == CloseConn("mysql", "MySql.Close", "Auth.Close")

CloseAuth == CloseConn("auth", "Auth.Close", "Redis.Close")

CloseRedis == CloseConn("redis", "Redis.Close", "HTTP.Shutdown")

(* Mutant: the listeners stay open while Shutdown waits. *)
StopListeningNot ==
    /\ main = "HTTP.Shutdown"
    /\ main' = "drain"
    /\ UNCHANGED <<open, listening, sweeper>>

(* Shutdown closes the listeners, then waits for the requests under way;   *)
(* its context has no deadline.                                            *)
StopListening ==
    /\ main = "HTTP.Shutdown"
    /\ main' = "drain"
    /\ listening' = FALSE
    /\ UNCHANGED <<open, sweeper>>

(* Mutant: main does not wait for Shutdown to return. *)
ReturnUndrained(drained) == main = "drain" /\ ExitProcess

(* main returns: the deferred cancel comes too late for the worker to see. *)
Return(drained) ==
    /\ main = "drain"
    /\ drained
    /\ ExitProcess

MainStep(drained) ==
    \/ ConnectMySql
    \/ ConnectRedis
    \/ ConnectAuth
    \/ StartGoroutines
    \/ CloseMySql
    \/ CloseAuth
    \/ CloseRedis
    \/ StopListening
    \/ Return(drained)
=============================================================================
