----------------------------- MODULE RateLimiter -----------------------------
(***************************************************************************)
(* The limiter of infrastructure/redis/rate_limiter.go and the middlewares *)
(* that call it: one Redis counter per address, a script that counts a     *)
(* request and decides, a reset after a right admin secret.  The go-redis  *)
(* client repeats a command it got no answer to; a middleware whose        *)
(* command failed for good lets the request pass.                          *)
(*                                                                         *)
(* Time is a tick of the unit EXPIRE counts in, and is kept only as what   *)
(* is left of it.                                                          *)
(***************************************************************************)
EXTENDS Integers, FiniteSets

CONSTANTS
    Addr,           \* client addresses, the keys of one limiter
    Req,            \* request goroutines
    MaxAttempts,    \* rate_limiter.*.max_attempts
    Window,         \* rate_limiter.*.window, in whole seconds
    Block,          \* rate_limiter.*.block_duration, in whole seconds
    MaxRetries,     \* redis.max_retries
    MaxLate,        \* bound on commands left on closed connections
    AdminRoutes     \* the limiter guards the admin secret

(* A max_attempts of 0 in the file is replaced by its default; a duration  *)
(* below a second becomes 0.                                               *)
ASSUME LimiterAssumption ==
    /\ MaxAttempts \in Nat \ {0}
    /\ Window \in Nat
    /\ Block \in Nat
    /\ MaxRetries \in Nat
    /\ MaxLate \in Nat
    /\ AdminRoutes \in BOOLEAN

VARIABLES
    counter,    \* the key of each address: its value and what is left of it
    call,       \* the call of the limiter each goroutine is in
    late,       \* commands a client gave up on that Redis may still run
    window,     \* history: the window running for each address, its grants
    owed        \* history: what a refused address still has to wait

vars == <<counter, call, late, window, owed>>

Op == {"allow", "reset"}

(* The script compares the count with 1 and with MaxAttempts only, so      *)
(* counting stops at the first value over the limit.                       *)
Count == 0 .. MaxAttempts + 1

Key == [n : Count, left : Nat]

(* n = 0 is a key that does not exist, left = 0 one without a TTL. *)
Absent == [n |-> 0, left |-> 0]

Call == [pc : {"idle", "sent", "ran", "secret"}, op : Op, addr : Addr,
         tries : 0 .. MaxRetries, ok : BOOLEAN]

NoWindow == [left |-> 0, grants |-> 0]

TypeOK ==
    /\ counter \in [Addr -> Key]
    /\ call \in [Req -> Call]
    /\ late \in [Op \X Addr -> 0 .. MaxLate]
    /\ window \in [Addr -> [left : 0 .. Window, grants : Nat]]
    /\ owed \in [Addr -> 0 .. Block]

Init ==
    /\ counter = [a \in Addr |-> Absent]
    /\ call \in [Req -> {c \in Call : /\ c.pc = "idle"
                                      /\ c.op = "allow"
                                      /\ c.tries = 0
                                      /\ ~c.ok}]
    /\ late = [c \in Op \X Addr |-> 0]
    /\ window = [a \in Addr |-> NoWindow]
    /\ owed = [a \in Addr |-> 0]

-----------------------------------------------------------------------------
(* The script. *)

Up(n) == IF n > MaxAttempts THEN n ELSE n + 1

(* EXPIRE with 0 deletes the key. *)
Expire(k, seconds) ==
    IF seconds = 0 THEN Absent ELSE [k EXCEPT !.left = seconds]

(* INCR keeps the TTL of the key it finds. *)
Incr(k) == [k EXCEPT !.n = Up(@)]

(* Mutant: the request after the last one allowed is let through. *)
OverOffByOne(k) == k.n > MaxAttempts + 1

Over(k) == k.n > MaxAttempts

(* Mutant: a refused request does not start the block. *)
ScriptNoBlock(k) ==
    LET c == Incr(k) IN IF c.n = 1 THEN Expire(c, Window) ELSE c

(* Mutant: the key of an address that stays within the limit has no TTL. *)
ScriptNoWindow(k) ==
    LET c == Incr(k) IN IF Over(c) THEN Expire(c, Block) ELSE c

Script(k) ==
    LET c == Incr(k)
    IN  IF Over(c) THEN Expire(c, Block)
        ELSE IF c.n = 1 THEN Expire(c, Window)
        ELSE c

Grants(k) == ~Over(Incr(k))

(* History of one run of the script: a grant belongs to the window that    *)
(* runs, or opens one; a refusal owes the address a whole block.           *)
Granted(w) ==
    IF w.left = 0 THEN [left |-> Window, grants |-> 1]
    ELSE [w EXCEPT !.grants = @ + 1]

RunAllow(a) ==
    /\ counter' = [counter EXCEPT ![a] = Script(@)]
    /\ window' = [window EXCEPT ![a] = IF Grants(counter[a])
                                       THEN Granted(@) ELSE @]
    /\ owed' = [owed EXCEPT ![a] = IF Grants(counter[a]) THEN @ ELSE Block]

(* DEL, and every other way to lose keys, forgets the address. *)
Forget(A) ==
    /\ counter' = [a \in Addr |-> IF a \in A THEN Absent ELSE counter[a]]
    /\ window' = [a \in Addr |-> IF a \in A THEN NoWindow ELSE window[a]]
    /\ owed' = [a \in Addr |-> IF a \in A THEN 0 ELSE owed[a]]

-----------------------------------------------------------------------------
(* A request in the middleware. *)

Become(p, c) == call' = [call EXCEPT ![p] = c]

Return(p) == Become(p, [call[p] EXCEPT !.pc = "idle", !.op = "allow",
                                       !.tries = 0, !.ok = FALSE])

Begin(p) ==
    /\ call[p].pc = "idle"
    /\ \E a \in Addr :
          Become(p, [call[p] EXCEPT !.pc = "sent", !.addr = a])
    /\ UNCHANGED <<counter, late, window, owed>>

(* Redis runs the command; its answer is on the way. *)
RunCommand(p) ==
    /\ call[p].pc = "sent"
    /\ \/ /\ call[p].op = "allow"
          /\ RunAllow(call[p].addr)
          /\ Become(p, [call[p] EXCEPT !.pc = "ran",
                                       !.ok = Grants(counter[call[p].addr])])
       \/ /\ call[p].op = "reset"
          /\ Forget({call[p].addr})
          /\ Become(p, [call[p] EXCEPT !.pc = "ran"])
    /\ UNCHANGED late

(* The answer of Allow: 429, the next handler, or the check of the secret. *)
Allowed(p) ==
    /\ call[p].pc = "ran"
    /\ call[p].op = "allow"
    /\ IF call[p].ok /\ AdminRoutes
       THEN Become(p, [call[p] EXCEPT !.pc = "secret"])
       ELSE Return(p)
    /\ UNCHANGED <<counter, late, window, owed>>

(* A wrong secret is a 401; the right one resets the counter first. *)
CheckSecret(p) ==
    /\ call[p].pc = "secret"
    /\ \/ Return(p)
       \/ Become(p, [call[p] EXCEPT !.pc = "sent", !.op = "reset",
                                    !.tries = 0, !.ok = FALSE])
    /\ UNCHANGED <<counter, late, window, owed>>

ResetAnswered(p) ==
    /\ call[p].pc = "ran"
    /\ call[p].op = "reset"
    /\ Return(p)
    /\ UNCHANGED <<counter, late, window, owed>>

(* The client gives up on a command for good, after its last retry or with *)
(* its request's context: the limiter is disabled and the request passes.  *)
GiveUp(p) ==
    IF call[p].op = "allow" /\ AdminRoutes
    THEN Become(p, [call[p] EXCEPT !.pc = "secret", !.ok = FALSE])
    ELSE Return(p)

(* Mutant: one retry too many. *)
RetryOnceMore(p) ==
    /\ call[p].tries <= MaxRetries
    /\ Become(p, [call[p] EXCEPT !.pc = "sent", !.tries = @ + 1,
                                 !.ok = FALSE])

Retry(p) ==
    /\ call[p].tries < MaxRetries
    /\ Become(p, [call[p] EXCEPT !.pc = "sent", !.tries = @ + 1,
                                 !.ok = FALSE])

(* No answer came: the command never reached Redis, is still to be run, or *)
(* was run and its answer is lost.                                         *)
NoAnswer(p) ==
    /\ call[p].pc \in {"sent", "ran"}
    /\ Retry(p) \/ GiveUp(p)
    /\ LET c == <<call[p].op, call[p].addr>>
       IN  \/ UNCHANGED late
           \/ /\ call[p].pc = "sent"
              /\ late[c] < MaxLate
              /\ late' = [late EXCEPT ![c] = @ + 1]
    /\ UNCHANGED <<counter, window, owed>>

-----------------------------------------------------------------------------
(* Redis and time. *)

(* A command of a connection that was given up is run, or dropped. *)
RunLate ==
    /\ \E c \in Op \X Addr :
          /\ late[c] > 0
          /\ late' = [late EXCEPT ![c] = @ - 1]
          /\ \/ c[1] = "allow" /\ RunAllow(c[2])
             \/ c[1] = "reset" /\ Forget({c[2]})
             \/ UNCHANGED <<counter, window, owed>>
    /\ UNCHANGED call

(* Redis restarts, or evicts keys. *)
LoseKeys ==
    /\ \E A \in SUBSET Addr : A # {} /\ Forget(A)
    /\ UNCHANGED <<call, late>>

Less(n) == IF n = 0 THEN 0 ELSE n - 1

Aged(k) == IF k.left = 1 THEN Absent ELSE [k EXCEPT !.left = Less(@)]

Tick ==
    /\ counter' = [a \in Addr |-> Aged(counter[a])]
    /\ window' = [a \in Addr |-> IF window[a].left <= 1 THEN NoWindow
                                 ELSE [window[a] EXCEPT !.left = Less(@)]]
    /\ owed' = [a \in Addr |-> Less(owed[a])]
    /\ UNCHANGED <<call, late>>

RequestStep(p) ==
    \/ RunCommand(p)
    \/ Allowed(p)
    \/ CheckSecret(p)
    \/ ResetAnswered(p)

Next ==
    \/ \E p \in Req : Begin(p) \/ RequestStep(p) \/ NoAnswer(p)
    \/ RunLate
    \/ LoseKeys
    \/ Tick

Spec == Init /\ [][Next]_vars

(* Time passes in Redis, whatever the clients do. *)
FairSpec == Spec /\ WF_vars(Tick)

-----------------------------------------------------------------------------
(* In the time of one window, from the grant that opened it, an address is *)
(* granted at most max_attempts requests, whatever answers were lost and   *)
(* however commands were repeated or delayed.  It needs a block_duration   *)
(* not below the window.                                                   *)
WindowHolds ==
    \A a \in Addr : window[a].left > 0 => window[a].grants <= MaxAttempts

(* For block_duration after each refusal no run of the script grants the   *)
(* address anything, unless a reset or a restart of Redis removed the key. *)
BlockHolds ==
    [][\A p \in Req : /\ call[p].pc = "sent"
                      /\ call[p].op = "allow"
                      /\ owed[call[p].addr] > 0
                      /\ call'[p].pc = "ran"
                      => ~call'[p].ok]_vars

(* An address no request comes from any more loses its counter: nobody     *)
(* stays blocked, and no key stays in Redis, for ever.                     *)
Quiet(a) ==
    /\ \A p \in Req : call[p].pc # "idle" => call[p].addr # a
    /\ \A op \in Op : late[<<op, a>>] = 0

QuietIsUnblocked ==
    \A a \in Addr : <>[]Quiet(a) => <>[](counter[a] = Absent)
=============================================================================
