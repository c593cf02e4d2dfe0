-------------------------- MODULE RateLimiterProofs --------------------------
(***************************************************************************)
(* Proofs about RateLimiter: its types, the block after a refusal, and the *)
(* bound on the requests granted in one window.                            *)
(***************************************************************************)
EXTENDS RateLimiter, TLAPS

(* Every key has a TTL. *)
Sound(k) == k.n > 0 => k.left > 0

(* While an address owes a block, its key is over the limit and lives on   *)
(* at least that long.                                                     *)
Blocked(k, o) == o > 0 => k.n > MaxAttempts /\ k.left >= o

(* While a key is within the limit, it lives exactly as long as the window *)
(* that its first request opened.                                          *)
Matched(k, w) == k.n \in 1 .. MaxAttempts => w.left = k.left

(* A running window has a key that outlives it and counted its grants.     *)
Held(k, w) ==
    w.left > 0 => /\ w.grants \in 1 .. k.n
                  /\ w.grants <= MaxAttempts
                  /\ w.left <= k.left

KeyInv ==
    \A a \in Addr : Sound(counter[a]) /\ Blocked(counter[a], owed[a])

HeldInv ==
    \A a \in Addr : /\ Matched(counter[a], window[a])
                    /\ Held(counter[a], window[a])

WindowRec == [left : 0 .. Window, grants : Nat]

-----------------------------------------------------------------------------
(* What one run of the script does to a key, to the window and to what is  *)
(* owed.                                                                   *)

LEMMA IncrFacts ==
    ASSUME NEW k \in Key
    PROVE  /\ Incr(k) \in Key
           /\ Incr(k).n = Up(k.n)
           /\ Incr(k).left = k.left
           /\ Up(k.n) \in Count
           /\ Up(k.n) > 0
           /\ Up(k.n) >= k.n
BY LimiterAssumption DEF Incr, Up, Key, Count

LEMMA ExpireFacts ==
    ASSUME NEW k \in Key, NEW s \in Nat
    PROVE  /\ Expire(k, s) \in Key
           /\ s = 0 => Expire(k, s) = Absent
           /\ s # 0 => Expire(k, s).n = k.n /\ Expire(k, s).left = s
BY LimiterAssumption DEF Expire, Absent, Key, Count

(* The three ways through the script. *)
LEMMA ScriptCases ==
    ASSUME NEW k \in Key
    PROVE  /\ Up(k.n) > MaxAttempts => /\ ~Grants(k)
                                       /\ Script(k) = Expire(Incr(k), Block)
           /\ Up(k.n) <= MaxAttempts => /\ Grants(k)
                                        /\ Up(k.n) = k.n + 1
           /\ Grants(k) /\ k.n = 0 => Script(k) = Expire(Incr(k), Window)
           /\ Grants(k) /\ k.n # 0 => Script(k) = Incr(k)
BY IncrFacts, LimiterAssumption DEF Script, Grants, Over, Up, Key, Count

LEMMA ScriptType ==
    ASSUME NEW k \in Key
    PROVE  Script(k) \in Key
BY IncrFacts, ExpireFacts, LimiterAssumption DEF Script

LEMMA ScriptSound ==
    ASSUME NEW k \in Key, Sound(k)
    PROVE  Sound(Script(k))
<1>1. CASE Up(k.n) > MaxAttempts
  <2>1. Script(k) = Expire(Incr(k), Block)
    BY <1>1, ScriptCases
  <2>2. QED
    BY <2>1, IncrFacts, ExpireFacts, LimiterAssumption DEF Sound, Absent
<1>2. CASE Up(k.n) <= MaxAttempts /\ k.n = 0
  <2>1. Script(k) = Expire(Incr(k), Window)
    BY <1>2, ScriptCases
  <2>2. QED
    BY <2>1, IncrFacts, ExpireFacts, LimiterAssumption DEF Sound, Absent
<1>3. CASE Up(k.n) <= MaxAttempts /\ k.n # 0
  BY <1>3, ScriptCases, IncrFacts DEF Sound, Key, Count
<1>4. QED
  BY <1>1, <1>2, <1>3, IncrFacts, LimiterAssumption DEF Count

(* A refusal: the key is over the limit, and lives for a whole block.      *)
LEMMA ScriptRefuses ==
    ASSUME NEW k \in Key, ~Grants(k)
    PROVE  /\ Script(k) = Expire(Incr(k), Block)
           /\ Up(k.n) > MaxAttempts
           /\ Blocked(Script(k), Block)
<1>1. Up(k.n) > MaxAttempts /\ Script(k) = Expire(Incr(k), Block)
  BY ScriptCases, IncrFacts, LimiterAssumption DEF Count
<1>2. QED
  BY <1>1, IncrFacts, ExpireFacts, LimiterAssumption DEF Blocked

(* An address that owes a block is refused.                                *)
LEMMA BlockedRefused ==
    ASSUME NEW k \in Key, NEW o \in Nat, o > 0, Blocked(k, o)
    PROVE  ~Grants(k)
BY IncrFacts, LimiterAssumption DEF Grants, Over, Blocked, Key, Count

LEMMA GrantedType ==
    ASSUME NEW w \in WindowRec
    PROVE  Granted(w) \in WindowRec
BY LimiterAssumption DEF Granted, WindowRec

(* A granted request leaves the key within the limit, its window running  *)
(* as long as the key.                                                     *)
LEMMA ScriptGrants ==
    ASSUME NEW k \in Key, NEW w \in WindowRec,
           Sound(k), Matched(k, w), Held(k, w), Grants(k)
    PROVE  Matched(Script(k), Granted(w)) /\ Held(Script(k), Granted(w))
<1>1. k.n \in 0 .. MaxAttempts - 1 /\ Incr(k).n = k.n + 1
  BY ScriptCases, IncrFacts, LimiterAssumption DEF Up, Key, Count
<1>2. CASE k.n = 0
  <2>1. Script(k) = Expire(Incr(k), Window)
    BY <1>2, ScriptCases
  <2>2. Granted(w) = [left |-> Window, grants |-> 1]
    BY <1>2 DEF Held, Granted, WindowRec
  <2>3. CASE Window = 0
    BY <2>1, <2>2, <2>3, IncrFacts, ExpireFacts, LimiterAssumption
    DEF Absent, Matched, Held
  <2>4. CASE Window # 0
    BY <1>1, <1>2, <2>1, <2>2, <2>4, IncrFacts, ExpireFacts,
       LimiterAssumption
    DEF Matched, Held
  <2>5. QED  BY <2>3, <2>4
<1>3. CASE k.n # 0
  <2>1. Script(k) = Incr(k)
    BY <1>3, ScriptCases
  <2>2. w.left = k.left /\ w.left # 0
    BY <1>1, <1>3, LimiterAssumption DEF Matched, Sound, Key, WindowRec
  <2>3. Granted(w).left = w.left /\ Granted(w).grants = w.grants + 1
    BY <2>2 DEF Granted, WindowRec
  <2>4. w.grants \in 1 .. k.n
    BY <2>2 DEF Held, WindowRec
  <2>5. QED
    BY <1>1, <2>1, <2>2, <2>3, <2>4, IncrFacts, LimiterAssumption
    DEF Matched, Held, WindowRec
<1>4. QED  BY <1>1, <1>2, <1>3

(* A refused request keeps the window within the life of the key, provided *)
(* that a block is no shorter than a window.                               *)
LEMMA ScriptHolds ==
    ASSUME NEW k \in Key, NEW w \in WindowRec,
           Block >= Window, Held(k, w), ~Grants(k)
    PROVE  Matched(Script(k), w) /\ Held(Script(k), w)
<1>1. Script(k) = Expire(Incr(k), Block) /\ Incr(k).n > MaxAttempts
  BY ScriptRefuses, IncrFacts
<1>2. CASE Block = 0
  <2>1. w.left = 0
    BY <1>2, LimiterAssumption DEF WindowRec
  <2>2. Script(k) = Absent
    BY <1>1, <1>2, IncrFacts, ExpireFacts
  <2>3. QED
    BY <2>1, <2>2, LimiterAssumption DEF Matched, Held, Absent
<1>3. CASE Block # 0
  <2>1. Script(k).n = Up(k.n) /\ Script(k).left = Block
    BY <1>1, <1>3, IncrFacts, ExpireFacts, LimiterAssumption
  <2>2. w.left <= Block
    BY LimiterAssumption DEF WindowRec
  <2>3. QED
    BY <1>1, <2>1, <2>2, IncrFacts, LimiterAssumption
    DEF Matched, Held, WindowRec, Key, Count
<1>4. QED  BY <1>2, <1>3

-----------------------------------------------------------------------------
(* Types. *)

RedisType ==
    /\ counter \in [Addr -> Key]
    /\ window \in [Addr -> WindowRec]
    /\ owed \in [Addr -> 0 .. Block]

LEMMA RunAllowType ==
    ASSUME RedisType, NEW a \in Addr, RunAllow(a)
    PROVE  RedisType'
<1>1. counter' \in [Addr -> Key]
  BY ScriptType DEF RedisType, RunAllow
<1>2. window' \in [Addr -> WindowRec]
  BY GrantedType DEF RedisType, RunAllow
<1>3. owed' \in [Addr -> 0 .. Block]
  BY LimiterAssumption DEF RedisType, RunAllow
<1>4. QED  BY <1>1, <1>2, <1>3 DEF RedisType

LEMMA ForgetType ==
    ASSUME RedisType, NEW A, Forget(A)
    PROVE  RedisType'
BY LimiterAssumption
   DEF RedisType, Forget, Absent, NoWindow, Key, Count, WindowRec

LEMMA AgedType ==
    ASSUME NEW k \in Key
    PROVE  Aged(k) \in Key
BY LimiterAssumption DEF Aged, Less, Absent, Key, Count

LEMMA TickType ==
    ASSUME RedisType, Tick
    PROVE  RedisType'
<1>1. counter' \in [Addr -> Key]
  BY AgedType DEF RedisType, Tick
<1>2. window' \in [Addr -> WindowRec]
  BY LimiterAssumption DEF RedisType, Tick, WindowRec, NoWindow, Less
<1>3. owed' \in [Addr -> 0 .. Block]
  <2>1. \A n \in 0 .. Block : Less(n) \in 0 .. Block
    BY LimiterAssumption DEF Less
  <2>2. QED  BY <2>1 DEF RedisType, Tick
<1>4. QED  BY <1>1, <1>2, <1>3 DEF RedisType

(* Every step either leaves Redis alone or is one of these four.           *)
RedisStep ==
    \/ \E a \in Addr : RunAllow(a)
    \/ \E A \in SUBSET Addr : Forget(A)
    \/ Tick
    \/ UNCHANGED <<counter, window, owed>>

LEMMA StepOfRedis ==
    ASSUME TypeOK, [Next]_vars
    PROVE  RedisStep
<1>1. CASE UNCHANGED vars
  BY <1>1 DEF RedisStep, vars
<1>2. ASSUME NEW p \in Req, Begin(p) \/ RequestStep(p) \/ NoAnswer(p)
      PROVE  RedisStep
  <2>1. CASE RunCommand(p)
    <3>1. call[p].addr \in Addr
      BY DEF TypeOK, Call
    <3>2. {call[p].addr} \in SUBSET Addr
      BY <3>1
    <3>3. QED  BY <2>1, <3>1, <3>2 DEF RunCommand, RedisStep
  <2>2. CASE Begin(p) \/ Allowed(p) \/ CheckSecret(p) \/ ResetAnswered(p)
             \/ NoAnswer(p)
    BY <2>2
    DEF Begin, Allowed, CheckSecret, ResetAnswered, NoAnswer, RedisStep
  <2>3. QED  BY <1>2, <2>1, <2>2 DEF RequestStep
<1>3. CASE RunLate
  <2>1. PICK c \in Op \X Addr :
               \/ RunAllow(c[2])
               \/ Forget({c[2]})
               \/ UNCHANGED <<counter, window, owed>>
    BY <1>3 DEF RunLate
  <2>2. c[2] \in Addr /\ {c[2]} \in SUBSET Addr
    OBVIOUS
  <2>3. QED  BY <2>1, <2>2 DEF RedisStep
<1>4. CASE LoseKeys
  BY <1>4 DEF LoseKeys, RedisStep
<1>5. CASE Tick
  BY <1>5 DEF RedisStep
<1>6. QED  BY <1>1, <1>2, <1>3, <1>4, <1>5 DEF Next

LEMMA RedisTyped ==
    ASSUME RedisType, RedisStep
    PROVE  RedisType'
<1>1. ASSUME NEW a \in Addr, RunAllow(a)
      PROVE  RedisType'
  BY <1>1, RunAllowType
<1>2. ASSUME NEW A \in SUBSET Addr, Forget(A)
      PROVE  RedisType'
  BY <1>2, ForgetType
<1>3. CASE Tick
  BY <1>3, TickType
<1>4. CASE UNCHANGED <<counter, window, owed>>
  BY <1>4 DEF RedisType
<1>5. QED  BY <1>1, <1>2, <1>3, <1>4 DEF RedisStep

ClientType ==
    /\ call \in [Req -> Call]
    /\ late \in [Op \X Addr -> 0 .. MaxLate]

LEMMA BecomeType ==
    ASSUME call \in [Req -> Call], NEW p \in Req, NEW c \in Call,
           Become(p, c)
    PROVE  call' \in [Req -> Call]
BY DEF Become

LEMMA ReturnType ==
    ASSUME call \in [Req -> Call], NEW p \in Req, Return(p)
    PROVE  call' \in [Req -> Call]
<1>1. call[p] \in Call /\ 0 \in 0 .. MaxRetries
  BY LimiterAssumption
<1>2. [call[p] EXCEPT !.pc = "idle", !.op = "allow", !.tries = 0,
                      !.ok = FALSE] \in Call
  BY <1>1 DEF Call, Op
<1>3. QED  BY <1>2, BecomeType DEF Return

LEMMA ClientTyped ==
    ASSUME TypeOK, [Next]_vars
    PROVE  ClientType'
<1> USE DEF ClientType, TypeOK
<1>1. CASE UNCHANGED vars
  BY <1>1 DEF vars
<1>2. ASSUME NEW p \in Req, Begin(p) \/ RequestStep(p)
      PROVE  ClientType'
  <2>1. CASE Begin(p)
    <3>1. PICK a \in Addr :
                 Become(p, [call[p] EXCEPT !.pc = "sent", !.addr = a])
      BY <2>1 DEF Begin
    <3>2. [call[p] EXCEPT !.pc = "sent", !.addr = a] \in Call
      BY DEF Call
    <3>3. QED  BY <2>1, <3>1, <3>2, BecomeType DEF Begin
  <2>2. CASE RunCommand(p)
    <3>1. /\ [call[p] EXCEPT !.pc = "ran"] \in Call
          /\ [call[p] EXCEPT !.pc = "ran",
                 !.ok = Grants(counter[call[p].addr])] \in Call
      BY DEF Call, Grants
    <3>2. QED  BY <2>2, <3>1, BecomeType DEF RunCommand
  <2>3. CASE Allowed(p)
    <3>1. [call[p] EXCEPT !.pc = "secret"] \in Call
      BY DEF Call
    <3>2. QED  BY <2>3, <3>1, BecomeType, ReturnType DEF Allowed
  <2>4. CASE CheckSecret(p)
    <3>1. call[p] \in Call /\ 0 \in 0 .. MaxRetries
      BY LimiterAssumption
    <3>2. [call[p] EXCEPT !.pc = "sent", !.op = "reset", !.tries = 0,
                          !.ok = FALSE] \in Call
      BY <3>1 DEF Call, Op
    <3>3. QED  BY <2>4, <3>2, BecomeType, ReturnType DEF CheckSecret
  <2>5. CASE ResetAnswered(p)
    BY <2>5, ReturnType DEF ResetAnswered
  <2>6. QED
    BY <1>2, <2>1, <2>2, <2>3, <2>4, <2>5 DEF RequestStep
<1>3. ASSUME NEW p \in Req, NoAnswer(p)
      PROVE  ClientType'
  <2>1. call' \in [Req -> Call]
    <3>1. CASE Retry(p)
      <4>1. call[p].tries + 1 \in 0 .. MaxRetries
        BY <3>1, LimiterAssumption DEF Retry, Call
      <4>2. [call[p] EXCEPT !.pc = "sent", !.tries = @ + 1,
                            !.ok = FALSE] \in Call
        BY <4>1 DEF Call
      <4>3. QED  BY <3>1, <4>2, BecomeType DEF Retry
    <3>2. CASE GiveUp(p)
      <4>1. [call[p] EXCEPT !.pc = "secret", !.ok = FALSE] \in Call
        BY DEF Call
      <4>2. QED  BY <3>2, <4>1, BecomeType, ReturnType DEF GiveUp
    <3>3. QED  BY <1>3, <3>1, <3>2 DEF NoAnswer
  <2>2. <<call[p].op, call[p].addr>> \in Op \X Addr
    BY DEF Call
  <2>3. late' \in [Op \X Addr -> 0 .. MaxLate]
    <3> DEFINE c == <<call[p].op, call[p].addr>>
    <3>1. \/ late' = late
          \/ late[c] < MaxLate /\ late' = [late EXCEPT ![c] = @ + 1]
      BY <1>3 DEF NoAnswer
    <3>2. late \in [Op \X Addr -> 0 .. MaxLate] /\ c \in Op \X Addr
      BY <2>2
    <3> HIDE DEF c
    <3>3. late[c] < MaxLate => late[c] + 1 \in 0 .. MaxLate
      BY <3>2, LimiterAssumption
    <3>4. QED  BY <3>1, <3>2, <3>3
  <2>4. QED  BY <2>1, <2>3
<1>4. CASE RunLate
  BY <1>4, LimiterAssumption DEF RunLate
<1>5. CASE LoseKeys \/ Tick
  BY <1>5 DEF LoseKeys, Tick
<1>6. QED  BY <1>1, <1>2, <1>3, <1>4, <1>5 DEF Next

LEMMA InitTyped == Init => TypeOK
BY LimiterAssumption
   DEF Init, TypeOK, Call, Op, Key, Count, Absent, NoWindow

LEMMA StepTyped == TypeOK /\ [Next]_vars => TypeOK'
<1> SUFFICES ASSUME TypeOK, [Next]_vars PROVE TypeOK'
  OBVIOUS
<1>1. RedisType
  BY DEF TypeOK, RedisType, WindowRec
<1>2. RedisType' /\ ClientType'
  BY <1>1, StepOfRedis, RedisTyped, ClientTyped
<1>3. QED  BY <1>2 DEF TypeOK, RedisType, ClientType, WindowRec

(* Redis, the clients and the history stay within their types: the count   *)
(* stops, retries end, commands left behind are bounded.                   *)
THEOREM LimiterTypeCorrect == Spec => []TypeOK
<1>1. QED  BY InitTyped, StepTyped, PTL DEF Spec

-----------------------------------------------------------------------------
(* The block.                                                              *)

LEMMA RunAllowKeys ==
    ASSUME RedisType, KeyInv, NEW a \in Addr, RunAllow(a)
    PROVE  KeyInv'
<1> SUFFICES ASSUME NEW b \in Addr
             PROVE  Sound(counter'[b]) /\ Blocked(counter'[b], owed'[b])
  BY DEF KeyInv
<1>1. counter[b] \in Key /\ owed[b] \in Nat
      /\ Sound(counter[b]) /\ Blocked(counter[b], owed[b])
  BY LimiterAssumption DEF RedisType, KeyInv
<1>2. CASE b # a
  BY <1>1, <1>2 DEF RunAllow, RedisType
<1>3. CASE b = a /\ Grants(counter[b])
  <2>1. counter'[b] = Script(counter[b]) /\ owed'[b] = owed[b]
    BY <1>3 DEF RunAllow, RedisType
  <2>2. owed[b] = 0
    BY <1>1, <1>3, BlockedRefused
  <2>3. QED  BY <1>1, <2>1, <2>2, ScriptSound DEF Blocked
<1>4. CASE b = a /\ ~Grants(counter[b])
  <2>1. counter'[b] = Script(counter[b]) /\ owed'[b] = Block
    BY <1>4 DEF RunAllow, RedisType
  <2>2. QED  BY <1>1, <1>4, <2>1, ScriptSound, ScriptRefuses
<1>5. QED  BY <1>2, <1>3, <1>4

LEMMA TickKeys ==
    ASSUME RedisType, KeyInv, Tick
    PROVE  KeyInv'
<1> SUFFICES ASSUME NEW b \in Addr
             PROVE  Sound(counter'[b]) /\ Blocked(counter'[b], owed'[b])
  BY DEF KeyInv
<1>1. counter[b] \in Key /\ owed[b] \in Nat
      /\ Sound(counter[b]) /\ Blocked(counter[b], owed[b])
  BY LimiterAssumption DEF RedisType, KeyInv
<1>2. counter'[b] = Aged(counter[b]) /\ owed'[b] = Less(owed[b])
  BY DEF Tick
<1>3. CASE counter[b].left = 1
  BY <1>1, <1>2, <1>3 DEF Aged, Less, Absent, Sound, Blocked, Key
<1>4. CASE counter[b].left # 1
  <2>1. counter'[b].n = counter[b].n
        /\ counter'[b].left = Less(counter[b].left)
    BY <1>1, <1>2, <1>4 DEF Aged, Key
  <2>2. QED
    BY <1>1, <1>2, <1>4, <2>1, LimiterAssumption
    DEF Less, Sound, Blocked, Key, Count
<1>5. QED  BY <1>3, <1>4

LEMMA StepKeys ==
    ASSUME RedisType, KeyInv, RedisStep
    PROVE  KeyInv'
<1>1. ASSUME NEW A \in SUBSET Addr, Forget(A)
      PROVE  KeyInv'
  BY <1>1 DEF Forget, KeyInv, Absent, Sound, Blocked
<1>2. CASE UNCHANGED <<counter, window, owed>>
  BY <1>2 DEF KeyInv
<1>3. QED  BY <1>1, <1>2, RunAllowKeys, TickKeys DEF RedisStep

LEMMA KeysAlways == Spec => [](TypeOK /\ KeyInv)
<1>1. Init => TypeOK /\ KeyInv
  <2>1. Init => KeyInv
    BY DEF Init, KeyInv, Sound, Blocked, Absent
  <2>2. QED  BY <2>1, InitTyped
<1>2. TypeOK /\ KeyInv /\ [Next]_vars => (TypeOK /\ KeyInv)'
  <2>1. TypeOK => RedisType
    BY DEF TypeOK, RedisType, WindowRec
  <2>2. QED  BY <2>1, StepTyped, StepOfRedis, StepKeys
<1>3. QED  BY <1>1, <1>2, PTL DEF Spec

(* After a refusal an address is granted nothing for block_duration, under *)
(* every interleaving of requests, retries, late commands and resets.      *)
THEOREM BlockBound == Spec => BlockHolds
<1> DEFINE Step == \A p \in Req : /\ call[p].pc = "sent"
                                  /\ call[p].op = "allow"
                                  /\ owed[call[p].addr] > 0
                                  /\ call'[p].pc = "ran"
                                  => ~call'[p].ok
<1>1. TypeOK /\ KeyInv /\ [Next]_vars => [Step]_vars
  <2> SUFFICES ASSUME TypeOK, KeyInv, Next, NEW p \in Req,
                      call[p].pc = "sent", call[p].op = "allow",
                      owed[call[p].addr] > 0, call'[p].pc = "ran"
               PROVE  ~call'[p].ok
    OBVIOUS
  <2>1. ~Grants(counter[call[p].addr])
    <3>1. call[p].addr \in Addr
      BY DEF TypeOK, Call
    <3>2. QED
      BY <3>1, BlockedRefused, LimiterAssumption DEF TypeOK, KeyInv
  <2>2. ASSUME NEW q \in Req, Begin(q) \/ RequestStep(q) \/ NoAnswer(q)
        PROVE  q = p /\ RunCommand(p)
    <3>1. q = p
      BY <2>2
      DEF Begin, RequestStep, RunCommand, Allowed, CheckSecret,
          ResetAnswered, NoAnswer, Retry, GiveUp, Return, Become, TypeOK
    <3>2. call[p] \in Call
      BY DEF TypeOK
    <3>3. ~Begin(p) /\ ~Allowed(p) /\ ~CheckSecret(p) /\ ~ResetAnswered(p)
      BY DEF Begin, Allowed, CheckSecret, ResetAnswered
    <3>4. ~NoAnswer(p)
      <4>1. call'[p].pc # "ran" \/ ~(Retry(p) \/ GiveUp(p))
        <5>1. Retry(p) => call'[p].pc = "sent"
          BY <3>2 DEF Retry, Become, TypeOK, Call
        <5>2. GiveUp(p) => call'[p].pc \in {"secret", "idle"}
          <6>1. Return(p) => call'[p].pc = "idle"
            BY <3>2 DEF Return, Become, TypeOK, Call
          <6>2. Become(p, [call[p] EXCEPT !.pc = "secret", !.ok = FALSE])
                => call'[p].pc = "secret"
            BY <3>2 DEF Become, TypeOK, Call
          <6>3. QED  BY <6>1, <6>2 DEF GiveUp
        <5>3. QED  BY <5>1, <5>2
      <4>2. QED  BY <4>1 DEF NoAnswer
    <3>5. QED  BY <2>2, <3>1, <3>3, <3>4 DEF RequestStep
  <2>3. RunCommand(p)
    BY <2>2 DEF Next, RunLate, LoseKeys, Tick
  <2>4. call'[p] = [call[p] EXCEPT !.pc = "ran",
                        !.ok = Grants(counter[call[p].addr])]
    BY <2>3 DEF RunCommand, Become, TypeOK
  <2>5. call'[p].ok = Grants(counter[call[p].addr])
    BY <2>4 DEF TypeOK, Call
  <2>6. QED  BY <2>1, <2>5
<1>2. QED  BY <1>1, KeysAlways, PTL DEF Spec, BlockHolds

-----------------------------------------------------------------------------
(* The window.                                                             *)

LEMMA RunAllowHeld ==
    ASSUME RedisType, KeyInv, HeldInv, Block >= Window,
           NEW a \in Addr, RunAllow(a)
    PROVE  HeldInv'
<1> SUFFICES ASSUME NEW b \in Addr
             PROVE  /\ Matched(counter'[b], window'[b])
                    /\ Held(counter'[b], window'[b])
  BY DEF HeldInv
<1>1. /\ counter[b] \in Key
      /\ window[b] \in WindowRec
      /\ Sound(counter[b])
      /\ Matched(counter[b], window[b])
      /\ Held(counter[b], window[b])
  BY DEF RedisType, KeyInv, HeldInv
<1>2. CASE b # a
  BY <1>1, <1>2 DEF RunAllow, RedisType
<1>3. CASE b = a /\ Grants(counter[b])
  <2>1. counter'[b] = Script(counter[b]) /\ window'[b] = Granted(window[b])
    BY <1>3 DEF RunAllow, RedisType
  <2>2. QED  BY <1>1, <1>3, <2>1, ScriptGrants
<1>4. CASE b = a /\ ~Grants(counter[b])
  <2>1. counter'[b] = Script(counter[b]) /\ window'[b] = window[b]
    BY <1>4 DEF RunAllow, RedisType
  <2>2. QED  BY <1>1, <1>4, <2>1, ScriptHolds
<1>5. QED  BY <1>2, <1>3, <1>4

LEMMA TickHeld ==
    ASSUME RedisType, HeldInv, Tick
    PROVE  HeldInv'
<1> SUFFICES ASSUME NEW b \in Addr
             PROVE  /\ Matched(counter'[b], window'[b])
                    /\ Held(counter'[b], window'[b])
  BY DEF HeldInv
<1> DEFINE k == counter[b]
           w == window[b]
<1>1. k \in Key /\ w \in WindowRec /\ Matched(k, w) /\ Held(k, w)
  BY DEF RedisType, HeldInv
<1>2. /\ counter'[b] = Aged(k)
      /\ window'[b] = IF w.left <= 1 THEN NoWindow
                      ELSE [w EXCEPT !.left = Less(@)]
  BY DEF Tick
<1>3. CASE k.left = 1
  <2>1. counter'[b] = Absent /\ window'[b] = NoWindow
    BY <1>1, <1>2, <1>3, LimiterAssumption DEF Aged, Held, WindowRec
  <2>2. QED  BY <2>1 DEF Absent, NoWindow, Matched, Held
<1>4. CASE k.left # 1 /\ w.left <= 1
  <2>1. window'[b] = NoWindow
    BY <1>2, <1>4
  <2>2. counter'[b].n = k.n /\ counter'[b].left = Less(k.left)
    BY <1>1, <1>2, <1>4 DEF Aged, Key
  <2>3. k.n \in 1 .. MaxAttempts => k.left = 0
    BY <1>1, <1>4, LimiterAssumption DEF Matched, Key, WindowRec
  <2>4. QED
    BY <2>1, <2>2, <2>3 DEF NoWindow, Matched, Held, Less
<1>5. CASE k.left # 1 /\ w.left > 1
  <2>1. window'[b].left = w.left - 1 /\ window'[b].grants = w.grants
    BY <1>1, <1>2, <1>5, LimiterAssumption DEF Less, WindowRec
  <2>2. k.left > 1
    BY <1>1, <1>5, LimiterAssumption DEF Held, Key, WindowRec
  <2>3. counter'[b].n = k.n /\ counter'[b].left = k.left - 1
    BY <1>1, <1>2, <1>5, <2>2 DEF Aged, Less, Key
  <2>4. QED
    BY <1>1, <1>5, <2>1, <2>2, <2>3, LimiterAssumption
    DEF Matched, Held, Key, WindowRec
<1>6. QED  BY <1>1, <1>3, <1>4, <1>5, LimiterAssumption DEF WindowRec

LEMMA StepHeld ==
    ASSUME RedisType, KeyInv, HeldInv, Block >= Window, RedisStep
    PROVE  HeldInv'
<1>1. ASSUME NEW A \in SUBSET Addr, Forget(A)
      PROVE  HeldInv'
  BY <1>1 DEF Forget, HeldInv, Absent, NoWindow, Matched, Held
<1>2. CASE UNCHANGED <<counter, window, owed>>
  BY <1>2 DEF HeldInv
<1>3. QED  BY <1>1, <1>2, RunAllowHeld, TickHeld DEF RedisStep

(* With a block_duration no shorter than the window, no window of an       *)
(* address grants more than max_attempts requests.                         *)
THEOREM WindowBound ==
    ASSUME Block >= Window
    PROVE  Spec => []WindowHolds
<1>1. Init => HeldInv
  BY LimiterAssumption
  DEF Init, HeldInv, Matched, Held, Absent, NoWindow
<1>2. TypeOK /\ KeyInv /\ HeldInv /\ [Next]_vars => HeldInv'
  <2>1. TypeOK => RedisType
    BY DEF TypeOK, RedisType, WindowRec
  <2>2. QED  BY <2>1, StepOfRedis, StepHeld
<1>3. HeldInv => WindowHolds
  BY DEF HeldInv, Held, WindowHolds
<1>4. QED  BY <1>1, <1>2, <1>3, KeysAlways, PTL DEF Spec

=============================================================================
