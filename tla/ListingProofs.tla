---------------------------- MODULE ListingProofs ----------------------------
(***************************************************************************)
(* Proofs about Listing, for every set of users, files and requests, every *)
(* page and limit, and any number of changes between the two queries.      *)
(***************************************************************************)
EXTENDS Listing, FiniteSetTheorems, TLAPS

(***************************************************************************)
(* The sum of the sizes of a user's files is a number.  The fold is        *)
(* defined for every subset of the rows, the smaller ones first; a         *)
(* counterexample would have a smallest one.                               *)
(***************************************************************************)
LEMMA Smallest ==
    ASSUME NEW T, T \subseteq Nat, T # {}
    PROVE  \E n \in T : \A m \in T : n <= m
<1>1. PICK n \in T : \A m \in T : <<m, n>> \notin OpToRel(<, Nat)
  BY WFMin, NatLessThanWellFounded
<1>2. \A m \in T : ~(m < n)
  BY <1>1 DEF OpToRel
<1> QED BY <1>2

Any(s) == CHOOSE f \in s : TRUE

Sizes == [File -> Nat]

(* One step of the fold: total is what is known of the smaller sets. *)
Step(sizes, total, s) == IF s = {} THEN 0 ELSE sizes[Any(s)] + total[s \ {Any(s)}]

LEMMA Lesser ==
    ASSUME NEW s \in SUBSET File, s # {}
    PROVE  /\ Any(s) \in File /\ s \ {Any(s)} \in SUBSET s
           /\ IsFiniteSet(s) /\ Cardinality(s) \in Nat \ {0}
           /\ Cardinality(s \ {Any(s)}) = Cardinality(s) - 1
<1>1. Any(s) \in s
  BY DEF Any
<1>2. IsFiniteSet(s)
  BY ListingAssumption, FS_Subset
<1> QED BY <1>1, <1>2, FS_RemoveElement, FS_EmptySet, FS_CardinalityType

LEMMA FoldExists ==
    ASSUME NEW sizes \in Sizes, NEW S \in SUBSET File
    PROVE  \E total : total = [s \in SUBSET S |-> Step(sizes, total, s)]
<1> DEFINE Upto(n) == \E g \in [SUBSET S -> Nat] :
               \A s \in SUBSET S : Cardinality(s) <= n => g[s] = Step(sizes, g, s)
           T == {n \in Nat : ~Upto(n)}
<1>0. \A s \in SUBSET S : Cardinality(s) \in Nat
  BY ListingAssumption, FS_Subset, FS_CardinalityType
<1>1. T = {}
  <2>1. SUFFICES ASSUME T # {} PROVE FALSE
    OBVIOUS
  <2>2. PICK n \in T : \A m \in T : n <= m
    BY <2>1, Smallest
  <2>3. CASE n = 0
    <3> DEFINE g == [s \in SUBSET S |-> 0]
    <3>1. \A s \in SUBSET S : Cardinality(s) <= 0 => s = {}
      <4>1. ASSUME NEW s \in SUBSET S, s # {} PROVE ~(Cardinality(s) <= 0)
        <5>1. s \in SUBSET File
          OBVIOUS
        <5>2. Cardinality(s) \in Nat \ {0}
          BY <4>1, <5>1, Lesser
        <5> QED BY <5>2
      <4> QED BY <4>1
    <3>2. \A s \in SUBSET S : Cardinality(s) <= n => g[s] = Step(sizes, g, s)
      BY <2>3, <3>1 DEF Step
    <3>3. g \in [SUBSET S -> Nat]
      OBVIOUS
    <3> QED BY <3>2, <3>3
  <2>4. CASE n # 0
    <3>1. n - 1 \in Nat /\ Upto(n - 1)
      <4> HIDE DEF Upto
      <4>1. n \in Nat /\ n - 1 \in Nat /\ ~(n <= n - 1)
        BY <2>2, <2>4
      <4> QED BY <2>2, <4>1
    <3>2. PICK g \in [SUBSET S -> Nat] :
             \A s \in SUBSET S : Cardinality(s) <= n - 1 => g[s] = Step(sizes, g, s)
      BY <3>1
    <3> DEFINE h == [s \in SUBSET S |-> Step(sizes, g, s)]
    <3>3. ASSUME NEW s \in SUBSET S PROVE Step(sizes, g, s) \in Nat
      <4>1. CASE s # {}
        <5>1. Any(s) \in File /\ s \ {Any(s)} \in SUBSET S
          BY <4>1, Lesser
        <5>2. sizes[Any(s)] \in Nat /\ g[s \ {Any(s)}] \in Nat
          BY <5>1 DEF Sizes
        <5> QED BY <4>1, <5>2 DEF Step
      <4> QED BY <4>1 DEF Step
    <3>4. h \in [SUBSET S -> Nat]
      BY <3>3
    <3>5. ASSUME NEW s \in SUBSET S, Cardinality(s) <= n PROVE h[s] = Step(sizes, h, s)
      <4>1. CASE s = {}
        BY <4>1 DEF Step
      <4>2. CASE s # {}
        <5> DEFINE rest == s \ {Any(s)}
        <5>1. rest \in SUBSET S /\ Cardinality(rest) = Cardinality(s) - 1
          BY <4>2, Lesser
        <5>a. Cardinality(rest) <= n - 1
          BY <1>0, <3>5, <5>1
        <5>2. h[rest] = g[rest]
          BY <3>2, <5>1, <5>a
        <5> QED BY <4>2, <5>2 DEF Step
      <4> QED BY <4>1, <4>2
    <3> QED BY <3>4, <3>5
  <2> QED BY <2>3, <2>4
<1>2. Cardinality(S) \in Nat /\ \A s \in SUBSET S : Cardinality(s) <= Cardinality(S)
  BY ListingAssumption, FS_Subset, FS_CardinalityType
<1>3. PICK g \in [SUBSET S -> Nat] :
         \A s \in SUBSET S : Cardinality(s) <= Cardinality(S) => g[s] = Step(sizes, g, s)
  BY <1>1, <1>2
<1>4. g = [s \in SUBSET S |-> Step(sizes, g, s)]
  BY <1>2, <1>3
<1> QED BY <1>4

LEMMA FoldIsNat ==
    ASSUME NEW sizes \in Sizes, NEW S \in SUBSET File, NEW total,
           total = [s \in SUBSET S |-> Step(sizes, total, s)]
    PROVE  total[S] \in Nat
<1>0. \A s \in SUBSET S : total[s] = Step(sizes, total, s)
  OBVIOUS
<1> DEFINE B == {s \in SUBSET S : total[s] \notin Nat}
           N == {Cardinality(s) : s \in B}
<1>1. SUFFICES ASSUME B # {} PROVE FALSE
  OBVIOUS
<1>2. N \subseteq Nat /\ N # {}
  <2>1. \A s \in SUBSET S : Cardinality(s) \in Nat
    BY ListingAssumption, FS_Subset, FS_CardinalityType
  <2> QED BY <1>1, <2>1
<1>3. PICK n \in N : \A m \in N : n <= m
  BY <1>2, Smallest
<1>4. PICK s \in B : Cardinality(s) = n
  OBVIOUS
<1>5. CASE s = {}
  BY <1>0, <1>5 DEF Step
<1>6. CASE s # {}
  <2> DEFINE rest == s \ {Any(s)}
  <2>1. Any(s) \in File /\ rest \in SUBSET S /\ Cardinality(rest) = n - 1 /\ n \in Nat
    BY <1>4, <1>6, Lesser
  <2>2. rest \notin B
    BY <1>3, <2>1
  <2>3. total[rest] \in Nat /\ sizes[Any(s)] \in Nat
    BY <2>1, <2>2 DEF Sizes
  <2>4. total[s] = sizes[Any(s)] + total[rest]
    BY <1>0, <1>6 DEF Step
  <2> QED BY <2>3, <2>4
<1> QED BY <1>5, <1>6

LEMMA SumIsNat ==
    ASSUME NEW u, table \in [File -> TableRow \union {NoRow}]
    PROVE  MapThenSumSet(LAMBDA f : table[f].size, RowsOf(u)) \in Nat
<1> DEFINE S == RowsOf(u)
           sizes == [f \in File |-> IF f \in S THEN table[f].size ELSE 0]
           Plus(g, s) == IF s = {} THEN 0 ELSE table[Any(s)].size + g[s \ {Any(s)}]
           iter == CHOOSE g : g = [s \in SUBSET S |-> Plus(g, s)]
<1>1. MapThenSumSet(LAMBDA f : table[f].size, S) = iter[S]
  BY DEF MapThenSumSet, MapThenFoldSet, Any
<1>2. S \in SUBSET File /\ sizes \in Sizes
  BY ListingAssumption DEF RowsOf, TableRow, Sizes
<1>3. ASSUME NEW g PROVE \A s \in SUBSET S : Plus(g, s) = Step(sizes, g, s)
  <2>1. \A s \in SUBSET S : s # {} => Any(s) \in S /\ sizes[Any(s)] = table[Any(s)].size
    BY <1>2 DEF Any
  <2> QED BY <2>1 DEF Step
<1> HIDE DEF S, sizes, Plus
<1>4. PICK total : total = [s \in SUBSET S |-> Step(sizes, total, s)]
  BY <1>2, FoldExists
<1>5. \E g : g = [s \in SUBSET S |-> Plus(g, s)]
  <2>1. [s \in SUBSET S |-> Plus(total, s)] = [s \in SUBSET S |-> Step(sizes, total, s)]
    BY <1>3
  <2> QED BY <1>4, <2>1
<1>6. iter = [s \in SUBSET S |-> Plus(iter, s)]
  BY <1>5
<1> HIDE DEF iter
<1>7. [s \in SUBSET S |-> Plus(iter, s)] = [s \in SUBSET S |-> Step(sizes, iter, s)]
  BY <1>3
<1>8. iter[S] \in Nat
  BY <1>2, <1>6, <1>7, FoldIsNat
<1> QED BY <1>1, <1>8 DEF S

(***************************************************************************)
(* The length of a page.                                                   *)
(***************************************************************************)
LEMMA Smaller ==
    ASSUME NEW a \in Int, NEW b \in Int
    PROVE  /\ Min({a, b}) = IF a <= b THEN a ELSE b
           /\ Max({a, b}) = IF a <= b THEN b ELSE a
<1>1. \A x \in {a, b} : (\A y \in {a, b} : x <= y) => x = IF a <= b THEN a ELSE b
  OBVIOUS
<1>2. \A x \in {a, b} : (\A y \in {a, b} : x >= y) => x = IF a <= b THEN b ELSE a
  OBVIOUS
<1>3. \E x \in {a, b} : \A y \in {a, b} : x <= y
  OBVIOUS
<1>4. \E x \in {a, b} : \A y \in {a, b} : x >= y
  OBVIOUS
<1> QED BY <1>1, <1>2, <1>3, <1>4 DEF Min, Max

(* The rows a page takes of n, with an offset that does not wrap around. *)
Length(n, offset, limit) ==
    IF n <= offset THEN 0 ELSE IF n - offset <= limit THEN n - offset ELSE limit

Near(m, n, changed) == m <= n + changed /\ n <= m + changed

LEMMA Lengths ==
    ASSUME NEW n \in Int, NEW offset \in Int, NEW limit \in Nat
    PROVE  Min({limit, Max({0, n - offset})}) = Length(n, offset, limit)
<1>1. Max({0, n - offset}) = IF 0 <= n - offset THEN n - offset ELSE 0
  BY Smaller
<1> DEFINE m == Max({0, n - offset})
<1>2. m \in Int /\ m = IF 0 <= n - offset THEN n - offset ELSE 0
  BY <1>1
<1> HIDE DEF m
<1>3. Min({limit, m}) = IF limit <= m THEN limit ELSE m
  BY <1>2, Smaller
<1>4. (IF limit <= m THEN limit ELSE m) = Length(n, offset, limit)
  BY <1>2 DEF Length
<1> QED BY <1>3, <1>4 DEF m

(* Pages of numbers that are close are of close length. *)
LEMMA LengthsNear ==
    ASSUME NEW m \in Nat, NEW n \in Nat, NEW changed \in Nat, NEW offset \in Nat,
           NEW limit \in Nat, Near(m, n, changed)
    PROVE  Near(Length(m, offset, limit), Length(n, offset, limit), changed)
BY DEF Near, Length

LEMMA Offsets ==
    ASSUME NEW page \in 1 .. IntMax, NEW limit \in 1 .. MaxLimit
    PROVE  /\ (page - 1) * limit \in Nat
           /\ Fits(page, limit) => Offset(page, limit) = (page - 1) * limit
<1>1. IntMax \in Nat /\ MaxLimit \in Nat
  BY ListingAssumption
<1> DEFINE n == (page - 1) * limit
<1>2. n \in Nat
  <2>1. \A x, y \in Nat : x * y \in Nat
    OBVIOUS
  <2> QED BY <1>1, <2>1
<1> HIDE DEF n
<1>3. ASSUME n <= IntMax PROVE Wrap(n) = n
  <2>1. n % (2 * IntMax + 2) = n
    BY <1>1, <1>2, <1>3
  <2> QED BY <1>1, <1>2, <1>3, <2>1 DEF Wrap
<1> QED BY <1>2, <1>3 DEF n, Fits, Offset

LEMMA Scans ==
    ASSUME NEW page \in Page, NEW limit \in Limit
    PROVE  ScanPage(page) \in 1 .. IntMax /\ ScanLimit(limit) \in 1 .. MaxLimit
<1>1. page \in Int /\ page <= IntMax /\ limit \in Int
      /\ MaxLimit \in 1 .. IntMax /\ IntMax \in Nat \ {0} /\ DefaultLimit \in 1 .. MaxLimit
  BY ListingAssumption
<1>2. Min({limit, MaxLimit}) = IF limit <= MaxLimit THEN limit ELSE MaxLimit
  BY <1>1, Smaller
<1> QED BY <1>1, <1>2 DEF ScanPage, ScanLimit

(***************************************************************************)
(* The invariant: what a request has seen and counted is near to what the  *)
(* table holds now, by as many files as came or went since.                *)
(***************************************************************************)
Quota == [stat : [count : Nat, size : Nat], limits : [maxCount : Nat, maxSize : Nat]]

Asked == [pc : {"count", "fetch", "stat", "listed", "reported", "failed"}, user : User,
          roles : SUBSET UserRole, page : 1 .. IntMax, limit : 1 .. MaxLimit,
          total : 0 .. Cardinality(File), files : SUBSET File, quota : Quota \union {NoRow},
          seen : SUBSET File, changed : Nat]

InOrder(r) ==
    /\ r.pc = "count" => r.files = {} /\ r.changed = 0
    /\ r.pc = "fetch" =>
          /\ LiveOf(r.user) \subseteq r.seen
          /\ Near(Cardinality(LiveOf(r.user)), r.total, r.changed)
    /\ r.pc = "listed" =>
          /\ r.files \subseteq r.seen
          /\ Fits(r.page, r.limit) =>
                Near(Cardinality(r.files),
                     Length(r.total, (r.page - 1) * r.limit, r.limit), r.changed)
    /\ r.pc = "reported" => r.quota \in Quota /\ r.quota.limits = GetUserLimits(r.roles)

ListingInv ==
    /\ table \in [File -> TableRow \union {NoRow}]
    /\ req \in [Req -> Asked \union {Idle}]
    /\ \A p \in Req : Active(p) => InOrder(req[p])

(* The files of a user are finitely many. *)
LEMMA LiveCounts ==
    /\ \A s \in SUBSET File : /\ IsFiniteSet(s) /\ Cardinality(s) \in Nat
                              /\ Cardinality(s) <= Cardinality(File)
    /\ \A u : LiveOf(u) \in SUBSET File /\ RowsOf(u) \in SUBSET File
BY ListingAssumption, FS_Subset, FS_CardinalityType DEF LiveOf, RowsOf

(* A request moves, and the table stays. *)
LEMMA RequestMoves ==
    ASSUME ListingInv, NEW p \in Req, UNCHANGED table, NEW g \in Asked \union {Idle},
           req' = [req EXCEPT ![p] = g], g.pc # "idle" => InOrder(g)
    PROVE  ListingInv'
<1>1. req' \in [Req -> Asked \union {Idle}] /\ req'[p] = g
      /\ \A q \in Req : q # p => req'[q] = req[q]
  BY DEF ListingInv
<1>2. ASSUME NEW q \in Req, Active(q)' PROVE InOrder(req[q])'
  <2>1. InOrder(req'[q])
    BY <1>1, <1>2 DEF Active, ListingInv
  <2> QED BY <2>1 DEF InOrder, LiveOf, RowsOf
<1> QED BY <1>1, <1>2 DEF ListingInv

(* One file of v comes or goes: whoever counted v's files notes it. *)
LEMMA TableMoves ==
    ASSUME ListingInv, NEW v \in User, NEW appeared \in SUBSET File, Noted(v, appeared),
           table' \in [File -> TableRow \union {NoRow}],
           \A u \in User : u # v => LiveOf(u)' = LiveOf(u),
           LiveOf(v)' \subseteq LiveOf(v) \union appeared,
           Near(Cardinality(LiveOf(v)'), Cardinality(LiveOf(v)), 1)
    PROVE  ListingInv'
<1> DEFINE Note(r) == [r EXCEPT !.changed = @ + 1, !.seen = @ \union appeared]
<1>1. \A r \in Asked : /\ Note(r) \in Asked /\ Note(r).pc = r.pc /\ Note(r).user = r.user
                       /\ Note(r).changed = r.changed + 1
                       /\ Note(r).seen = r.seen \union appeared
                       /\ Note(r).total = r.total
  <2>1. ASSUME NEW r \in Asked
        PROVE  /\ Note(r).pc = r.pc /\ Note(r).user = r.user /\ Note(r).changed = r.changed + 1
               /\ Note(r).seen = r.seen \union appeared /\ Note(r).total = r.total
    BY DEF Asked
  <2>2. ASSUME NEW r \in Asked PROVE Note(r) \in Asked
    <3>1. r.changed + 1 \in Nat /\ r.seen \union appeared \in SUBSET File
      BY DEF Asked
    <3> QED BY <3>1 DEF Asked
  <2> QED BY <2>1, <2>2
<1>2. \A q \in Req : /\ req[q] \in Asked \union {Idle}
                     /\ req'[q] = IF req[q].pc = "fetch" /\ req[q].user = v
                                  THEN Note(req[q]) ELSE req[q]
  BY DEF Noted, ListingInv
<1> HIDE DEF Note
<1>3. \A q \in Req : req'[q] \in Asked \union {Idle}
  BY <1>1, <1>2 DEF Idle
<1>4. req' \in [Req -> Asked \union {Idle}]
  BY <1>3 DEF Noted
<1>5. ASSUME NEW q \in Req, Active(q)' PROVE InOrder(req[q])'
  <2>1. CASE req[q].pc = "fetch" /\ req[q].user = v
    <3>1. req[q] \in Asked /\ InOrder(req[q]) /\ req'[q] = Note(req[q])
      BY <1>2, <2>1 DEF ListingInv, Active, Idle
    <3>2. /\ LiveOf(v) \subseteq req[q].seen
          /\ Near(Cardinality(LiveOf(v)), req[q].total, req[q].changed)
      BY <2>1, <3>1 DEF InOrder
    <3>3. /\ Cardinality(LiveOf(v)) \in Nat /\ Cardinality(LiveOf(v)') \in Nat
          /\ req[q].total \in Nat /\ req[q].changed \in Nat
      <4>1. LiveOf(v)' \in SUBSET File
        BY DEF LiveOf, RowsOf
      <4> QED BY <3>1, <4>1, LiveCounts DEF Asked
    <3>4. Near(Cardinality(LiveOf(v)'), req[q].total, req[q].changed + 1)
      BY <3>2, <3>3 DEF Near
    <3>5. req'[q].pc = "fetch" /\ LiveOf(req[q].user)' = LiveOf(v)'
      BY <1>1, <2>1, <3>1 DEF LiveOf, RowsOf
    <3> QED BY <1>1, <3>1, <3>2, <3>4, <3>5 DEF InOrder
  <2>2. CASE ~(req[q].pc = "fetch" /\ req[q].user = v)
    <3>1. req'[q] = req[q] /\ req[q] \in Asked /\ InOrder(req[q])
      BY <1>2, <1>5, <2>2 DEF ListingInv, Active, Idle
    <3>2. req[q].pc = "fetch" => LiveOf(req[q].user)' = LiveOf(req[q].user)
      <4>1. ASSUME req[q].pc = "fetch" PROVE req[q].user \in User /\ req[q].user # v
        BY <2>2, <3>1, <4>1 DEF Asked
      <4>2. LiveOf(req[q].user)' = {f \in File : /\ table'[f] # NoRow /\ table'[f].owner = req[q].user
                                                 /\ table'[f].live}
        BY <3>1 DEF LiveOf, RowsOf
      <4>3. \A u \in User : LiveOf(u)' = {f \in File : /\ table'[f] # NoRow /\ table'[f].owner = u
                                                       /\ table'[f].live}
        BY DEF LiveOf, RowsOf
      <4> QED BY <4>1, <4>2, <4>3
    <3> QED BY <3>1, <3>2 DEF InOrder
  <2> QED BY <2>1, <2>2
<1> QED BY <1>4, <1>5 DEF ListingInv

LEMMA StepRequest ==
    ASSUME ListingInv, NEW p \in Req,
           \/ Begin(p) \/ CountFiles(p) \/ FetchPage(p) \/ GetStat(p) \/ QueryFails(p)
           \/ Answered(p)
    PROVE  ListingInv'
<1>0. /\ UNCHANGED table /\ req[p] \in Asked \union {Idle}
      /\ req[p].pc # "idle" => req[p] \in Asked /\ InOrder(req[p])
  <2>1. UNCHANGED table
    BY DEF Begin, CountFiles, FetchPage, GetStat, QueryFails, Answered
  <2>2. req[p] \in Asked \union {Idle}
    BY DEF ListingInv
  <2> QED BY <2>1, <2>2 DEF ListingInv, Active, Idle
<1>1. CASE Begin(p)
  <2>1. PICK u \in User, page \in Page, limit \in Limit, roles \in RoleSets,
             op \in {"count", "stat"} :
          req' = [req EXCEPT ![p] =
                [pc |-> op, user |-> u, roles |-> roles,
                 page |-> ScanPage(page), limit |-> ScanLimit(limit),
                 total |-> 0, files |-> {}, quota |-> NoRow,
                 seen |-> {}, changed |-> 0]]
    BY <1>1 DEF Begin
  <2> DEFINE g == [pc |-> op, user |-> u, roles |-> roles,
                   page |-> ScanPage(page), limit |-> ScanLimit(limit),
                   total |-> 0, files |-> {}, quota |-> NoRow, seen |-> {}, changed |-> 0]
  <2>2. roles \in SUBSET UserRole /\ 0 \in 0 .. Cardinality(File)
    BY ListingAssumption, FS_CardinalityType
  <2>3. g \in Asked
    BY <2>2, Scans DEF Asked
  <2>4. InOrder(g)
    BY DEF InOrder
  <2> QED BY <1>0, <2>1, <2>3, <2>4, RequestMoves
<1>2. CASE CountFiles(p)
  <2> DEFINE live == LiveOf(req[p].user)
             pc == IF live = {} THEN "listed" ELSE "fetch"
             g == [req[p] EXCEPT !.pc = pc, !.total = Cardinality(live), !.seen = live]
  <2>1. req[p] \in Asked /\ req[p].files = {} /\ req[p].changed = 0
    BY <1>0, <1>2 DEF CountFiles, InOrder
  <2>2. /\ live \in SUBSET File /\ Cardinality(live) \in 0 .. Cardinality(File)
        /\ live = {} => Cardinality(live) = 0
    BY LiveCounts, FS_EmptySet, ListingAssumption, FS_CardinalityType
  <2>3. req' = [req EXCEPT ![p] = g]
    BY <1>2 DEF CountFiles
  <2>a. pc \in {"listed", "fetch"} /\ (pc = "listed" => live = {})
    OBVIOUS
  <2> HIDE DEF live, pc
  <2>4. /\ g \in Asked /\ g.pc = pc /\ g.total = Cardinality(live) /\ g.seen = live
        /\ g.files = {} /\ g.changed = 0 /\ g.user = req[p].user /\ g.page = req[p].page
        /\ g.limit = req[p].limit
    BY <2>1, <2>2, <2>a DEF Asked
  <2> HIDE DEF g
  <2>5. CASE pc = "fetch"
    <3>1. Near(Cardinality(live), Cardinality(live), 0)
      BY <2>2 DEF Near
    <3> QED BY <1>0, <2>3, <2>4, <2>5, <3>1, RequestMoves DEF InOrder, live
  <2>6. CASE pc = "listed"
    <3>1. g.total = 0 /\ Cardinality(g.files) = 0
      BY <2>2, <2>4, <2>6, <2>a, FS_EmptySet
    <3>2. (g.page - 1) * g.limit \in Nat
      BY <2>4, Offsets DEF Asked
    <3>3. Near(Cardinality(g.files), Length(g.total, (g.page - 1) * g.limit, g.limit), 0)
      BY <3>1, <3>2 DEF Near, Length
    <3> QED BY <1>0, <2>3, <2>4, <2>6, <3>3, RequestMoves DEF InOrder
  <2> QED BY <2>a, <2>5, <2>6
<1>3. ASSUME req[p].pc \in {"count", "fetch", "stat"}, req' = [req EXCEPT ![p].pc = "failed"]
      PROVE  ListingInv'
  <2> DEFINE g == [req[p] EXCEPT !.pc = "failed"]
  <2>1. g \in Asked /\ g.pc = "failed"
    BY <1>0, <1>3 DEF Asked
  <2>2. req' = [req EXCEPT ![p] = g]
    BY <1>3
  <2> HIDE DEF g
  <2> QED BY <1>0, <2>1, <2>2, RequestMoves DEF InOrder
<1>4. CASE FetchPage(p)
  <2> DEFINE live == LiveOf(req[p].user)
             offset == (req[p].page - 1) * req[p].limit
             length == PageLength(Cardinality(live), req[p].page, req[p].limit)
  <2>1. CASE Offset(req[p].page, req[p].limit) < 0
    BY <1>3, <1>4, <2>1 DEF FetchPage
  <2>2. CASE ~(Offset(req[p].page, req[p].limit) < 0)
    <3>1. PICK page \in kSubset(length, live) :
             req' = [req EXCEPT ![p].pc = "listed", ![p].files = page]
      BY <1>4, <2>2 DEF FetchPage
    <3>2. page \subseteq live /\ Cardinality(page) = length /\ live \in SUBSET File
      BY LiveCounts DEF kSubset
    <3> DEFINE g == [req[p] EXCEPT !.pc = "listed", !.files = page]
    <3>3. req' = [req EXCEPT ![p] = g]
      BY <3>1
    <3>4. /\ req[p] \in Asked /\ live \subseteq req[p].seen
          /\ Near(Cardinality(live), req[p].total, req[p].changed)
      BY <1>0, <1>4 DEF FetchPage, InOrder
    <3>5. /\ g \in Asked /\ g.pc = "listed" /\ g.files = page /\ g.seen = req[p].seen
          /\ g.total = req[p].total /\ g.changed = req[p].changed /\ g.page = req[p].page
          /\ g.limit = req[p].limit
      BY <3>2, <3>4 DEF Asked
    <3> HIDE DEF g
    <3>6. ASSUME Fits(req[p].page, req[p].limit)
          PROVE  Near(Cardinality(page), Length(req[p].total, offset, req[p].limit),
                      req[p].changed)
      <4>1. /\ offset \in Nat /\ Offset(req[p].page, req[p].limit) = offset
            /\ req[p].limit \in Nat /\ Cardinality(live) \in Nat
            /\ req[p].total \in Nat /\ req[p].changed \in Nat
        <5>1. req[p].page \in 1 .. IntMax /\ req[p].limit \in 1 .. MaxLimit /\ MaxLimit \in Nat
          BY <3>4, ListingAssumption DEF Asked
        <5>2. req[p].total \in Nat /\ req[p].changed \in Nat /\ Cardinality(live) \in Nat
          BY <3>2, <3>4, LiveCounts DEF Asked
        <5> QED BY <3>6, <5>1, <5>2, Offsets
      <4>2. length = Length(Cardinality(live), offset, req[p].limit)
        <5> HIDE DEF live, offset
        <5> QED BY <4>1, Lengths DEF PageLength
      <4> HIDE DEF live, offset, length
      <4> QED BY <3>2, <3>4, <4>1, <4>2, LengthsNear
    <3>7. InOrder(g)
      BY <3>2, <3>4, <3>5, <3>6 DEF InOrder
    <3> QED BY <1>0, <3>3, <3>5, <3>7, RequestMoves
  <2> QED BY <2>1, <2>2
<1>5. CASE GetStat(p)
  <2> DEFINE quota == [stat |-> FilesStat(req[p].user), limits |-> GetUserLimits(req[p].roles)]
             g == [req[p] EXCEPT !.pc = "reported", !.quota = quota]
  <2>1. req[p] \in Asked
    BY <1>0, <1>5 DEF GetStat
  <2>2. FilesStat(req[p].user) \in [count : Nat, size : Nat]
    BY LiveCounts, SumIsNat DEF FilesStat, ListingInv
  <2>3. GetUserLimits(req[p].roles) \in [maxCount : Nat, maxSize : Nat]
    BY QuotaAssumption DEF GetUserLimits
  <2>4. quota \in Quota /\ quota.limits = GetUserLimits(req[p].roles)
    BY <2>2, <2>3 DEF Quota
  <2>5. req' = [req EXCEPT ![p] = g]
    BY <1>5 DEF GetStat
  <2> HIDE DEF quota
  <2>6. g \in Asked /\ g.pc = "reported" /\ g.quota = quota /\ g.roles = req[p].roles
    BY <2>1, <2>4 DEF Asked
  <2> HIDE DEF g
  <2> QED BY <1>0, <2>4, <2>5, <2>6, RequestMoves DEF InOrder
<1>6. CASE QueryFails(p)
  BY <1>3, <1>6 DEF QueryFails
<1>7. CASE Answered(p)
  BY <1>0, <1>7, RequestMoves DEF Answered, Idle
<1> QED BY <1>1, <1>2, <1>4, <1>5, <1>6, <1>7

LEMMA StepTable ==
    ASSUME ListingInv, NEW f \in File, FileAdded(f) \/ FileExpires(f) \/ FileRemoved(f)
    PROVE  ListingInv'
<1>0. /\ table \in [File -> TableRow \union {NoRow}]
      /\ \A u : LiveOf(u) = {h \in File : table[h] # NoRow /\ table[h].owner = u /\ table[h].live}
      /\ \A u : LiveOf(u)' = {h \in File : table'[h] # NoRow /\ table'[h].owner = u
                                           /\ table'[h].live}
  BY DEF ListingInv, LiveOf, RowsOf
<1>1. ASSUME NEW s \in SUBSET File, NEW t \in SUBSET File,
             t \in {s, s \union {f}, s \ {f}}
      PROVE  Near(Cardinality(t), Cardinality(s), 1)
  BY <1>1, LiveCounts, FS_AddElement, FS_RemoveElement DEF Near
<1>2. \A u : LiveOf(u) \in SUBSET File /\ LiveOf(u)' \in SUBSET File
  BY <1>0
<1>3. CASE FileAdded(f)
  <2>1. PICK u \in User, size \in 0 .. MaxSize :
          /\ table' = [table EXCEPT ![f] = [owner |-> u, size |-> size, live |-> TRUE]]
          /\ Noted(u, {f})
    BY <1>3 DEF FileAdded
  <2>2. table' \in [File -> TableRow \union {NoRow}]
    BY <1>0, <2>1 DEF TableRow
  <2>3. \A v \in User : v # u => LiveOf(v)' = LiveOf(v)
    BY <1>0, <1>3, <2>1 DEF FileAdded
  <2>4. LiveOf(u)' \in {LiveOf(u), LiveOf(u) \union {f}}
    BY <1>0, <1>3, <2>1 DEF FileAdded
  <2> QED BY <1>1, <1>2, <2>1, <2>2, <2>3, <2>4, TableMoves
<1>4. ASSUME table[f] # NoRow, table[f].live, Noted(table[f].owner, {}),
             table' \in {[table EXCEPT ![f].live = FALSE], [table EXCEPT ![f] = NoRow]}
      PROVE  ListingInv'
  <2>0. PICK u \in User : u = table[f].owner
    BY <1>0, <1>4 DEF TableRow
  <2>1. table' \in [File -> TableRow \union {NoRow}]
    BY <1>0, <1>4 DEF TableRow
  <2>2. table'[f] = NoRow \/ ~table'[f].live
    BY <1>0, <1>4 DEF TableRow
  <2>3. \A h \in File : h # f => table'[h] = table[h]
    BY <1>0, <1>4
  <2>4. \A v \in User : v # u => LiveOf(v)' = LiveOf(v)
    BY <1>0, <2>0, <2>2, <2>3
  <2>5. LiveOf(u)' = LiveOf(u) \ {f}
    BY <1>0, <2>2, <2>3
  <2> QED BY <1>1, <1>2, <1>4, <2>0, <2>1, <2>4, <2>5, TableMoves
<1>5. CASE FileRemoved(f) /\ ~table[f].live
  <2>1. UNCHANGED req /\ table' = [table EXCEPT ![f] = NoRow]
    BY <1>5 DEF FileRemoved
  <2>2. \A u : LiveOf(u)' = LiveOf(u)
    BY <1>0, <1>5, <2>1
  <2>3. \A p \in Req : Active(p)' => InOrder(req[p])'
    BY <2>1, <2>2 DEF ListingInv, Active, InOrder, LiveOf, RowsOf
  <2> QED BY <1>0, <2>1, <2>3 DEF ListingInv
<1> QED BY <1>3, <1>4, <1>5 DEF FileExpires, FileRemoved

LEMMA ListingInvariant == Spec => []ListingInv
<1>1. Init => ListingInv
  BY DEF Init, ListingInv, Active, Idle
<1>2. ListingInv /\ [Next]_vars => ListingInv'
  <2> SUFFICES ASSUME ListingInv, [Next]_vars PROVE ListingInv'
    OBVIOUS
  <2>1. CASE UNCHANGED vars
    BY <2>1 DEF vars, ListingInv, Active, InOrder, LiveOf, RowsOf
  <2> QED BY <2>1, StepRequest, StepTable DEF Next
<1> QED BY <1>1, <1>2, PTL DEF Spec

(* The rows and the requests under way keep their types: a page and a      *)
(* limit are in the ranges ScanPaginationArgs gives them, and a total is   *)
(* no larger than the table.                                               *)
THEOREM ListingTyped == Spec => []TypeOK
<1>1. ListingInv => TypeOK
  BY DEF ListingInv, TypeOK, Asked, Active, Idle
<1> QED BY <1>1, ListingInvariant, PTL

(* GetFilesByUserID: the page and the total disagree by no more than the   *)
(* files of the user that came or went between COUNT and SELECT.           *)
THEOREM TotalsAreFollowed == Spec => []PageFollowsTotal
<1>1. ASSUME ListingInv PROVE PageFollowsTotal
  <2>1. SUFFICES ASSUME NEW p \in Req, Listed(p), Fits(req[p].page, req[p].limit)
                 PROVE  LET promised == Min({req[p].limit,
                                  Max({0, req[p].total - (req[p].page - 1) * req[p].limit})})
                            shown == Cardinality(req[p].files)
                        IN  /\ shown <= promised + req[p].changed
                            /\ promised <= shown + req[p].changed
    BY DEF PageFollowsTotal
  <2>2. req[p] \in Asked /\ InOrder(req[p])
    BY <1>1, <2>1 DEF ListingInv, Listed, Active, Idle
  <2> DEFINE offset == (req[p].page - 1) * req[p].limit
  <2>3. Near(Cardinality(req[p].files), Length(req[p].total, offset, req[p].limit),
             req[p].changed)
    BY <2>1, <2>2 DEF InOrder, Listed
  <2>4. offset \in Int /\ req[p].total \in Int /\ req[p].limit \in Nat
    BY <2>2, Offsets, ListingAssumption DEF Asked
  <2> HIDE DEF offset
  <2>5. Min({req[p].limit, Max({0, req[p].total - offset})})
           = Length(req[p].total, offset, req[p].limit)
    BY <2>4, Lengths
  <2> QED BY <2>3, <2>5 DEF Near, offset
<1> QED BY <1>1, ListingInvariant, PTL

(* Nobody is shown a file that was not the user's own and live at some     *)
(* time between COUNT and SELECT.                                          *)
THEOREM ListedFilesWereLive == Spec => []ListedWereSeen
<1>1. ListingInv => ListedWereSeen
  BY DEF ListingInv, ListedWereSeen, Listed, Active, InOrder
<1> QED BY <1>1, ListingInvariant, PTL

(* GetUserLimits and checkUploadQuote agree, unless a VIP is granted less  *)
(* than everybody else: a user who is both is then checked against the     *)
(* larger of the two limits and shown the smaller one.                     *)
THEOREM LimitsAreEnforced ==
    ASSUME MaxFilesSizeForUser <= MaxFilesSizeForVip
    PROVE  Spec => []ReportedLimitsAreEnforced
<1>1. ASSUME ListingInv PROVE ReportedLimitsAreEnforced
  <2>1. SUFFICES ASSUME NEW p \in Req, req[p].pc = "reported",
                        ~HasRole(req[p].roles, "admin"), req[p].roles # {},
                        NEW size \in 0 .. MaxSize + MaxFilesSizeForVip
                 PROVE  (CheckUploadQuote(req[p].quota.stat, size, req[p].roles) = "ok")
                          <=> /\ req[p].quota.stat.count < req[p].quota.limits.maxCount
                              /\ req[p].quota.stat.size + size < req[p].quota.limits.maxSize
    BY DEF ReportedLimitsAreEnforced
  <2>2. req[p] \in Asked /\ InOrder(req[p])
    BY <1>1, <2>1 DEF ListingInv, Active, Idle
  <2> DEFINE count == req[p].quota.stat.count
             total == req[p].quota.stat.size + size
             roles == req[p].roles
  <2>3. /\ req[p].quota \in Quota
        /\ req[p].quota.limits.maxCount = MaxUploadedFiles
        /\ req[p].quota.limits.maxSize = IF "vip" \in roles THEN MaxFilesSizeForVip
                                         ELSE MaxFilesSizeForUser
    BY <2>1, <2>2 DEF InOrder, GetUserLimits, HasRole
  <2>4. /\ count \in Nat /\ total \in Int
        /\ MaxUploadedFiles \in Nat /\ MaxFilesSizeForUser \in Nat /\ MaxFilesSizeForVip \in Nat
    BY <2>3, QuotaAssumption, ListingAssumption DEF Quota
  <2>5. "vip" \in roles \/ "user" \in roles
    BY <2>1, <2>2 DEF Asked, UserRole, HasRole
  <2>6. CheckUploadQuote(req[p].quota.stat, size, roles)
           = IF count >= MaxUploadedFiles THEN "limitExceeded"
             ELSE IF \/ "vip" \in roles /\ total < MaxFilesSizeForVip
                     \/ "user" \in roles /\ total < MaxFilesSizeForUser
                  THEN "ok" ELSE "tooBig"
    BY <2>1 DEF CheckUploadQuote, FitsSize, HasRole
  <2> HIDE DEF count, total, roles
  <2>7. (CheckUploadQuote(req[p].quota.stat, size, roles) = "ok")
           <=> /\ count < MaxUploadedFiles
               /\ total < IF "vip" \in roles THEN MaxFilesSizeForVip ELSE MaxFilesSizeForUser
    BY <2>4, <2>5, <2>6
  <2> QED BY <2>3, <2>7 DEF count, total, roles
<1> QED BY <1>1, ListingInvariant, PTL
=============================================================================
