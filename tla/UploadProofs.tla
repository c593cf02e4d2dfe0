---------------------------- MODULE UploadProofs ----------------------------
(***************************************************************************)
(* Proofs about UploadRequest, for every number a client may write and     *)
(* every width of the integer it is parsed into.                           *)
(***************************************************************************)
EXTENDS UploadRequest, WellFoundedInduction, TLAPS

UploadInv == form \in Form /\ request \in {NotParsed, GetRequestFromForm(form)}

LEMMA UploadInvariant == Spec => []UploadInv
<1>1. Init => UploadInv
  BY DEF Init, FormInit, UploadInv
<1>2. UploadInv /\ [Next]_vars => UploadInv'
  <2> SUFFICES ASSUME UploadInv, [Next]_vars PROVE UploadInv'
    OBVIOUS
  <2>1. CASE ParseForm
    BY <2>1 DEF ParseForm, Parse, UploadInv
  <2>2. CASE UNCHANGED formVars
    BY <2>2 DEF formVars, UploadInv
  <2> QED BY <2>1, <2>2 DEF Next, GenAlias, Finished, vars
<1> QED BY <1>1, <1>2, PTL DEF Spec

(* getRequestFromForm: a form that asks for a number of downloads the      *)
(* documentation allows gets that number or is refused, and one that asks  *)
(* for another number is refused, whatever fits into 16 bits.              *)
THEOREM NumbersAreRead == Spec => []DownloadsAsWritten
<1>1. ASSUME UploadInv PROVE DownloadsAsWritten
  <2> DEFINE n == form.downloads.n
             parsed == ParseDownloads(form.downloads)
             ttl == OrDefault(form.ttl = <<>>, ParseDuration(form.ttl), DefaultTtl)
  <2>1. SUFFICES ASSUME request # NotParsed, form.downloads.kind = "number"
                 PROVE  IF n \in 1 .. MaxDownloads THEN request.ok => request.downloads = n
                        ELSE ~request.ok
    BY DEF DownloadsAsWritten
  <2>2. n \in Int /\ MaxDownloads \in Nat
    BY <1>1, <2>1, FormAssumption DEF UploadInv, Form, Text
  <2>3. \/ parsed = Refused("number")
        \/ n \notin 1 .. MaxDownloads /\ parsed = Refused("range")
        \/ n \in 1 .. MaxDownloads /\ parsed = [ok |-> TRUE, value |-> n]
    BY <2>1, <2>2 DEF ParseDownloads
  <2>4. ~ttl.ok => ttl = Refused("ttl")
    BY DEF OrDefault, ParseDuration
  <2>5. request = IF ~parsed.ok THEN parsed ELSE IF ~ttl.ok THEN ttl
                  ELSE [ok |-> TRUE, downloads |-> parsed.value, ttl |-> ttl.value]
    BY <1>1, <2>1 DEF UploadInv, GetRequestFromForm, OrDefault
  <2> HIDE DEF n, parsed, ttl
  <2> QED BY <2>3, <2>4, <2>5 DEF Refused
<1> QED BY <1>1, UploadInvariant, PTL

(***************************************************************************)
(* The powers of two.  They are defined for every number, the smaller ones *)
(* first: of the numbers without one there would be a least.               *)
(***************************************************************************)
LEMMA Least ==
    ASSUME NEW T, T \subseteq Nat, T # {}
    PROVE  \E n \in T : \A m \in T : n <= m
<1>1. PICK n \in T : \A m \in T : <<m, n>> \notin OpToRel(<, Nat)
  BY WFMin, NatLessThanWellFounded
<1>2. \A m \in T : ~(m < n)
  BY <1>1 DEF OpToRel
<1> QED BY <1>2

Power(pow, n) == IF n = 0 THEN 1 ELSE 2 * pow[n - 1]

LEMMA PowersUpto ==
    ASSUME NEW n \in Nat
    PROVE  \E g \in [Nat -> Nat] : \A m \in 0 .. n : g[m] = Power(g, m)
<1> DEFINE Upto(k) == \E g \in [Nat -> Nat] : \A m \in 0 .. k : g[m] = Power(g, m)
           T == {k \in Nat : ~Upto(k)}
<1>1. SUFFICES ASSUME T # {} PROVE FALSE
  OBVIOUS
<1>2. PICK k \in T : \A m \in T : k <= m
  BY <1>1, Least
<1>3. CASE k = 0
  <2> DEFINE g == [m \in Nat |-> 1]
  <2>1. g \in [Nat -> Nat] /\ \A m \in 0 .. k : g[m] = Power(g, m)
    BY <1>3 DEF Power
  <2> QED BY <2>1
<1>4. CASE k # 0
  <2>1. k - 1 \in Nat /\ Upto(k - 1)
    <3> HIDE DEF Upto
    <3>1. k \in Nat /\ k - 1 \in Nat /\ ~(k <= k - 1)
      BY <1>2, <1>4
    <3> QED BY <1>2, <3>1
  <2>2. PICK g \in [Nat -> Nat] : \A m \in 0 .. k - 1 : g[m] = Power(g, m)
    BY <2>1
  <2> DEFINE h == [m \in Nat |-> Power(g, m)]
  <2>3. h \in [Nat -> Nat]
    BY DEF Power
  <2>4. ASSUME NEW m \in 0 .. k PROVE h[m] = Power(h, m)
    <3>1. CASE m = 0
      BY <3>1 DEF Power
    <3>2. CASE m # 0
      <4>1. m - 1 \in 0 .. k - 1 /\ m \in Nat
        BY <2>1, <3>2
      <4>2. h[m - 1] = g[m - 1]
        BY <2>2, <4>1
      <4> QED BY <3>2, <4>1, <4>2 DEF Power
    <3> QED BY <3>1, <3>2
  <2> QED BY <2>3, <2>4
<1> QED BY <1>3, <1>4

LEMMA PowersAgree ==
    ASSUME NEW g \in [Nat -> Nat], NEW h \in [Nat -> Nat], NEW n \in Nat,
           \A m \in 0 .. n : g[m] = Power(g, m),
           \A m \in 0 .. n : h[m] = Power(h, m)
    PROVE  \A m \in 0 .. n : g[m] = h[m]
<1> DEFINE T == {m \in 0 .. n : g[m] # h[m]}
<1>1. SUFFICES ASSUME T # {} PROVE FALSE
  OBVIOUS
<1>a. T \subseteq Nat
  OBVIOUS
<1>2. PICK k \in T : \A m \in T : k <= m
  <2> HIDE DEF T
  <2> QED BY <1>1, <1>a, Least
<1>3. CASE k = 0
  BY <1>3 DEF Power
<1>4. CASE k # 0
  <2>1. k - 1 \in 0 .. n /\ k - 1 \notin T
    BY <1>2, <1>4
  <2> QED BY <1>4, <2>1 DEF Power
<1> QED BY <1>3, <1>4

LEMMA Pow2Step ==
    /\ Pow2 \in [Nat -> Nat]
    /\ \A n \in Nat : Pow2[n] = Power(Pow2, n)
<1> DEFINE At(n) == CHOOSE g \in [Nat -> Nat] : \A m \in 0 .. n : g[m] = Power(g, m)
           pow == [n \in Nat |-> At(n)[n]]
<1>1. \A n \in Nat : At(n) \in [Nat -> Nat] /\ \A m \in 0 .. n : At(n)[m] = Power(At(n), m)
  BY PowersUpto
<1> HIDE DEF At
<1>2. pow \in [Nat -> Nat]
  BY <1>1
<1>3. ASSUME NEW n \in Nat PROVE pow[n] = Power(pow, n)
  <2>1. CASE n = 0
    <3>1. At(n)[n] = Power(At(n), n)
      <4>1. n \in 0 .. n
        OBVIOUS
      <4> QED BY <1>1, <4>1
    <3> QED BY <2>1, <3>1 DEF Power
  <2>2. CASE n # 0
    <3>1. n - 1 \in Nat /\ n - 1 \in 0 .. n /\ n \in 0 .. n /\ 0 .. n - 1 \subseteq 0 .. n
      BY <2>2
    <3>2. \A m \in 0 .. n - 1 : At(n)[m] = At(n - 1)[m]
      <4>1. PICK g, h, k : g = At(n) /\ h = At(n - 1) /\ k = n - 1
        OBVIOUS
      <4>2. /\ k \in Nat /\ g \in [Nat -> Nat] /\ h \in [Nat -> Nat]
            /\ \A m \in 0 .. k : g[m] = Power(g, m)
            /\ \A m \in 0 .. k : h[m] = Power(h, m)
        BY <1>1, <3>1, <4>1
      <4>3. \A m \in 0 .. k : g[m] = h[m]
        BY <4>2, PowersAgree
      <4> QED BY <4>1, <4>3
    <3>3. At(n)[n] = 2 * At(n)[n - 1]
      BY <1>1, <2>2, <3>1 DEF Power
    <3>4. pow[n] = At(n)[n] /\ pow[n - 1] = At(n - 1)[n - 1] /\ n - 1 \in 0 .. n - 1
      BY <3>1
    <3>5. pow[n] = 2 * pow[n - 1]
      BY <3>2, <3>3, <3>4
    <3> QED BY <2>2, <3>5 DEF Power
  <2> QED BY <2>1, <2>2
<1>4. pow = [n \in Nat |-> Power(pow, n)]
  BY <1>2, <1>3
<1> HIDE DEF pow
<1>5. Pow2 = [n \in Nat |-> Power(Pow2, n)]
  BY <1>4 DEF Pow2, Power
<1>6. \A n \in Nat : Pow2[n] = Power(Pow2, n)
  BY <1>5
<1>7. ASSUME NEW n \in Nat PROVE Pow2[n] \in Nat
  <2> DEFINE T == {m \in Nat : Pow2[m] \notin Nat}
  <2>1. SUFFICES ASSUME T # {} PROVE FALSE
    OBVIOUS
  <2> HIDE DEF T
  <2>a. T \subseteq Nat
    BY DEF T
  <2>2. PICK k \in T : \A m \in T : k <= m
    BY <2>1, <2>a, Least
  <2> USE DEF T
  <2>3. CASE k = 0
    BY <1>6, <2>3 DEF Power
  <2>4. CASE k # 0
    <3>1. k - 1 \in Nat /\ k - 1 \notin T
      BY <2>2, <2>4
    <3> QED BY <1>6, <2>2, <2>4, <3>1 DEF Power
  <2> QED BY <2>3, <2>4
<1> QED BY <1>5, <1>6, <1>7

LEMMA Pow2Positive == ASSUME NEW n \in Nat PROVE Pow2[n] \in Nat \ {0}
<1> DEFINE T == {m \in Nat : Pow2[m] = 0}
<1>1. SUFFICES ASSUME T # {} PROVE FALSE
  BY Pow2Step
<1>2. PICK k \in T : \A m \in T : k <= m
  BY <1>1, Least
<1>3. k # 0
  BY <1>2, Pow2Step DEF Power
<1>4. k - 1 \in Nat /\ k - 1 \notin T
  BY <1>2, <1>3
<1> QED BY <1>2, <1>3, <1>4, Pow2Step DEF Power

LEMMA Pow2Sum ==
    ASSUME NEW m \in Nat, NEW n \in Nat
    PROVE  Pow2[m + n] = Pow2[m] * Pow2[n]
<1> DEFINE T == {k \in Nat : Pow2[m + k] # Pow2[m] * Pow2[k]}
<1>1. SUFFICES ASSUME T # {} PROVE FALSE
  OBVIOUS
<1>2. PICK k \in T : \A j \in T : k <= j
  BY <1>1, Least
<1>3. CASE k = 0
  <2>1. Pow2[0] = 1 /\ Pow2[m] \in Nat /\ m + 0 = m
    BY Pow2Step DEF Power
  <2> QED BY <1>2, <1>3, <2>1
<1>4. CASE k # 0
  <2>1. k \in Nat /\ k - 1 \in Nat /\ k - 1 \notin T /\ m + (k - 1) \in Nat
    BY <1>2, <1>4
  <2>2. Pow2[m + (k - 1)] = Pow2[m] * Pow2[k - 1]
    BY <2>1
  <2>3. Pow2[k] = 2 * Pow2[k - 1]
    BY <1>4, <2>1, Pow2Step DEF Power
  <2>4. m + k # 0 /\ m + k \in Nat /\ (m + k) - 1 = m + (k - 1)
    BY <1>4, <2>1
  <2>5. Pow2[m + k] = 2 * Pow2[m + (k - 1)]
    BY <2>4, Pow2Step DEF Power
  <2>6. Pow2[m] \in Nat /\ Pow2[k - 1] \in Nat
    BY <2>1, Pow2Step
  <2>7. Pow2[m + k] = Pow2[m] * Pow2[k]
    BY <2>2, <2>3, <2>5, <2>6
  <2> QED BY <1>2, <2>7
<1> QED BY <1>3, <1>4

(***************************************************************************)
(* Shifting by two amounts, one after the other.                           *)
(***************************************************************************)
LEMMA Quotient ==
    ASSUME NEW w \in Nat, NEW a \in Nat \ {0}
    PROVE  /\ w \div a \in Nat /\ w % a \in 0 .. a - 1
           /\ w = a * (w \div a) + (w % a)
OBVIOUS

LEMMA QuotientUnique ==
    ASSUME NEW a \in Nat \ {0}, NEW q1 \in Nat, NEW q2 \in Nat,
           NEW r1 \in 0 .. a - 1, NEW r2 \in 0 .. a - 1,
           a * q1 + r1 = a * q2 + r2
    PROVE  q1 = q2
<1>1. ASSUME NEW p \in Nat, NEW q \in Nat, NEW r \in 0 .. a - 1, NEW s \in 0 .. a - 1,
             p < q
      PROVE  a * p + r < a * q + s
  <2>1. PICK d \in Nat : q = p + 1 + d
    <3>1. q - (p + 1) \in Nat /\ q = p + 1 + (q - (p + 1))
      BY <1>1
    <3> QED BY <3>1
  <2>2. a * q = a * p + a + a * d
    BY <2>1
  <2>3. a * d \in Nat /\ a * p \in Nat
    OBVIOUS
  <2> QED BY <2>2, <2>3
<1>2. a * q1 + r1 \in Int /\ a * q2 + r2 \in Int
  OBVIOUS
<1>3. ~(q1 < q2)
  <2>1. SUFFICES ASSUME q1 < q2 PROVE FALSE
    OBVIOUS
  <2>2. a * q1 + r1 < a * q2 + r2
    BY <1>1, <2>1
  <2> QED BY <1>2, <2>2
<1>4. ~(q2 < q1)
  <2>1. SUFFICES ASSUME q2 < q1 PROVE FALSE
    OBVIOUS
  <2>2. a * q2 + r2 < a * q1 + r1
    BY <1>1, <2>1
  <2> QED BY <1>2, <2>2
<1> QED BY <1>3, <1>4

LEMMA ShiftTwice ==
    ASSUME NEW w \in Nat, NEW a \in Nat \ {0}, NEW b \in Nat \ {0}
    PROVE  (w \div a) \div b = w \div (a * b)
<1> DEFINE q == w \div a
           r == w % a
           qq == q \div b
           rr == q % b
<1>1. q \in Nat /\ r \in 0 .. a - 1 /\ w = a * q + r
  BY Quotient
<1>2. qq \in Nat /\ rr \in 0 .. b - 1 /\ q = b * qq + rr
  BY <1>1, Quotient
<1> HIDE DEF q, r, qq, rr
<1>3. w = (a * b) * qq + (a * rr + r)
  <2>1. a * q = a * (b * qq) + a * rr
    BY <1>2
  <2>2. a * (b * qq) = (a * b) * qq
    BY <1>2
  <2>3. a * rr \in Nat /\ a * (b * qq) \in Nat
    BY <1>2
  <2> QED BY <1>1, <2>1, <2>2, <2>3
<1>4. a * rr + r \in 0 .. a * b - 1
  <2>1. PICK d \in Nat : b = rr + 1 + d
    <3>1. b - (rr + 1) \in Nat /\ b = rr + 1 + (b - (rr + 1))
      BY <1>2
    <3> QED BY <3>1
  <2>2. a * b = a * rr + a + a * d
    BY <1>2, <2>1
  <2>3. a * d \in Nat /\ a * rr \in Nat
    BY <1>2
  <2> QED BY <1>1, <2>2, <2>3
<1>5. a * b \in Nat \ {0}
  <2>1. PICK d \in Nat : b = 1 + d
    <3>1. b - 1 \in Nat /\ b = 1 + (b - 1)
      OBVIOUS
    <3> QED BY <3>1
  <2>2. a * b = a + a * d /\ a * d \in Nat
    BY <2>1
  <2> QED BY <2>2
<1> DEFINE m == a * b
           p == w \div m
           s == w % m
           x == a * rr + r
<1>6. m \in Nat \ {0} /\ w = m * qq + x /\ x \in 0 .. m - 1
  BY <1>3, <1>4, <1>5
<1> HIDE DEF m, x
<1>7. p \in Nat /\ s \in 0 .. m - 1 /\ w = m * p + s
  BY <1>6, Quotient
<1> HIDE DEF p, s
<1>8. qq = p
  BY <1>2, <1>6, <1>7, QuotientUnique
<1> QED BY <1>8 DEF qq, q, p, m

(***************************************************************************)
(* The loop of alias.Gen.  What is left of a word is the word shifted by   *)
(* the chunks taken from it, and the letters written so far are the        *)
(* chunks taken that are letters.                                          *)
(***************************************************************************)
\* The chunks of a word.
C == WordBits \div LetterIdxBits

Shift(i) == Pow2[LetterIdxBits * i]

Taken(p) == p[1] < Len(words) \/ (p[1] = Len(words) /\ p[2] < C - remain)

Matches(at) ==
    /\ \A i \in DOMAIN result :
          /\ at[i] \in Position /\ Taken(at[i])
          /\ result[i] = Chunk(at[i]) /\ Chunk(at[i]) < Letters
    /\ \A i, j \in DOMAIN result : i < j => Before(at[i], at[j])
    /\ \A p \in Position : Taken(p) /\ Chunk(p) < Letters => \E j \in DOMAIN result : at[j] = p

AliasInv ==
    /\ result \in Seq(Nat) /\ words \in Seq(Word) /\ remain \in 0 .. C
    /\ words = <<>> => result = <<>> /\ remain = 0
    /\ words # <<>> => cache = words[Len(words)] \div Shift(C - remain)
    /\ \E at \in [DOMAIN result -> Position] : Matches(at)

LEMMA ChunksOfWord ==
    /\ LetterIdxBits \in Nat \ {0} /\ WordBits \in Nat /\ Letters \in Nat
    /\ C \in Nat \ {0}
    /\ Mask \in Nat \ {0}
    /\ Word \subseteq Nat
    /\ \A i \in Nat : Shift(i) \in Nat \ {0} /\ Shift(i + 1) = Shift(i) * Mask
    /\ Shift(0) = 1
<1>1. LetterIdxBits \in Nat \ {0} /\ WordBits \in Nat /\ LetterIdxBits <= WordBits
  BY AliasGenAssumption
<1>2. C \in Nat \ {0}
  <2>1. /\ C \in Nat /\ WordBits % LetterIdxBits \in 0 .. LetterIdxBits - 1
        /\ WordBits = LetterIdxBits * C + (WordBits % LetterIdxBits)
    BY <1>1, Quotient DEF C
  <2>2. C = 0 => LetterIdxBits * C = 0
    BY <1>1
  <2> QED BY <1>1, <2>1, <2>2
<1>3. Mask \in Nat \ {0} /\ Word \subseteq Nat
  BY <1>1, Pow2Positive DEF Mask, Word
<1>4. Letters \in Nat
  BY <1>1, Pow2Positive, AliasGenAssumption
<1>5. ASSUME NEW i \in Nat
      PROVE  Shift(i) \in Nat \ {0} /\ Shift(i + 1) = Shift(i) * Mask
  <2>1. LetterIdxBits * i \in Nat /\ LetterIdxBits * (i + 1) = LetterIdxBits * i + LetterIdxBits
    BY <1>1
  <2> QED BY <1>1, <2>1, Pow2Positive, Pow2Sum DEF Shift, Mask
<1>6. Shift(0) = 1
  <2>1. LetterIdxBits * 0 = 0
    BY <1>1
  <2> QED BY <2>1, Pow2Step DEF Shift, Power
<1> QED BY <1>1, <1>2, <1>3, <1>4, <1>5, <1>6

(* A chunk is taken: the letters written are still those of the chunks     *)
(* taken.                                                                  *)
LEMMA ChunkTaken ==
    ASSUME result \in Seq(Nat), NEW at \in [DOMAIN result -> Position], Matches(at),
           NEW q \in Position', NEW idx \in Nat, idx = Chunk(q)',
           result' = IF idx < Letters THEN Append(result, idx) ELSE result,
           \A p \in Position : p \in Position' /\ Chunk(p)' = Chunk(p),
           \A p \in Position : Taken(p) => Taken(p)' /\ Before(p, q),
           \A p \in Position' : Taken(p)' => p = q \/ (p \in Position /\ Taken(p)),
           Taken(q)'
    PROVE  \E next \in [DOMAIN result' -> Position'] : Matches(next)'
<1>1. /\ \A i \in DOMAIN result :
             /\ at[i] \in Position /\ Taken(at[i])
             /\ result[i] = Chunk(at[i]) /\ Chunk(at[i]) < Letters
      /\ \A i, j \in DOMAIN result : i < j => Before(at[i], at[j])
      /\ \A p \in Position : Taken(p) /\ Chunk(p) < Letters => \E j \in DOMAIN result : at[j] = p
  BY DEF Matches
<1> DEFINE NextMatches(next) ==
              /\ \A i \in DOMAIN result' :
                    /\ next[i] \in Position' /\ Taken(next[i])'
                    /\ result'[i] = Chunk(next[i])' /\ Chunk(next[i])' < Letters
              /\ \A i, j \in DOMAIN result' : i < j => Before(next[i], next[j])
              /\ \A p \in Position' : Taken(p)' /\ Chunk(p)' < Letters
                    => \E j \in DOMAIN result' : next[j] = p
<1>2. SUFFICES \E next \in [DOMAIN result' -> Position'] : NextMatches(next)
  BY DEF Matches, Taken, Chunk, Before, Position
<1>3. CASE idx < Letters
  <2>a. PICK n : n = Len(result) + 1
    OBVIOUS
  <2>b. PICK next : next = [i \in 1 .. n |-> IF i = n THEN q ELSE at[i]]
    OBVIOUS
  <2>1. /\ result' = Append(result, idx) /\ DOMAIN result' = 1 .. n /\ n \in Nat
        /\ DOMAIN result = 1 .. n - 1 /\ result'[n] = idx
        /\ \A i \in 1 .. n - 1 : result'[i] = result[i]
    BY <1>3, <2>a
  <2>2. \A i \in 1 .. n : i = n \/ i \in 1 .. n - 1
    BY <2>1
  <2>3. next[n] = q /\ \A i \in 1 .. n - 1 : next[i] = at[i]
    BY <2>b, <2>1
  <2>4. next \in [DOMAIN result' -> Position']
    BY <1>1, <2>b, <2>1, <2>2
  <2>5. ASSUME NEW i \in DOMAIN result'
        PROVE  /\ next[i] \in Position' /\ Taken(next[i])'
               /\ result'[i] = Chunk(next[i])' /\ Chunk(next[i])' < Letters
    <3>1. CASE i = n
      BY <1>3, <2>1, <2>3, <3>1
    <3>2. CASE i \in 1 .. n - 1
      BY <1>1, <2>1, <2>3, <3>2
    <3> QED BY <2>1, <2>2, <3>1, <3>2
  <2>6. ASSUME NEW i \in DOMAIN result', NEW j \in DOMAIN result', i < j
        PROVE  Before(next[i], next[j])
    <3>1. i \in 1 .. n - 1
      BY <2>1, <2>6
    <3>2. CASE j = n
      BY <1>1, <2>1, <2>3, <3>1, <3>2
    <3>3. CASE j \in 1 .. n - 1
      BY <1>1, <2>1, <2>3, <2>6, <3>1, <3>3
    <3> QED BY <2>1, <2>2, <3>2, <3>3
  <2>7. ASSUME NEW p \in Position', Taken(p)', Chunk(p)' < Letters
        PROVE  \E j \in DOMAIN result' : next[j] = p
    <3>1. CASE p = q
      BY <2>1, <2>3, <3>1
    <3>2. CASE p \in Position /\ Taken(p)
      <4>1. PICK j \in DOMAIN result : at[j] = p
        BY <1>1, <2>7, <3>2
      <4> QED BY <2>1, <2>3, <4>1
    <3> QED BY <2>7, <3>1, <3>2
  <2>8. NextMatches(next)
    BY <2>5, <2>6, <2>7
  <2> QED BY <2>4, <2>8
<1>4. CASE ~(idx < Letters)
  <2>1. result' = result
    BY <1>4
  <2>2. at \in [DOMAIN result' -> Position']
    BY <1>1, <2>1
  <2>3. NextMatches(at)
    BY <1>1, <1>4, <2>1
  <2> QED BY <2>2, <2>3
<1> QED BY <1>3, <1>4

(* The chunk is taken of the last word, which left chunks remain of: what  *)
(* is written to result is chunk C - left of that word.                    *)
LEMMA TakeChunk ==
    ASSUME AliasInv, words' \in Seq(Word), words' # <<>>, NEW left \in 1 .. C, NEW word,
           word = words'[Len(words')] \div Shift(C - left), Take(word, left),
           DOMAIN words \subseteq DOMAIN words',
           \A w \in DOMAIN words : words'[w] = words[w],
           \A p \in Position : Taken(p) <=>
              p[1] < Len(words') \/ (p[1] = Len(words') /\ p[2] < C - left),
           \A p \in Position' : p \in Position \/ (p[1] = Len(words') /\ left = C)
    PROVE  AliasInv'
<1> DEFINE L == Len(words')
<1>1. PICK q : q = <<L, C - left>>
  OBVIOUS
<1>2. L \in Nat \ {0} /\ DOMAIN words' = 1 .. L /\ words'[L] \in Nat /\ C \in Nat \ {0}
  <2>1. C \in Nat \ {0} /\ Word \subseteq Nat
    BY ChunksOfWord
  <2>2. L \in Nat /\ L # 0 /\ DOMAIN words' = 1 .. L
    OBVIOUS
  <2>3. words'[L] \in Word
    BY <2>2
  <2> QED BY <2>1, <2>2, <2>3
<1>3. C - left \in 0 .. C - 1 /\ q[1] = L /\ q[2] = C - left /\ left - 1 \in 0 .. C /\ left \in Nat
  BY <1>1, <1>2
<1>4. q \in Position'
  BY <1>1, <1>2, <1>3 DEF Position, C
<1>5. /\ word \in Nat /\ word \div Mask \in Nat /\ word % Mask \in Nat
      /\ word % Mask = Chunk(q)'
      /\ word \div Mask = words'[L] \div Shift(C - (left - 1))
  <2>1. C - left \in Nat /\ C - (left - 1) = (C - left) + 1
    BY <1>2, <1>3
  <2>2. /\ Shift(C - left) \in Nat \ {0} /\ Mask \in Nat \ {0}
        /\ Shift((C - left) + 1) = Shift(C - left) * Mask
    BY <2>1, ChunksOfWord
  <2>a. PICK w \in Nat, a \in Nat \ {0} : w = words'[L] /\ a = Shift(C - left)
    BY <1>2, <2>2
  <2>b. word = w \div a
    BY <2>a
  <2>3. word \in Nat
    BY <2>a, <2>b, Quotient
  <2>4. word \div Mask = words'[L] \div Shift((C - left) + 1)
    <3>1. (w \div a) \div Mask = w \div (a * Mask)
      BY <2>2, ShiftTwice
    <3> QED BY <2>2, <2>a, <2>b, <3>1
  <2>5. word \div Mask \in Nat /\ word % Mask \in Nat
    <3>1. PICK m \in Nat \ {0} : m = Mask
      BY <2>2
    <3>2. word \div m \in Nat /\ word % m \in 0 .. m - 1
      BY <2>3, <3>1, Quotient
    <3> QED BY <3>1, <3>2
  <2>6. word % Mask = Chunk(q)'
    BY <1>3 DEF Chunk, Shift, Mask
  <2> QED BY <2>1, <2>3, <2>4, <2>5, <2>6
<1>6. /\ remain' = left - 1 /\ cache' = word \div Mask
      /\ result' = IF word % Mask < Letters THEN Append(result, word % Mask) ELSE result
  BY DEF Take
<1>7. result \in Seq(Nat) /\ result' \in Seq(Nat)
  BY <1>5, <1>6 DEF AliasInv
<1>8. \A p \in Position : p \in Position' /\ Chunk(p)' = Chunk(p) /\ p[1] \in 1 .. L /\ p[2] \in 0 .. C - 1
  BY <1>2 DEF Position, Chunk, C
<1>9. \A p \in Position' : Taken(p)' <=> p[1] < L \/ (p[1] = L /\ p[2] < C - (left - 1))
  BY <1>6 DEF Taken
<1>10. \A p \in Position' : p[2] \in 0 .. C - 1 /\ p[1] \in 1 .. L /\ p = <<p[1], p[2]>>
  BY <1>2 DEF Position, C
<1>11. Taken(q)'
  BY <1>2, <1>3, <1>4, <1>9
<1>12. ASSUME NEW p \in Position, Taken(p) PROVE Taken(p)' /\ Before(p, q)
  BY <1>2, <1>3, <1>8, <1>9, <1>12 DEF Before
<1>13. ASSUME NEW p \in Position', Taken(p)' PROVE p = q \/ (p \in Position /\ Taken(p))
  <2>1. CASE p[1] = L /\ p[2] = C - left
    BY <1>1, <1>10, <2>1
  <2>2. CASE p[1] < L \/ (p[1] = L /\ p[2] < C - left)
    <3>1. p \in Position
      BY <1>2, <1>10, <2>2
    <3>2. Taken(p)
      BY <2>2, <3>1
    <3> QED BY <3>1, <3>2
  <2> QED BY <1>2, <1>3, <1>9, <1>10, <1>13, <2>1, <2>2
<1>14. PICK at \in [DOMAIN result -> Position] : Matches(at)
  BY DEF AliasInv
<1>15. \E next \in [DOMAIN result' -> Position'] : Matches(next)'
  <2>1. PICK idx \in Nat : idx = word % Mask
    BY <1>5
  <2> HIDE DEF L
  <2> QED BY <1>4, <1>5, <1>6, <1>7, <1>8, <1>11, <1>12, <1>13, <1>14, <2>1, ChunkTaken
<1> QED BY <1>2, <1>3, <1>5, <1>6, <1>7, <1>15 DEF AliasInv

LEMMA NoLetters ==
    ASSUME NEW r, r = <<>>, NEW S
    PROVE  \E at \in [DOMAIN r -> S] : TRUE
<1>1. DOMAIN r = {}
  OBVIOUS
<1>2. [i \in {} |-> 0] \in [{} -> S]
  OBVIOUS
<1> QED BY <1>1, <1>2

LEMMA GenStep == ASSUME AliasInv, Gen PROVE AliasInv'
<1>1. C \in Nat \ {0} /\ LetterIdxMax = C /\ Word \subseteq Nat
  BY ChunksOfWord DEF LetterIdxMax, C
<1>2. CASE FirstWord
  <2>1. words = <<>> /\ result = <<>> /\ result' = <<>> /\ remain' = C
    BY <1>1, <1>2 DEF FirstWord, AliasInv
  <2>2. cache' \in Word /\ words' = <<cache'>>
    BY <1>2 DEF FirstWord
  <2>3. words' \in Seq(Word) /\ words' # <<>> /\ Len(words') = 1 /\ words'[1] = cache' /\ cache' \in Nat
    BY <1>1, <2>2
  <2>4. cache' = words'[Len(words')] \div Shift(C - remain')
    BY <1>1, <2>1, <2>3, ChunksOfWord
  <2>5. \A p \in Position' : ~Taken(p)'
    BY <1>1, <2>1, <2>3 DEF Position, Taken, C
  <2>6. PICK at \in [DOMAIN result' -> Position'] : TRUE
    BY <2>1, NoLetters
  <2>7. Matches(at)'
    <3>1. DOMAIN result' = {}
      BY <2>1
    <3> QED BY <2>5, <3>1 DEF Matches
  <2>8. \E next \in [DOMAIN result' -> Position'] : Matches(next)'
    BY <2>7
  <2>9. result' \in Seq(Nat) /\ words' \in Seq(Word) /\ remain' \in 0 .. C
    BY <1>1, <2>1, <2>3
  <2> QED BY <2>3, <2>4, <2>8, <2>9 DEF AliasInv
<1>3. CASE Round
  <2>1. words # <<>> /\ words \in Seq(Word) /\ remain \in 0 .. C /\ Len(words) \in Nat \ {0}
    BY <1>3 DEF Round, AliasInv
  <2>2. CASE remain > 0 /\ Take(cache, remain) /\ UNCHANGED words
    <3>1. cache = words'[Len(words')] \div Shift(C - remain) /\ remain \in 1 .. C
      BY <1>1, <2>1, <2>2 DEF AliasInv
    <3>2. PICK left \in 1 .. C : left = remain
      BY <3>1
    <3>3. PICK word : word = cache
      OBVIOUS
    <3>4. /\ words' \in Seq(Word) /\ words' # <<>> /\ DOMAIN words \subseteq DOMAIN words'
          /\ \A w \in DOMAIN words : words'[w] = words[w]
      BY <2>1, <2>2
    <3>5. \A p \in Position' : p \in Position
      BY <2>2 DEF Position
    <3>6. \A p \in Position : Taken(p) <=>
              p[1] < Len(words') \/ (p[1] = Len(words') /\ p[2] < C - left)
      BY <2>2, <3>2 DEF Taken
    <3>7. word = words'[Len(words')] \div Shift(C - left) /\ Take(word, left)
      BY <2>2, <3>1, <3>2, <3>3
    <3> QED BY <3>4, <3>5, <3>6, <3>7, TakeChunk
  <2>3. CASE /\ remain = 0
             /\ \E word \in Word : Take(word, LetterIdxMax) /\ words' = Append(words, word)
    <3>1. PICK word \in Word : Take(word, C) /\ words' = Append(words, word)
      BY <1>1, <2>3
    <3>2. /\ words' \in Seq(Word) /\ words' # <<>> /\ Len(words') = Len(words) + 1
          /\ DOMAIN words = 1 .. Len(words) /\ DOMAIN words' = 1 .. Len(words) + 1
          /\ words'[Len(words')] = word
          /\ \A w \in DOMAIN words : words'[w] = words[w]
      BY <2>1, <3>1
    <3>3. word = words'[Len(words')] \div Shift(C - C)
      BY <1>1, <3>2, ChunksOfWord
    <3>4. \A p \in Position : /\ p[1] \in 1 .. Len(words) /\ p[2] \in 0 .. C - 1
                              /\ Taken(p) /\ p[1] < Len(words')
      BY <1>1, <2>1, <2>3, <3>2 DEF Position, Taken, C
    <3>5. ASSUME NEW p \in Position' PROVE p \in Position \/ p[1] = Len(words')
      <4>1. PICK w \in 1 .. Len(words) + 1, i \in 0 .. C - 1 : p = <<w, i>>
        BY <3>2 DEF Position, C
      <4> QED BY <2>1, <3>2, <4>1 DEF Position, C
    <3>6. C \in 1 .. C
      BY <1>1
    <3>7. \A p \in Position : Taken(p) <=>
              p[1] < Len(words') \/ (p[1] = Len(words') /\ p[2] < C - C)
      BY <3>4
    <3>8. PICK left \in 1 .. C : left = C
      BY <3>6
    <3>9. /\ \A p \in Position : Taken(p) <=>
              p[1] < Len(words') \/ (p[1] = Len(words') /\ p[2] < C - left)
          /\ \A p \in Position' : p \in Position \/ (p[1] = Len(words') /\ left = C)
          /\ word = words'[Len(words')] \div Shift(C - left) /\ Take(word, left)
      BY <3>1, <3>3, <3>5, <3>7, <3>8
    <3>10. DOMAIN words \subseteq DOMAIN words'
      BY <2>1, <3>2
    <3> QED BY <3>2, <3>9, <3>10, TakeChunk
  <2> QED BY <1>3, <2>2, <2>3 DEF Round
<1> QED BY <1>2, <1>3 DEF Gen

LEMMA AliasInvariant == Spec => []AliasInv
<1>1. Init => AliasInv
  <2> SUFFICES ASSUME Init PROVE AliasInv
    OBVIOUS
  <2>1. result = <<>> /\ words = <<>> /\ remain = 0
    BY DEF Init, AliasInit
  <2>2. result \in Seq(Nat) /\ words \in Seq(Word) /\ remain \in 0 .. C
    BY <2>1, ChunksOfWord
  <2>3. PICK at \in [DOMAIN result -> Position] : TRUE
    BY <2>1, NoLetters
  <2>4. \A p \in Position : FALSE
    BY <2>1 DEF Position
  <2>5. Matches(at)
    BY <2>1, <2>4 DEF Matches
  <2> QED BY <2>1, <2>2, <2>5 DEF AliasInv
<1>2. AliasInv /\ [Next]_vars => AliasInv'
  <2> SUFFICES ASSUME AliasInv, [Next]_vars PROVE AliasInv'
    OBVIOUS
  <2>1. CASE GenAlias
    BY <2>1, GenStep DEF GenAlias
  <2>2. CASE UNCHANGED aliasVars
    <3>1. /\ result' = result /\ cache' = cache /\ remain' = remain /\ words' = words
          /\ Position' = Position
      BY <2>2 DEF aliasVars, Position
    <3>2. PICK at \in [DOMAIN result -> Position] : Matches(at)
      BY DEF AliasInv
    <3>3. Matches(at)'
      BY <3>1, <3>2 DEF Matches, Taken, Chunk
    <3>4. \E f \in [DOMAIN result' -> Position'] : Matches(f)'
      BY <3>1, <3>3
    <3> QED BY <3>1, <3>4 DEF AliasInv
  <2> QED BY <2>1, <2>2 DEF Next, ParseForm, Finished, vars
<1> QED BY <1>1, <1>2, PTL DEF Spec

(* alias.Gen: whatever the number of letters, the width of a word and the  *)
(* width of an index, the letters of an alias are the chunks of the words  *)
(* drawn that are letters, in their order, each used once, none of them    *)
(* skipped.                                                                *)
THEOREM LettersOfAliasAreFresh == Spec => []LettersAreFresh
<1>1. ASSUME AliasInv PROVE LettersAreFresh
  <2>1. PICK at \in [DOMAIN result -> Position] : Matches(at)
    BY <1>1 DEF AliasInv
  <2>2. ASSUME NEW i \in DOMAIN result, NEW p \in Position, Chunk(p) < Letters, Before(p, at[i])
        PROVE  \E j \in DOMAIN result : at[j] = p
    <3>1. Taken(at[i]) /\ at[i] \in Position
      BY <2>1 DEF Matches
    <3>2. /\ p[1] \in Nat /\ p[2] \in Int /\ at[i][1] \in Nat /\ at[i][2] \in Int
          /\ Len(words) \in Nat /\ C - remain \in Int
      <4>1. Len(words) \in Nat /\ C - remain \in Int /\ DOMAIN words = 1 .. Len(words)
        BY <1>1, ChunksOfWord DEF AliasInv
      <4>2. \A x \in Position : x[1] \in Nat /\ x[2] \in Int
        BY <4>1 DEF Position
      <4> QED BY <3>1, <4>1, <4>2
    <3>3. Taken(p)
      BY <2>2, <3>1, <3>2 DEF Taken, Before
    <3> QED BY <2>1, <2>2, <3>3 DEF Matches
  <2>3. \A i \in DOMAIN result :
           /\ result[i] = Chunk(at[i]) /\ Chunk(at[i]) < Letters
           /\ \A j \in DOMAIN result : i < j => Before(at[i], at[j])
    BY <2>1 DEF Matches
  <2> QED BY <2>2, <2>3 DEF LettersAreFresh
<1> QED BY <1>1, AliasInvariant, PTL
=============================================================================
