--------------------------- MODULE TimeoutsProofs ---------------------------
(***************************************************************************)
(* Proofs about Timeouts, for every set of cyclic timers, every interval,  *)
(* every width of the clock and every sequence of polled counters.  The    *)
(* invariant has three parts.  PollInv follows a tick counter from the     *)
(* pass that tests it to the next.  StartedInv says which timers are in    *)
(* the list and that a handler finds a free entry.  ClockInv compares the  *)
(* times of the wrapping clock with the real time left: they stay within   *)
(* half of the clock's range, so TIME_LESS_THAN orders them as they are.   *)
(***************************************************************************)
EXTENDS Timeouts, SequenceTheorems, FiniteSetTheorems, WellFoundedInduction, TLAPS

-----------------------------------------------------------------------------
(* The wrapping clock.                                                     *)

\* Multiples of the modulus make no difference.
LEMMA ModShift ==
  ASSUME NEW M \in Nat \ {0}, NEW z \in Int, NEW k \in Int
  PROVE (z + k*M) % M = z % M
<1> DEFINE y == z + k * M
           q1 == z \div M
           q2 == y \div M
<1>0. y \in Int
  OBVIOUS
<1>1. z % M \in 0 .. M-1 /\ z = q1 * M + (z % M) /\ q1 \in Int
  OBVIOUS
<1>2. y % M \in 0 .. M-1 /\ y = q2 * M + (y % M) /\ q2 \in Int
  <2> HIDE DEF y
  <2> QED BY <1>0
<1>3. (q1+k-q2)*M = q1*M+k*M-q2*M
  BY <1>1, <1>2
<1>4. (q1+k-q2)*M = (y % M) - (z % M)
  BY <1>1, <1>2, <1>3
<1> HIDE DEF q1, q2, y
<1>5. q1 + k - q2 \in Int /\ (q1+k-q2)*M < M /\ (q1+k-q2)*M > -M
  BY <1>1, <1>2, <1>4
<1>6. q1+k-q2 = 0
  BY <1>5
<1>7. (q1+k-q2)*M = 0
  BY <1>6
<1>8. y % M = z % M
  BY <1>1, <1>2, <1>4, <1>7
<1> QED
  BY <1>8 DEF y

\* The constants of the clock.
LEMMA ClockFacts ==
  /\ Step \in Nat /\ Step >= 1 /\ MaxLag \in Nat /\ MaxLag >= 1
  /\ Modulus \in Nat \ {0} /\ Modulus \div 2 \in Nat
  /\ 2 * (Modulus \div 2) = Modulus
  /\ \A h \in Timers : Interval[h] \in Nat /\ Interval[h] >= 1
  /\ \A h \in Timers : Interval[h] + (2 * MaxLag) * Step < Modulus \div 2
<1>1. Step \in Nat /\ Step >= 1 /\ MaxLag \in Nat /\ MaxLag >= 1
  BY ClockAssumption
<1>2. \A h \in Timers : Interval[h] \in Nat /\ Interval[h] >= 1
  BY ClockAssumption
<1>3. \A h \in Timers : Interval[h] + (2 * MaxLag) * Step < Modulus \div 2
  BY ClockAssumption
<1>4. Modulus \in Nat /\ Modulus % 2 = 0
  BY ClockAssumption
<1>5. Modulus \div 2 \in Nat /\ 2 * (Modulus \div 2) = Modulus
  BY <1>4
<1>6. (2 * MaxLag) * Step \in Nat
  BY <1>1
<1>7. "tcp" \in Timers
  BY DEF Timers
<1>8. Modulus # 0
  BY <1>2, <1>3, <1>5, <1>6, <1>7
<1> QED
  BY <1>1, <1>2, <1>3, <1>4, <1>5, <1>8

\* Ticks in the unit of the clock.
LEMMA StepFacts ==
  ASSUME NEW n \in Nat, NEW m \in Nat, n <= m
  PROVE  /\ n * Step \in Nat /\ m * Step \in Nat /\ n * Step <= m * Step
         /\ (n + 1) * Step = n * Step + Step
<1>1. Step \in Nat
  BY ClockFacts
<1>2. PICK d \in Nat : m = n + d
  BY m - n \in Nat /\ m = n + (m - n)
<1>3. (n + d) * Step = n * Step + d * Step /\ d * Step \in Nat /\ n * Step \in Nat
  BY <1>1
<1> QED
  BY <1>1, <1>2, <1>3

\* A time on the clock.
LEMMA ClockType ==
  ASSUME NEW x \in Int
  PROVE  x % Modulus \in 0 .. Modulus - 1
  BY ClockFacts

\* The clock and the time left move against each other.
LEMMA ClockMoves ==
  ASSUME NEW n \in Int, NEW x \in Int, NEW s \in Int
  PROVE  (((n + s) % Modulus) + (x - s)) % Modulus = (n + x) % Modulus
<1> DEFINE q == (n + s) \div Modulus
           r == (n + s) % Modulus
<1>1. q \in Int /\ r \in Int /\ n + s = q * Modulus + r /\ q * Modulus \in Int
  BY ClockFacts
<1>2. (0 - q) * Modulus = 0 - q * Modulus /\ 0 - q \in Int
  BY <1>1, ClockFacts
<1>3. ((n + x) + (0 - q) * Modulus) % Modulus = (n + x) % Modulus
  <2>1. Modulus \in Nat \ {0} /\ n + x \in Int
    BY ClockFacts
  <2> HIDE DEF q
  <2> QED
    BY <1>2, <2>1, ModShift
<1>4. r + (x - s) = (n + x) + (0 - q) * Modulus
  <2> HIDE DEF q, r
  <2> QED
    BY <1>1, <1>2
<1> QED
  BY <1>3, <1>4

\* Two sums with a common part.
LEMMA SumsDiffer ==
  ASSUME NEW n \in Int, NEW a \in Int, NEW b \in Int, NEW x \in Int, NEW y \in Int,
         NEW p \in Int, NEW q \in Int, n + a = p + x, n + b = q + y
  PROVE  a - b = (p - q) + (x - y)
  OBVIOUS

\* TIME_LESS_THAN is right for times less than half of the clock's range
\* apart, wherever the clock stands.
LEMMA TimeLessFacts ==
  ASSUME NEW n \in Int, NEW a \in Int, NEW b \in Int,
         a - b < Modulus \div 2, b - a < Modulus \div 2
  PROVE  TimeLess((n + a) % Modulus, (n + b) % Modulus) <=> a < b
<1> DEFINE x == (n + a) % Modulus
           y == (n + b) % Modulus
           d == (n + a) \div Modulus - (n + b) \div Modulus
           z == x - y
<1>1. x \in 0 .. Modulus - 1 /\ y \in 0 .. Modulus - 1
  BY ClockFacts
<1>2. d \in Int /\ a - b = d * Modulus + z
  <2> DEFINE p == (n + a) \div Modulus
             q == (n + b) \div Modulus
  <2>1. p \in Int /\ n + a = p * Modulus + x
    BY ClockFacts
  <2>2. q \in Int /\ n + b = q * Modulus + y
    BY ClockFacts
  <2>3. (p - q) * Modulus = p * Modulus - q * Modulus
    BY <2>1, <2>2, ClockFacts
  <2> HIDE DEF p, q, x, y
  <2>4. a - b = (p - q) * Modulus + (x - y)
    <3> DEFINE u == p * Modulus
               v == q * Modulus
    <3>1. u \in Int /\ v \in Int /\ n + a = u + x /\ n + b = v + y
      BY <2>1, <2>2, ClockFacts
    <3>2. x \in Int /\ y \in Int
      BY <1>1
    <3>3. a - b = (u - v) + (x - y)
      <4> HIDE DEF u, v
      <4> QED
        BY <3>1, <3>2, SumsDiffer
    <3> QED
      BY <2>3, <3>3
  <2> QED
    BY <2>1, <2>2, <2>4 DEF p, q
<1> HIDE DEF x, y, d
<1>3. z \in Int /\ z < Modulus /\ z > -Modulus
  BY <1>1, ClockFacts
<1>4. d * Modulus < 2 * Modulus /\ d * Modulus > -2 * Modulus
  <2>1. d * Modulus \in Int
    BY <1>2, ClockFacts
  <2> HIDE DEF z
  <2> QED
    BY <1>2, <1>3, <2>1, ClockFacts
<1>5. d \in {-1, 0, 1}
  BY <1>2, <1>4, ClockFacts
<1>6. d * Modulus \in {-Modulus, 0, Modulus}
  BY <1>5, ClockFacts
<1>7. z % Modulus = IF z >= 0 THEN z ELSE z + Modulus
  <2> HIDE DEF z
  <2>1. CASE z >= 0
    BY <1>3, <2>1, ClockFacts
  <2>2. CASE z < 0
    BY <1>3, <2>2, ClockFacts
  <2> QED
    BY <1>3, <2>1, <2>2
<1>8. TimeLess(x, y) <=> z % Modulus > (Modulus \div 2) - 1
  BY DEF TimeLess
<1> HIDE DEF z
<1>9. z \in {a - b - Modulus, a - b, a - b + Modulus}
  BY <1>2, <1>3, <1>6, ClockFacts
<1>10. (z % Modulus > (Modulus \div 2) - 1) <=> a < b
  BY <1>3, <1>7, <1>9, ClockFacts
<1> QED
  BY <1>8, <1>10 DEF x, y

-----------------------------------------------------------------------------
(* Lists.                                                                  *)

\* A set of positions has a first one.
LEMMA Least ==
  ASSUME NEW T, T \subseteq Nat, T # {}
  PROVE \E x \in T : \A y \in T : x <= y
<1> DEFINE R == {ss \in Nat \X Nat : ss[1] < ss[2]}
<1>1. IsWellFoundedOn(R, Nat)
  BY NatLessThanWellFounded, Zenon DEF OpToRel
<1>2. PICK x \in T : \A y \in T : ~ (<<y, x>> \in R)
  <2> HIDE DEF R
  <2> QED
    BY <1>1, WFMin
<1>3. ASSUME NEW y \in T PROVE x <= y
  <2>1. ~(y < x)
    BY <1>2
  <2> QED
    BY <2>1
<1> QED
  BY <1>3

\* What InsertAt puts where.
LEMMA InsertFacts ==
  ASSUME NEW S, NEW l \in Seq(S), NEW e \in S, NEW p \in 1 .. Len(l) + 1
  PROVE  /\ InsertAt(l, p, e) \in Seq(S)
         /\ Len(InsertAt(l, p, e)) = Len(l) + 1
         /\ \A i \in 1 .. Len(l) + 1 : InsertAt(l, p, e)[i] =
              IF i < p THEN l[i] ELSE IF i = p THEN e ELSE l[i - 1]
<1> DEFINE a == SubSeq(l, 1, p - 1)
           b == SubSeq(l, p, Len(l))
<1>0. Len(l) \in Nat /\ (\A i \in 1 .. Len(l) : l[i] \in S)
  BY LenProperties, ElementOfSeq
<1>1. /\ a \in Seq(S) /\ Len(a) = p - 1
      /\ \A i \in 1 .. p - 1 : a[i] = l[i]
  OBVIOUS
<1>2. /\ b \in Seq(S) /\ Len(b) = Len(l) - p + 1
      /\ \A i \in 1 .. Len(l) - p + 1 : b[i] = l[p + i - 1]
  BY <1>0, SubSeqProperties
<1> HIDE DEF a, b
<1>3. /\ a \o <<e>> \in Seq(S) /\ Len(a \o <<e>>) = p
      /\ \A i \in 1 .. p : (a \o <<e>>)[i] = IF i < p THEN l[i] ELSE e
  BY <1>1
<1> DEFINE c == a \o <<e>>
<1>4. /\ c \o b \in Seq(S) /\ Len(c \o b) = Len(l) + 1
      /\ \A i \in 1 .. Len(l) + 1 : (c \o b)[i] = IF i < p THEN l[i] ELSE IF i = p THEN e ELSE l[i - 1]
  <2>0. /\ c \in Seq(S) /\ Len(c) = p
        /\ \A i \in 1 .. p : c[i] = IF i < p THEN l[i] ELSE e
    BY <1>3
  <2> HIDE DEF c
  <2>1. /\ c \o b \in Seq(S) /\ Len(c \o b) = Len(c) + Len(b)
        /\ \A i \in 1 .. Len(c) + Len(b) :
             (c \o b)[i] = IF i <= Len(c) THEN c[i] ELSE b[i - Len(c)]
    BY <1>2, <2>0, ConcatProperties
  <2>2. Len(c) + Len(b) = Len(l) + 1
    BY <1>0, <1>2, <2>0
  <2>3. ASSUME NEW i \in 1 .. Len(l) + 1
        PROVE  (c \o b)[i] = IF i < p THEN l[i] ELSE IF i = p THEN e ELSE l[i - 1]
    <3>1. (c \o b)[i] = IF i <= p THEN c[i] ELSE b[i - p]
      BY <2>0, <2>1, <2>2
    <3>2. CASE i <= p
      BY <1>0, <2>0, <3>1, <3>2
    <3>3. CASE ~(i <= p)
      <4>1. i - p \in 1 .. Len(l) - p + 1 /\ p + (i - p) - 1 = i - 1
        BY <1>0, <3>3
      <4> QED
        BY <1>0, <1>2, <3>1, <3>3, <4>1
    <3> QED
      BY <3>2, <3>3
  <2> QED
    BY <2>1, <2>2, <2>3
<1> QED
  BY <1>4 DEF InsertAt, a, b

\* What RemoveAt leaves.
LEMMA RemoveFacts ==
  ASSUME NEW S, NEW l \in Seq(S), NEW p \in 1 .. Len(l)
  PROVE  /\ RemoveAt(l, p) \in Seq(S)
         /\ Len(RemoveAt(l, p)) = Len(l) - 1
         /\ \A i \in 1 .. Len(l) - 1 : RemoveAt(l, p)[i] =
              IF i < p THEN l[i] ELSE l[i + 1]
<1> DEFINE a == SubSeq(l, 1, p - 1)
           b == SubSeq(l, p + 1, Len(l))
<1>0. Len(l) \in Nat /\ (\A i \in 1 .. Len(l) : l[i] \in S)
  BY LenProperties, ElementOfSeq
<1>1. /\ a \in Seq(S) /\ Len(a) = p - 1
      /\ \A i \in 1 .. p - 1 : a[i] = l[i]
  OBVIOUS
<1>2. /\ b \in Seq(S) /\ Len(b) = Len(l) - p
      /\ \A i \in 1 .. Len(l) - p : b[i] = l[p + 1 + i - 1]
  BY <1>0, SubSeqProperties
<1> HIDE DEF a, b
<1>4. /\ a \o b \in Seq(S) /\ Len(a \o b) = Len(l) - 1
      /\ \A i \in 1 .. Len(l) - 1 : (a \o b)[i] = IF i < p THEN l[i] ELSE l[i + 1]
  <2>1. /\ a \o b \in Seq(S) /\ Len(a \o b) = Len(a) + Len(b)
        /\ \A i \in 1 .. Len(a) + Len(b) :
             (a \o b)[i] = IF i <= Len(a) THEN a[i] ELSE b[i - Len(a)]
    BY <1>1, <1>2, ConcatProperties
  <2>2. Len(a) + Len(b) = Len(l) - 1
    BY <1>0, <1>1, <1>2
  <2>3. ASSUME NEW i \in 1 .. Len(l) - 1
        PROVE  (a \o b)[i] = IF i < p THEN l[i] ELSE l[i + 1]
    <3>1. (a \o b)[i] = IF i <= p - 1 THEN a[i] ELSE b[i - (p - 1)]
      BY <1>1, <2>1, <2>2
    <3>2. CASE i < p
      <4>1. i <= p - 1 /\ i \in 1 .. p - 1
        BY <1>0, <3>2
      <4> QED
        BY <1>1, <3>1, <3>2, <4>1
    <3>3. CASE ~(i < p)
      <4>1. i - (p - 1) \in 1 .. Len(l) - p /\ p + 1 + (i - (p - 1)) - 1 = i + 1
            /\ ~(i <= p - 1)
        BY <1>0, <3>3
      <4> QED
        BY <1>2, <3>1, <3>3, <4>1
    <3> QED
      BY <3>2, <3>3
  <2> QED
    BY <2>1, <2>2, <2>3
<1> QED
  BY <1>4 DEF RemoveAt, a, b

-----------------------------------------------------------------------------
(* The tick counters.                                                      *)

\* The part of TypeOK that is about the main loop and its counters.
LoopTypeOK ==
  /\ lag \in 0 .. MaxLag
  /\ enableDns \in BOOLEAN
  /\ pc \in {"test", "reset", "expire", "handler", "rest"}
  /\ idx \in 1 .. Len(Polled) + 1
  /\ cnt \in [Counters -> Nat] /\ \A c \in Counters : cnt[c] < Width[c]
  /\ since \in [Counters -> Nat]

\* The constants of the counters; every one is polled somewhere.
LEMMA CounterFacts ==
  /\ Len(Polled) \in Nat
  /\ \A i \in 1 .. Len(Polled) : Polled[i] \in Counters
  /\ \A c \in Counters : \E i \in 1 .. Len(Polled) : Polled[i] = c
  /\ \A c \in Counters :
       /\ Threshold[c] \in Nat /\ Threshold[c] >= 1 /\ Width[c] \in Nat
       /\ Threshold[c] + 2 * MaxLag <= Width[c]
<1>1. Polled \in Seq(Counters)
  BY CounterAssumption
<1>2. Len(Polled) \in Nat /\ DOMAIN Polled = 1 .. Len(Polled)
      /\ \A i \in 1 .. Len(Polled) : Polled[i] \in Counters
  BY <1>1
<1>3. \A c \in Counters : \E i \in 1 .. Len(Polled) : Polled[i] = c
  BY <1>2 DEF Counters, Range
<1> QED
  BY <1>2, <1>3, CounterAssumption

\* A tick counts, and does not wrap a counter that main will find due.
LEMMA TickPoll ==
  ASSUME LoopTypeOK, PollInv, Tick
  PROVE  LoopTypeOK' /\ PollInv'
<1>0. MaxLag \in Nat /\ MaxLag >= 1
  BY ClockFacts
<1>1. /\ lag < MaxLag /\ lag' = lag + 1
      /\ cnt' = [c \in Counters |-> (cnt[c] + 1) % Width[c]]
      /\ since' = [c \in Counters |-> IF c = "dns" /\ ~enableDns THEN 0
                                      ELSE Lesser(since[c] + 1, SinceCap(c))]
      /\ UNCHANGED <<pc, idx, enableDns>>
  BY DEF Tick
<1>2. ASSUME NEW c \in Counters
      PROVE  /\ cnt[c] \in Nat /\ since[c] \in Nat /\ cnt[c] < Width[c]
             /\ Threshold[c] \in Nat /\ Threshold[c] >= 1 /\ Width[c] \in Nat
             /\ Threshold[c] + 2 * MaxLag <= Width[c]
             /\ cnt'[c] \in Nat /\ cnt'[c] < Width[c]
             /\ cnt'[c] = IF cnt[c] + 1 = Width[c] THEN 0 ELSE cnt[c] + 1
             /\ Lesser(since[c] + 1, SinceCap(c)) \in Nat
             /\ Lesser(since[c] + 1, SinceCap(c)) <= since[c] + 1
             /\ since'[c] = IF c = "dns" /\ ~enableDns THEN 0
                            ELSE Lesser(since[c] + 1, SinceCap(c))
  <2>1. /\ cnt[c] \in Nat /\ since[c] \in Nat /\ cnt[c] < Width[c]
        /\ Threshold[c] \in Nat /\ Threshold[c] >= 1 /\ Width[c] \in Nat
        /\ Threshold[c] + 2 * MaxLag <= Width[c]
    BY CounterFacts DEF LoopTypeOK
  <2>2. cnt'[c] = (cnt[c] + 1) % Width[c]
    BY <1>1
  <2>3. (cnt[c] + 1) % Width[c] = IF cnt[c] + 1 = Width[c] THEN 0 ELSE cnt[c] + 1
    <3>1. CASE cnt[c] + 1 = Width[c]
      BY <2>1, <3>1
    <3>2. CASE cnt[c] + 1 < Width[c]
      BY <2>1, <3>2
    <3> QED
      BY <2>1, <3>1, <3>2
  <2>4. /\ Lesser(since[c] + 1, SinceCap(c)) \in Nat
        /\ Lesser(since[c] + 1, SinceCap(c)) <= since[c] + 1
    BY <1>0, <2>1 DEF Lesser, SinceCap
  <2> QED
    BY <1>1, <2>1, <2>2, <2>3, <2>4
<1>3. LoopTypeOK'
  BY <1>0, <1>1, <1>2 DEF LoopTypeOK
<1>4. ASSUME NEW c \in Counters
      PROVE  /\ Tested(c)' <=> Tested(c)
             /\ c = "dns" /\ ~enableDns' => since'[c] = 0
  BY <1>1, <1>2 DEF Tested
<1>5. ASSUME NEW c \in Counters, c = "dns" => enableDns
      PROVE  \/ since'[c] <= lag' /\ ~Tested(c)' /\ pc' \in {"test", "reset", "rest"}
             \/ /\ since'[c] <= cnt'[c] + MaxLag
                /\ cnt'[c] < Threshold[c] + lag' + (IF Tested(c)' THEN 0 ELSE MaxLag)
  <2>1. since'[c] \in Nat /\ since'[c] <= since[c] + 1 /\ lag \in Nat
    BY <1>2, <1>5 DEF LoopTypeOK
  <2>2. CASE since[c] <= lag /\ ~Tested(c) /\ pc \in {"test", "reset", "rest"}
    BY <1>1, <1>2, <1>4, <2>1, <2>2
  <2>3. CASE /\ since[c] <= cnt[c] + MaxLag
             /\ cnt[c] < Threshold[c] + lag + (IF Tested(c) THEN 0 ELSE MaxLag)
    <3>1. cnt[c] + 1 < Width[c]
      BY <1>0, <1>1, <1>2, <2>1, <2>3
    <3> QED
      BY <1>0, <1>1, <1>2, <1>4, <2>1, <2>3, <3>1
  <2> QED
    BY <1>5, <2>2, <2>3 DEF PollInv
<1> QED
  BY <1>1, <1>3, <1>4, <1>5 DEF PollInv

\* A counter that main tests is not due, or main resets it.
LEMMA MainPoll ==
  ASSUME LoopTypeOK, PollInv, Test \/ Reset \/ CheckStart
  PROVE  LoopTypeOK' /\ PollInv'
<1>0. /\ MaxLag \in Nat /\ MaxLag >= 1 /\ lag \in Nat /\ lag <= MaxLag /\ idx \in Nat
      /\ idx >= 1 /\ Len(Polled) \in Nat
  BY ClockFacts, CounterFacts DEF LoopTypeOK
<1>1. ASSUME NEW c \in Counters
      PROVE  /\ cnt[c] \in Nat /\ since[c] \in Nat /\ Threshold[c] \in Nat
             /\ Threshold[c] >= 1 /\ 0 < Width[c]
  BY CounterFacts, <1>0 DEF LoopTypeOK
<1>2. CASE Test /\ ~Due(Polled[idx])
  <2>1. /\ pc = "test" /\ pc' = "test" /\ idx <= Len(Polled) /\ idx' = idx + 1
        /\ UNCHANGED <<lag, cnt, enableDns, since>>
    BY <1>2 DEF Test, counterVars
  <2>2. LoopTypeOK'
    BY <1>0, <2>1 DEF LoopTypeOK
  <2>3. ASSUME NEW c \in Counters, c # Polled[idx] PROVE Tested(c)' <=> Tested(c)
    <3>1. \A i \in 1 .. idx : i \in 1 .. idx - 1 \/ i = idx
      BY <1>0
    <3> QED
      BY <1>0, <2>1, <2>3, <3>1 DEF Tested
  <2>4. ASSUME NEW c \in Counters, c = Polled[idx], c = "dns" => enableDns
        PROVE  cnt[c] < Threshold[c]
    BY <1>1, <1>2, <2>4 DEF Due
  <2>5. ASSUME NEW c \in Counters, c = "dns" => enableDns'
        PROVE  \/ since'[c] <= lag' /\ ~Tested(c)' /\ pc' \in {"test", "reset", "rest"}
               \/ /\ since'[c] <= cnt'[c] + MaxLag
                  /\ cnt'[c] < Threshold[c] + lag' + (IF Tested(c)' THEN 0 ELSE MaxLag)
    <3>1. CASE c # Polled[idx]
      BY <2>1, <2>3, <2>5, <3>1 DEF PollInv
    <3>2. CASE c = Polled[idx]
      <4>1. cnt[c] < Threshold[c]
        BY <2>1, <2>4, <2>5, <3>2
      <4>2. since[c] <= lag \/ since[c] <= cnt[c] + MaxLag
        BY <2>1, <2>5 DEF PollInv
      <4> QED
        BY <1>0, <1>1, <2>1, <4>1, <4>2
    <3> QED
      BY <3>1, <3>2
  <2> QED
    BY <2>1, <2>2, <2>5 DEF PollInv
<1>3. CASE Test /\ Due(Polled[idx])
  <2>1. /\ pc = "test" /\ pc' = "reset" /\ idx <= Len(Polled) /\ idx' = idx
        /\ UNCHANGED <<lag, cnt, enableDns, since>>
    BY <1>3 DEF Test, counterVars
  <2>2. \A c : Tested(c)' <=> Tested(c)
    BY <2>1 DEF Tested
  <2>3. LoopTypeOK'
    BY <2>1 DEF LoopTypeOK
  <2> QED
    BY <2>1, <2>2, <2>3 DEF PollInv
<1>4. CASE Reset
  <2> DEFINE r == Polled[idx]
  <2>1. /\ pc = "reset" /\ pc' = "test" /\ idx' = idx + 1 /\ idx <= Len(Polled)
        /\ cnt' = [cnt EXCEPT ![r] = 0] /\ since' = [since EXCEPT ![r] = 0]
        /\ UNCHANGED <<lag, enableDns>>
    BY <1>4 DEF Reset, PollInv
  <2>2. r \in Counters
    BY <1>0, <2>1, CounterFacts
  <2>3. LoopTypeOK'
    BY <1>0, <1>1, <2>1, <2>2 DEF LoopTypeOK
  <2>4. ASSUME NEW c \in Counters, c # r PROVE Tested(c)' <=> Tested(c)
    <3>1. \A i \in 1 .. idx : i \in 1 .. idx - 1 \/ i = idx
      BY <1>0
    <3> QED
      BY <1>0, <2>1, <2>4, <3>1 DEF Tested
  <2>5. ASSUME NEW c \in Counters, c # r
        PROVE  cnt'[c] = cnt[c] /\ since'[c] = since[c]
    BY <2>1, <2>5 DEF LoopTypeOK
  <2>6. cnt'[r] = 0 /\ since'[r] = 0
    BY <2>1, <2>2 DEF LoopTypeOK
  <2> HIDE DEF r
  <2>7. ASSUME NEW c \in Counters, c = "dns" => enableDns'
        PROVE  \/ since'[c] <= lag' /\ ~Tested(c)' /\ pc' \in {"test", "reset", "rest"}
               \/ /\ since'[c] <= cnt'[c] + MaxLag
                  /\ cnt'[c] < Threshold[c] + lag' + (IF Tested(c)' THEN 0 ELSE MaxLag)
    <3>1. CASE c # r
      BY <2>1, <2>4, <2>5, <2>7, <3>1 DEF PollInv
    <3>2. CASE c = r
      BY <1>0, <1>1, <2>1, <2>6, <3>2
    <3> QED
      BY <3>1, <3>2
  <2>8. \A c \in Counters : c = "dns" /\ ~enableDns' => since'[c] = 0
    BY <2>1, <2>5, <2>6 DEF PollInv
  <2> QED
    BY <2>1, <2>3, <2>7, <2>8 DEF PollInv
<1>5. CASE CheckStart
  <2>1. /\ pc = "test" /\ idx > Len(Polled) /\ lag' = 0 /\ pc' = "expire"
        /\ UNCHANGED <<idx, cnt, enableDns, since>>
    BY <1>5 DEF CheckStart, counterVars
  <2>2. \A c \in Counters : Tested(c)
    <3>1. \A i \in 1 .. Len(Polled) : i \in 1 .. idx - 1
      BY <1>0, <2>1
    <3> QED
      BY <2>1, <3>1, CounterFacts DEF Tested
  <2>3. \A c \in Counters : ~Tested(c)'
    BY <2>1 DEF Tested
  <2>4. LoopTypeOK'
    BY <1>0, <2>1 DEF LoopTypeOK
  <2>5. ASSUME NEW c \in Counters, c = "dns" => enableDns'
        PROVE  /\ since'[c] <= cnt'[c] + MaxLag
               /\ cnt'[c] < Threshold[c] + lag' + MaxLag
    <3>1. since[c] <= cnt[c] + MaxLag /\ cnt[c] < Threshold[c] + lag + 0
      BY <2>1, <2>2, <2>5 DEF PollInv
    <3> QED
      BY <1>0, <1>1, <2>1, <3>1
  <2> QED
    BY <2>1, <2>3, <2>4, <2>5 DEF PollInv
<1> QED
  BY <1>2, <1>3, <1>4, <1>5

\* The rest of the loop leaves the counters alone; one that is enabled there
\* is behind by no tick.
LEMMA RestPoll ==
  ASSUME LoopTypeOK, PollInv,
         UNCHANGED <<lag, cnt, since>>, enableDns' \in BOOLEAN,
         \/ /\ pc \in {"expire", "handler"} /\ pc' \in {"expire", "handler", "rest"}
            /\ UNCHANGED <<idx, enableDns>>
         \/ pc = "rest" /\ pc' = "rest" /\ UNCHANGED idx /\ (enableDns => enableDns')
         \/ pc = "rest" /\ pc' = "test" /\ idx' = 1 /\ UNCHANGED enableDns
         \/ UNCHANGED <<pc, idx, enableDns>>
  PROVE  LoopTypeOK' /\ PollInv'
<1>1. LoopTypeOK'
  BY CounterFacts DEF LoopTypeOK
<1>2. CASE UNCHANGED <<pc, idx, enableDns>>
  BY <1>1, <1>2 DEF PollInv, Tested
<1>3. CASE ~UNCHANGED <<pc, idx, enableDns>>
  <2>1. \A c : ~Tested(c) /\ ~Tested(c)'
    <3>1. idx' = 1 => 1 .. idx' - 1 = {}
      OBVIOUS
    <3> QED
      BY <1>3, <3>1 DEF Tested
  <2>2. ASSUME NEW c \in Counters, c = "dns" => enableDns'
        PROVE  \/ since'[c] <= lag' /\ ~Tested(c)' /\ pc' \in {"test", "reset", "rest"}
               \/ /\ since'[c] <= cnt'[c] + MaxLag
                  /\ cnt'[c] < Threshold[c] + lag' + (IF Tested(c)' THEN 0 ELSE MaxLag)
    <3>1. CASE c = "dns" => enableDns
      BY <1>3, <2>1, <2>2, <3>1 DEF PollInv
    <3>2. CASE ~(c = "dns" => enableDns)
      <4>1. since[c] = 0 /\ pc' = "rest" /\ lag \in Nat
        BY <1>3, <2>2, <3>2 DEF PollInv, LoopTypeOK
      <4> QED
        BY <2>1, <4>1
    <3> QED
      BY <3>1, <3>2
  <2>3. \A c \in Counters : c = "dns" /\ ~enableDns' => since'[c] = 0
    BY DEF PollInv, LoopTypeOK
  <2> QED
    BY <1>1, <1>3, <2>2, <2>3 DEF PollInv
<1> QED
  BY <1>2, <1>3

\* Every step.
LEMMA PollStep ==
  ASSUME LoopTypeOK, PollInv, [Next]_vars
  PROVE  LoopTypeOK' /\ PollInv'
<1>1. CASE Tick
  BY <1>1, TickPoll
<1>2. CASE Test \/ Reset \/ CheckStart
  BY <1>2, MainPoll
<1>3. CASE Expire \/ CheckEnd \/ CyclicTimer \/ TcpTimer \/ MqttTimer
  <2>1. /\ UNCHANGED <<lag, cnt, since, enableDns, idx>>
        /\ pc \in {"expire", "handler"} /\ pc' \in {"expire", "handler", "rest"}
    BY <1>3 DEF Expire, CheckEnd, CyclicTimer, TcpTimer, MqttTimer, Done, counterVars
  <2> QED
    BY <2>1, RestPoll DEF LoopTypeOK
<1>4. CASE Again
  <2>1. /\ UNCHANGED <<lag, cnt, since, enableDns>>
        /\ pc = "rest" /\ pc' = "test" /\ idx' = 1
    BY <1>4 DEF Again, Resting, counterVars
  <2> QED
    BY <2>1, RestPoll DEF LoopTypeOK
<1>5. CASE Events
  <2>1. /\ UNCHANGED <<lag, cnt, since, pc, idx>> /\ pc = "rest"
        /\ enableDns' \in {enableDns, TRUE}
    BY <1>5 DEF Events, MqttConnect, MqttConnected, MqttClose, PcbFreed, EnableDns,
       Resting, RestUnchanged, mainVars
  <2>2. enableDns' \in BOOLEAN /\ (enableDns => enableDns')
    BY <2>1 DEF LoopTypeOK
  <2> QED
    BY <2>1, <2>2, RestPoll
<1>6. CASE UNCHANGED vars
  <2>1. UNCHANGED <<lag, cnt, since, enableDns, pc, idx>>
    BY <1>6 DEF vars, mainVars, counterVars
  <2> QED
    BY <2>1, RestPoll DEF LoopTypeOK
<1> QED
  BY <1>1, <1>2, <1>3, <1>4, <1>5, <1>6 DEF Next, Loop

-----------------------------------------------------------------------------
(* The list of timeouts.                                                   *)

Entry == [h : Timers, time : 0 .. Modulus - 1, left : Int]

\* A list with each handler once, in order, and on a clock that is at n.
Good(l, n, late) ==
  /\ l \in Seq(Entry)
  /\ \A i, j \in DOMAIN l : l[i].h = l[j].h => i = j
  /\ Ordered(l)
  /\ \A i \in DOMAIN l : OnClock(l[i], n, late)

Holds(l, h) == \E i \in DOMAIN l : l[i].h = h

\* How late a timeout may be, in the clock's unit.
LEMMA LateFacts ==
  ASSUME NEW late \in 0 .. 2 * MaxLag
  PROVE  late * Step \in Nat /\ late * Step <= (2 * MaxLag) * Step
         /\ (2 * MaxLag) * Step \in Nat
<1>1. late \in Nat /\ 2 * MaxLag \in Nat /\ late <= 2 * MaxLag
  BY ClockFacts
<1> QED
  BY <1>1, StepFacts

\* Two timeouts on one clock are less than half of its range apart.
LEMMA OnClockApart ==
  ASSUME NEW late \in 0 .. 2 * MaxLag, NEW n \in Int,
         NEW g \in Timers, NEW a \in Int, a <= Interval[g], a > -(late * Step),
         NEW h \in Timers, NEW b \in Int, b <= Interval[h], b > -(late * Step)
  PROVE  /\ TimeLess((n + a) % Modulus, (n + b) % Modulus) <=> a < b
         /\ a \in -(Modulus \div 2) .. (Modulus \div 2)
         /\ a > -((2 * MaxLag) * Step)
<1> DEFINE u == late * Step
           v == (2 * MaxLag) * Step
<1>1. u \in Nat /\ v \in Nat /\ u <= v
  BY LateFacts
<1>2. /\ Interval[g] \in Nat /\ Interval[h] \in Nat /\ Modulus \div 2 \in Nat
      /\ Interval[g] + v < Modulus \div 2 /\ Interval[h] + v < Modulus \div 2
  BY ClockFacts
<1>3. a > -u /\ b > -u
  OBVIOUS
<1> HIDE DEF u, v
<1>4. a - b < Modulus \div 2 /\ b - a < Modulus \div 2
  BY <1>1, <1>2, <1>3
<1>5. TimeLess((n + a) % Modulus, (n + b) % Modulus) <=> a < b
  BY <1>4, TimeLessFacts
<1>6. a \in -(Modulus \div 2) .. (Modulus \div 2) /\ a > -v
  BY <1>1, <1>2, <1>3
<1> QED
  BY <1>5, <1>6 DEF v

\* A timeout is linked behind those that are not later and before the first
\* that is.
LEMMA PlaceFacts ==
  ASSUME NEW l, Len(l) \in Nat, NEW time
  PROVE  /\ Place(l, time) \in 1 .. Len(l) + 1
         /\ \A i \in 1 .. Len(l) : i < Place(l, time) => ~TimeLess(time, l[i].time)
         /\ Place(l, time) <= Len(l) => TimeLess(time, l[Place(l, time)].time)
<1> DEFINE later == {i \in 1 .. Len(l) : TimeLess(time, l[i].time)}
<1>1. CASE later = {}
  <2>1. Place(l, time) = Len(l) + 1
    BY <1>1 DEF Place
  <2>2. \A i \in 1 .. Len(l) : ~TimeLess(time, l[i].time)
    BY <1>1
  <2> QED
    BY <2>1, <2>2
<1>2. CASE later # {}
  <2>1. Place(l, time) = CHOOSE i \in later : \A j \in later : i <= j
    BY <1>2 DEF Place
  <2>2. \E i \in later : \A j \in later : i <= j
    <3>1. later \subseteq Nat
      OBVIOUS
    <3> HIDE DEF later
    <3> QED
      BY <1>2, <3>1, Least
  <2>3. Place(l, time) \in later /\ \A j \in later : Place(l, time) <= j
    <3> HIDE DEF later
    <3> QED
      BY <2>1, <2>2
  <2>4. ASSUME NEW i \in 1 .. Len(l), i < Place(l, time)
        PROVE  ~TimeLess(time, l[i].time)
    BY <2>3, <2>4
  <2> QED
    BY <2>3, <2>4
<1> QED
  BY <1>1, <1>2

\* sys_timeout_abs of a handler that is not in the list, with an entry free.
LEMMA InsertGood ==
  ASSUME NEW n \in 0 .. Modulus - 1, NEW late \in 0 .. 2 * MaxLag,
         NEW l, Good(l, n, late), Len(l) < Pool,
         NEW h \in Timers, ~Holds(l, h),
         NEW left \in Int, left <= Interval[h], left > -(late * Step),
         NEW time, time = (n + left) % Modulus
  PROVE  /\ Good(TimeoutAbs(l, h, time, left), n, late)
         /\ Len(TimeoutAbs(l, h, time, left)) = Len(l) + 1
         /\ \A g : Holds(TimeoutAbs(l, h, time, left), g) <=> g = h \/ Holds(l, g)
<1> DEFINE p == Place(l, time)
           e == [h |-> h, time |-> time, left |-> left]
           m == InsertAt(l, p, e)
<1>1. /\ l \in Seq(Entry) /\ Len(l) \in Nat /\ DOMAIN l = 1 .. Len(l)
      /\ \A i \in 1 .. Len(l) : l[i] \in Entry
  BY DEF Good
<1>2. n \in Int /\ time \in 0 .. Modulus - 1 /\ e \in Entry
  BY ClockType DEF Entry
<1>3. /\ p \in 1 .. Len(l) + 1
      /\ \A i \in 1 .. Len(l) : i < p => ~TimeLess(time, l[i].time)
      /\ p <= Len(l) => TimeLess(time, l[p].time)
  BY <1>1, PlaceFacts
<1>4. TimeoutAbs(l, h, time, left) = m
  <2>1. Pool \in Nat
    BY PoolAssumption
  <2>2. ~(Len(l) >= Pool)
    BY <1>1, <2>1
  <2> QED
    BY <2>2 DEF TimeoutAbs
<1> HIDE DEF p
<1>5. /\ m \in Seq(Entry) /\ Len(m) = Len(l) + 1
      /\ \A i \in 1 .. Len(l) + 1 :
           m[i] = IF i < p THEN l[i] ELSE IF i = p THEN e ELSE l[i - 1]
  <2>1. e \in Entry /\ l \in Seq(Entry) /\ p \in 1 .. Len(l) + 1
    BY <1>1, <1>2, <1>3
  <2> HIDE DEF e
  <2> QED
    BY ONLY <2>1, InsertFacts
<1>6. DOMAIN m = 1 .. Len(l) + 1
  <2> HIDE DEF m
  <2> QED
    BY <1>5
<1>7. e.h = h /\ e.left = left /\ e.time = time
  OBVIOUS
<1> HIDE DEF e, m
\* the position in l of what is at position i of m
<1> DEFINE old(i) == IF i < p THEN i ELSE i - 1
<1>8. ASSUME NEW i \in 1 .. Len(l) + 1
      PROVE  \/ i = p /\ m[i] = e
             \/ i # p /\ old(i) \in 1 .. Len(l) /\ m[i] = l[old(i)]
  <2>1. CASE i = p
    BY <1>1, <1>3, <1>5, <2>1
  <2>2. CASE i < p
    BY <1>1, <1>3, <1>5, <2>2
  <2>3. CASE i > p
    BY <1>1, <1>3, <1>5, <2>3
  <2> QED
    BY <1>1, <1>3, <2>1, <2>2, <2>3
<1>9. ASSUME NEW i \in 1 .. Len(l)
      PROVE  /\ l[i].h \in Timers /\ l[i].left \in Int /\ OnClock(l[i], n, late)
             /\ l[i].h # h
             /\ TimeLess(time, l[i].time) <=> left < l[i].left
  <2>1. l[i].h \in Timers /\ l[i].left \in Int /\ OnClock(l[i], n, late) /\ l[i].h # h
    BY <1>1 DEF Good, Entry, Holds
  <2>2. /\ l[i].time = (n + l[i].left) % Modulus
        /\ l[i].left <= Interval[l[i].h] /\ l[i].left > -(late * Step)
    BY <2>1 DEF OnClock
  <2>3. TimeLess(time, l[i].time) <=> left < l[i].left
    BY <1>2, <2>1, <2>2, OnClockApart
  <2> QED
    BY <2>1, <2>3
<1>10. OnClock(e, n, late)
  BY <1>7 DEF OnClock
<1>11. \A i \in DOMAIN m : OnClock(m[i], n, late)
  BY <1>6, <1>8, <1>9, <1>10
<1>12. ASSUME NEW i \in DOMAIN m, NEW j \in DOMAIN m, m[i].h = m[j].h
       PROVE  i = j
  <2>1. i \in 1 .. Len(l) + 1 /\ j \in 1 .. Len(l) + 1
    BY <1>6
  <2>2. CASE i = p \/ j = p
    BY <1>7, <1>8, <1>9, <1>12, <2>1, <2>2
  <2>3. CASE i # p /\ j # p
    <3>1. old(i) = old(j)
      <4>1. /\ old(i) \in DOMAIN l /\ old(j) \in DOMAIN l
            /\ m[i] = l[old(i)] /\ m[j] = l[old(j)]
        BY <1>1, <1>8, <2>1, <2>3
      <4> HIDE DEF old
      <4> QED
        BY <1>12, <4>1 DEF Good
    <3> QED
      BY <1>1, <1>3, <2>1, <2>3, <3>1
  <2> QED
    BY <2>2, <2>3
<1>13. ASSUME NEW i \in DOMAIN m, NEW j \in DOMAIN m, i <= j
       PROVE  m[i].left <= m[j].left
  <2>1. i \in 1 .. Len(l) + 1 /\ j \in 1 .. Len(l) + 1
    BY <1>6
  <2>2. CASE i = p /\ j = p
    BY <1>7, <1>8, <2>1, <2>2
  <2>3. CASE i # p /\ j # p
    <3>1. old(i) \in 1 .. Len(l) /\ old(j) \in 1 .. Len(l) /\ old(i) <= old(j)
          /\ m[i] = l[old(i)] /\ m[j] = l[old(j)]
      BY <1>1, <1>3, <1>8, <1>13, <2>1, <2>3
    <3> HIDE DEF old
    <3> QED
      BY <1>1, <3>1 DEF Good, Ordered
  <2>4. CASE i # p /\ j = p
    <3>1. i \in 1 .. Len(l) /\ i < p /\ m[i] = l[i]
      BY <1>1, <1>3, <1>5, <1>13, <2>1, <2>4
    <3>2. ~(left < l[i].left)
      BY <1>3, <1>9, <3>1
    <3> QED
      BY <1>7, <1>8, <1>9, <2>1, <2>4, <3>1, <3>2
  <2>5. CASE i = p /\ j # p
    <3>1. /\ j - 1 \in 1 .. Len(l) /\ m[j] = l[j - 1] /\ p <= Len(l) /\ p <= j - 1
          /\ p \in 1 .. Len(l)
      BY <1>1, <1>3, <1>5, <1>13, <2>1, <2>5
    <3>2. left < l[p].left
      BY <1>3, <1>9, <3>1
    <3>3. l[p].left <= l[j - 1].left
      BY <1>1, <3>1 DEF Good, Ordered
    <3>4. l[p].left \in Int /\ l[j - 1].left \in Int
      BY <1>9, <3>1
    <3> QED
      <4>1. m[i].left = left /\ m[j].left = l[j - 1].left
        BY <1>7, <1>8, <2>1, <2>5, <3>1
      <4>2. left <= l[j - 1].left
        BY <3>2, <3>3, <3>4
      <4> QED
        BY <4>1, <4>2
  <2> QED
    BY <2>2, <2>3, <2>4, <2>5
<1>14. Good(m, n, late)
  BY <1>5, <1>11, <1>12, <1>13 DEF Good, Ordered
<1>15. ASSUME NEW g PROVE Holds(m, g) <=> g = h \/ Holds(l, g)
  <2>1. ASSUME Holds(m, g) PROVE g = h \/ Holds(l, g)
    <3>1. PICK i \in 1 .. Len(l) + 1 : m[i].h = g
      BY <1>6, <2>1 DEF Holds
    <3> QED
      BY <1>1, <1>7, <1>8, <3>1 DEF Holds
  <2>2. ASSUME g = h PROVE Holds(m, g)
    BY <1>3, <1>6, <1>7, <1>8, <2>2 DEF Holds
  <2>3. ASSUME Holds(l, g) PROVE Holds(m, g)
    <3>1. PICK k \in 1 .. Len(l) : l[k].h = g
      BY <1>1, <2>3 DEF Holds
    <3>2. CASE k < p
      <4>1. k \in 1 .. Len(l) + 1 /\ m[k] = l[k]
        BY <1>1, <1>5, <3>1, <3>2
      <4> QED
        BY <1>6, <3>1, <4>1 DEF Holds
    <3>3. CASE ~(k < p)
      <4>1. k + 1 \in 1 .. Len(l) + 1 /\ ~(k + 1 < p) /\ k + 1 # p /\ (k + 1) - 1 = k
        BY <1>1, <1>3, <3>3
      <4>2. m[k + 1] = l[k]
        BY <1>5, <4>1
      <4> QED
        BY <1>6, <3>1, <4>1, <4>2 DEF Holds
    <3> QED
      BY <3>2, <3>3
  <2> QED
    BY <2>1, <2>2, <2>3
<1> QED
  BY <1>4, <1>5, <1>14, <1>15

\* A list without one of its entries.
LEMMA WithoutGood ==
  ASSUME NEW n, NEW late, NEW l, Good(l, n, late), NEW p \in 1 .. Len(l),
         NEW m \in Seq(Entry), Len(m) = Len(l) - 1,
         \A i \in 1 .. Len(l) - 1 : m[i] = IF i < p THEN l[i] ELSE l[i + 1]
  PROVE  /\ Good(m, n, late)
         /\ \A g : Holds(m, g) <=> g # l[p].h /\ Holds(l, g)
<1> DEFINE old(i) == IF i < p THEN i ELSE i + 1
<1>1. Len(l) \in Nat /\ DOMAIN l = 1 .. Len(l) /\ DOMAIN m = 1 .. Len(l) - 1
  BY DEF Good
<1>2. ASSUME NEW i \in DOMAIN m
      PROVE  /\ i \in Int /\ old(i) \in 1 .. Len(l) /\ old(i) \in DOMAIN l
             /\ old(i) # p /\ m[i] = l[old(i)]
  BY <1>1
<1>3. \A i \in DOMAIN m : OnClock(m[i], n, late)
  BY <1>2 DEF Good
<1>4. ASSUME NEW i \in DOMAIN m, NEW j \in DOMAIN m, i <= j
      PROVE  m[i].left <= m[j].left
  <2>1. old(i) <= old(j)
    BY <1>1, <1>4
  <2>2. /\ old(i) \in DOMAIN l /\ old(j) \in DOMAIN l
        /\ m[i] = l[old(i)] /\ m[j] = l[old(j)]
    BY <1>2
  <2> HIDE DEF old
  <2> QED
    BY <2>1, <2>2 DEF Good, Ordered
<1>5. ASSUME NEW i \in DOMAIN m, NEW j \in DOMAIN m, m[i].h = m[j].h
      PROVE  i = j
  <2>1. old(i) = old(j)
    <3>1. /\ old(i) \in DOMAIN l /\ old(j) \in DOMAIN l
          /\ m[i] = l[old(i)] /\ m[j] = l[old(j)]
      BY <1>2
    <3> HIDE DEF old
    <3> QED
      BY <1>5, <3>1 DEF Good
  <2> QED
    BY <1>1, <2>1
<1>6. Good(m, n, late)
  BY <1>3, <1>4, <1>5 DEF Good, Ordered
<1>7. ASSUME NEW g PROVE Holds(m, g) <=> g # l[p].h /\ Holds(l, g)
  <2>1. ASSUME Holds(m, g) PROVE g # l[p].h /\ Holds(l, g)
    <3>1. PICK i \in DOMAIN m : m[i].h = g
      BY <2>1 DEF Holds
    <3>2. old(i) \in DOMAIN l /\ old(i) # p /\ l[old(i)].h = g
      BY <1>2, <3>1
    <3> HIDE DEF old
    <3> QED
      BY <1>1, <3>2 DEF Good, Holds
  <2>2. ASSUME g # l[p].h, Holds(l, g) PROVE Holds(m, g)
    <3>1. PICK k \in 1 .. Len(l) : l[k].h = g
      BY <1>1, <2>2 DEF Holds
    <3>2. k # p
      BY <2>2, <3>1
    <3>3. CASE k < p
      BY <1>1, <3>1, <3>3 DEF Holds
    <3>4. CASE k > p
      <4>1. k - 1 \in 1 .. Len(l) - 1 /\ ~(k - 1 < p) /\ (k - 1) + 1 = k
        BY <1>1, <3>4
      <4>2. m[k - 1] = l[k]
        BY <4>1
      <4> QED
        BY <1>1, <3>1, <4>1, <4>2 DEF Holds
    <3> QED
      BY <1>1, <3>2, <3>3, <3>4
  <2> QED
    BY <2>1, <2>2
<1> QED
  BY <1>6, <1>7

\* sys_untimeout.
LEMMA UntimeoutGood ==
  ASSUME NEW n, NEW late, NEW l, Good(l, n, late), NEW h
  PROVE  /\ Good(SysUntimeout(l, h), n, late)
         /\ Len(SysUntimeout(l, h)) <= Len(l) /\ Len(SysUntimeout(l, h)) \in Nat
         /\ \A g : Holds(SysUntimeout(l, h), g) <=> g # h /\ Holds(l, g)
<1> DEFINE at == {i \in 1 .. Len(l) : l[i].h = h}
<1>1. l \in Seq(Entry) /\ Len(l) \in Nat /\ DOMAIN l = 1 .. Len(l)
  BY DEF Good
<1>2. CASE at = {}
  <2>1. SysUntimeout(l, h) = l
    BY <1>2 DEF SysUntimeout
  <2>2. ~Holds(l, h)
    BY <1>1, <1>2 DEF Holds
  <2>3. \A g : Holds(l, g) <=> g # h /\ Holds(l, g)
    BY <2>2
  <2> QED
    BY <1>1, <2>1, <2>3
<1>3. CASE at # {}
  <2> DEFINE p == CHOOSE i \in at : \A j \in at : i <= j
  <2>1. SysUntimeout(l, h) = RemoveAt(l, p)
    BY <1>3 DEF SysUntimeout
  <2>2. p \in at
    <3>1. at \subseteq Nat
      BY <1>1
    <3> HIDE DEF at
    <3>2. \E i \in at : \A j \in at : i <= j
      BY <1>3, <3>1, Least
    <3> QED
      BY <3>2
  <2>3. p \in 1 .. Len(l) /\ l[p].h = h
    BY <2>2
  <2> HIDE DEF p
  <2>4. /\ RemoveAt(l, p) \in Seq(Entry) /\ Len(RemoveAt(l, p)) = Len(l) - 1
        /\ \A i \in 1 .. Len(l) - 1 :
             RemoveAt(l, p)[i] = IF i < p THEN l[i] ELSE l[i + 1]
    BY <1>1, <2>3, RemoveFacts
  <2>5. /\ Good(RemoveAt(l, p), n, late)
        /\ \A g : Holds(RemoveAt(l, p), g) <=> g # l[p].h /\ Holds(l, g)
    BY <2>3, <2>4, WithoutGood
  <2> QED
    BY <1>1, <2>1, <2>3, <2>4, <2>5
<1> QED
  BY <1>2, <1>3

\* sys_check_timeouts takes the head.
LEMMA TailGood ==
  ASSUME NEW n, NEW late, NEW l, Good(l, n, late), l # <<>>
  PROVE  /\ Good(Tail(l), n, late) /\ Len(Tail(l)) = Len(l) - 1 /\ Len(l) \in Nat
         /\ Head(l) \in Entry /\ OnClock(Head(l), n, late)
         /\ \A i \in DOMAIN l : Head(l).left <= l[i].left
         /\ Holds(l, Head(l).h)
         /\ \A g : Holds(Tail(l), g) <=> g # Head(l).h /\ Holds(l, g)
<1>1. l \in Seq(Entry) /\ Len(l) \in Nat /\ Len(l) >= 1 /\ DOMAIN l = 1 .. Len(l)
      /\ 1 \in DOMAIN l /\ Head(l) = l[1]
  BY DEF Good
<1>2. /\ Tail(l) \in Seq(Entry) /\ Len(Tail(l)) = Len(l) - 1
      /\ \A i \in 1 .. Len(l) - 1 : Tail(l)[i] = l[i + 1]
  BY <1>1, HeadTailProperties
<1>3. 1 \in 1 .. Len(l) /\ \A i \in 1 .. Len(l) - 1 :
        Tail(l)[i] = IF i < 1 THEN l[i] ELSE l[i + 1]
  BY <1>1, <1>2
<1>4. /\ Good(Tail(l), n, late)
      /\ \A g : Holds(Tail(l), g) <=> g # l[1].h /\ Holds(l, g)
  BY <1>2, <1>3, WithoutGood
<1>5. l[1] \in Entry /\ OnClock(l[1], n, late) /\ Holds(l, l[1].h)
  BY <1>1 DEF Good, Holds
<1>6. \A i \in DOMAIN l : l[1].left <= l[i].left
  BY <1>1 DEF Good, Ordered
<1> QED
  BY <1>1, <1>2, <1>4, <1>5, <1>6

\* When timeouts may be later.
LEMMA LaterGood ==
  ASSUME NEW n, NEW late \in Nat, NEW more \in Nat, late <= more,
         NEW l, Good(l, n, late)
  PROVE  Good(l, n, more)
<1>1. late * Step <= more * Step /\ late * Step \in Nat /\ more * Step \in Nat
  BY StepFacts
<1>2. ASSUME NEW i \in DOMAIN l PROVE OnClock(l[i], n, more)
  <2>1. l[i] \in Entry /\ OnClock(l[i], n, late)
    BY DEF Good
  <2>2. l[i].left \in Int
    BY <2>1 DEF Entry
  <2> QED
    BY <1>1, <2>1, <2>2 DEF OnClock
<1> QED
  BY <1>2 DEF Good

\* The same of one timeout.
LEMMA LaterOnClock ==
  ASSUME NEW n, NEW late \in Nat, NEW more \in Nat, late <= more,
         NEW t, t.left \in Int, OnClock(t, n, late)
  PROVE  OnClock(t, n, more)
<1>1. late * Step <= more * Step /\ late * Step \in Nat /\ more * Step \in Nat
  BY StepFacts
<1> QED
  BY <1>1 DEF OnClock

\* A tick moves the clock and shortens what is left.
LEMMA TickOnClock ==
  ASSUME NEW n \in Int, NEW late \in Nat, NEW t \in Entry, OnClock(t, n, late)
  PROVE  /\ [t EXCEPT !.left = @ - Step] \in Entry
         /\ [t EXCEPT !.left = @ - Step].h = t.h
         /\ [t EXCEPT !.left = @ - Step].left = t.left - Step
         /\ OnClock([t EXCEPT !.left = @ - Step], (n + Step) % Modulus, late + 1)
<1> DEFINE u == [t EXCEPT !.left = @ - Step]
<1>1. Step \in Nat /\ t.left \in Int /\ t.h \in Timers /\ Interval[t.h] \in Nat
  BY ClockFacts DEF Entry
<1>2. u \in Entry /\ u.h = t.h /\ u.left = t.left - Step /\ u.time = t.time
  BY <1>1 DEF Entry
<1>3. (((n + Step) % Modulus) + (t.left - Step)) % Modulus = (n + t.left) % Modulus
  <2> DEFINE x == t.left
  <2>1. x \in Int /\ Step \in Int
    BY <1>1
  <2> HIDE DEF x
  <2>2. (((n + Step) % Modulus) + (x - Step)) % Modulus = (n + x) % Modulus
    BY <2>1, ClockMoves
  <2> QED
    BY <2>2 DEF x
<1>4. late * Step \in Nat /\ (late + 1) * Step = late * Step + Step
  BY StepFacts
<1> HIDE DEF u
<1>5. u.left > -((late + 1) * Step) /\ u.left <= Interval[u.h]
  BY <1>1, <1>2, <1>4 DEF OnClock
<1>6. OnClock(u, (n + Step) % Modulus, late + 1)
  BY <1>2, <1>3, <1>5 DEF OnClock
<1> QED
  BY <1>2, <1>6 DEF u

\* The same of the list.
LEMMA TickGood ==
  ASSUME NEW n \in Int, NEW late \in Nat, NEW l, Good(l, n, late),
         NEW m, m = [i \in DOMAIN l |-> [l[i] EXCEPT !.left = @ - Step]]
  PROVE  /\ Good(m, (n + Step) % Modulus, late + 1) /\ Len(m) = Len(l)
         /\ \A g : Holds(m, g) <=> Holds(l, g)
<1>1. l \in Seq(Entry) /\ Len(l) \in Nat /\ DOMAIN l = 1 .. Len(l)
  BY DEF Good
<1>2. ASSUME NEW i \in DOMAIN l
      PROVE  /\ l[i] \in Entry /\ l[i].left \in Int
             /\ m[i] \in Entry /\ m[i].h = l[i].h /\ m[i].left = l[i].left - Step
             /\ OnClock(m[i], (n + Step) % Modulus, late + 1)
  <2>1. l[i] \in Entry /\ OnClock(l[i], n, late)
    BY <1>1 DEF Good
  <2>2. m[i] = [l[i] EXCEPT !.left = @ - Step]
    OBVIOUS
  <2> QED
    BY <2>1, <2>2, TickOnClock DEF Entry
<1>3. DOMAIN m = DOMAIN l
  OBVIOUS
<1>4. m \in Seq(Entry) /\ Len(m) = Len(l)
  <2>1. m = [i \in 1 .. Len(l) |-> m[i]]
    BY <1>1
  <2>2. m \in [1 .. Len(l) -> Entry]
    BY <1>1, <1>2, <2>1
  <2>3. m \in Seq(Entry)
    BY <1>1, <2>2, SeqDef
  <2> QED
    BY <1>1, <1>3, <2>3, LenProperties
<1>5. ASSUME NEW i \in DOMAIN m, NEW j \in DOMAIN m, i <= j
      PROVE  m[i].left <= m[j].left
  <2>1. l[i].left <= l[j].left
    BY <1>3, <1>5 DEF Good, Ordered
  <2> QED
    BY <1>2, <1>3, <2>1, ClockFacts
<1>6. \A i, j \in DOMAIN m : m[i].h = m[j].h => i = j
  <2> SUFFICES ASSUME NEW i \in DOMAIN m, NEW j \in DOMAIN m, m[i].h = m[j].h
               PROVE  i = j
    OBVIOUS
  <2>1. i \in DOMAIN l /\ j \in DOMAIN l
    BY <1>3
  <2>2. m[i].h = l[i].h /\ m[j].h = l[j].h
    BY <1>2, <2>1
  <2>3. l[i].h = l[j].h
    BY <2>2
  <2>4. \A x, y \in DOMAIN l : l[x].h = l[y].h => x = y
    BY DEF Good
  <2> QED
    BY <2>1, <2>3, <2>4
<1>7. \A g : Holds(m, g) <=> Holds(l, g)
  BY <1>2, <1>3 DEF Holds
<1> QED
  BY <1>2, <1>3, <1>4, <1>5, <1>6, <1>7 DEF Good, Ordered

-----------------------------------------------------------------------------
(* The invariant of the list, in these terms.                              *)

\* Which timers are started, with r the handler that runs.
Net(l, r, active, pcb, ses) ==
  /\ active \in BOOLEAN /\ pcb \in BOOLEAN
  /\ ses \in {"closed", "connecting", "open"}
  /\ ~Holds(l, r)
  /\ \A h \in Cyclic : r = h \/ Holds(l, h)
  /\ (r = "tcp" \/ Holds(l, "tcp")) <=> active
  /\ (ses # "closed" => pcb) /\ (pcb => active)
  /\ r = "mqtt" \/ Holds(l, "mqtt") => ses = "open"

ListInv ==
  /\ now \in 0 .. Modulus - 1 /\ checkNow \in 0 .. Modulus - 1
  /\ Good(list, now, Late) /\ Len(list) <= Pool
  /\ Net(list, running.h, tcpActive, pcbs, session)
  /\ running \in Entry \cup {None}
  /\ running # None => OnClock(running, now, Late) /\ running.left <= 0
  /\ running # None <=> pc = "handler"
  /\ pc = "handler" => Len(list) < Pool
  /\ pc \in {"expire", "handler"} => checkNow = (now - lag * Step) % Modulus

\* How late a timeout may be at most.
LEMMA LateType == LoopTypeOK => Late \in 0 .. 2 * MaxLag
  BY ClockFacts DEF LoopTypeOK, Late

\* No timer's handler is the one of None.
LEMMA NoneFacts == None.h = "none" /\ "none" \notin Timers /\ None \notin Entry
<1>1. "none" \notin Timers
  BY PoolAssumption DEF Timers
<1> QED
  BY <1>1 DEF None, Entry

\* A list on the clock is one of TypeOK.
LEMMA GoodType ==
  ASSUME NEW n, NEW late \in 0 .. 2 * MaxLag, NEW l, Good(l, n, late)
  PROVE  /\ l \in Seq(Timeout)
         /\ \A i \in DOMAIN l : l[i].left > -((2 * MaxLag) * Step)
<1>1. l \in Seq(Entry) /\ Len(l) \in Nat /\ DOMAIN l = 1 .. Len(l)
  BY DEF Good
<1>2. ASSUME NEW i \in DOMAIN l
      PROVE  l[i] \in Timeout /\ l[i].left > -((2 * MaxLag) * Step)
  <2>1. l[i] \in Entry /\ OnClock(l[i], n, late)
    BY <1>1 DEF Good
  <2>2. /\ l[i].h \in Timers /\ l[i].left \in Int /\ l[i].left <= Interval[l[i].h]
        /\ l[i].left > -(late * Step)
    BY <2>1 DEF Entry, OnClock
  <2> DEFINE a == l[i].left
             g == l[i].h
  <2>3. a \in -(Modulus \div 2) .. (Modulus \div 2) /\ a > -((2 * MaxLag) * Step)
    <3>1. g \in Timers /\ a \in Int /\ a <= Interval[g] /\ a > -(late * Step) /\ 0 \in Int
      BY <2>2
    <3> HIDE DEF a, g
    <3> QED
      BY <3>1, OnClockApart
  <2> QED
    BY <2>1, <2>3 DEF Entry, Timeout
<1>3. l = [i \in 1 .. Len(l) |-> l[i]]
  BY <1>1
<1>4. l \in [1 .. Len(l) -> Timeout]
  BY <1>1, <1>2, <1>3
<1>5. l \in Seq(Timeout)
  BY <1>1, <1>4, SeqDef
<1> QED
  BY <1>2, <1>5

\* The invariant follows from its parts.
LEMMA PartsInv == LoopTypeOK /\ PollInv /\ ListInv => IInv
<1> SUFFICES ASSUME LoopTypeOK, PollInv, ListInv PROVE IInv
  OBVIOUS
<1>1. Late \in 0 .. 2 * MaxLag
  BY LateType
<1>2. Good(list, now, Late) /\ Net(list, running.h, tcpActive, pcbs, session)
  BY DEF ListInv
<1>3. list \in Seq(Timeout)
  BY <1>1, <1>2, GoodType
<1>4. running \in Timeout \cup {None}
  <2>1. CASE running = None
    BY <2>1
  <2>2. CASE running # None
    <3> DEFINE a == running.left
               g == running.h
    <3>1. running \in Entry /\ OnClock(running, now, Late)
      BY <2>2 DEF ListInv
    <3>2. g \in Timers /\ a \in Int /\ a <= Interval[g] /\ a > -(Late * Step) /\ now \in Int
      BY <3>1 DEF Entry, OnClock, ListInv
    <3>3. a \in -(Modulus \div 2) .. (Modulus \div 2)
      <4> HIDE DEF a, g
      <4> QED
        BY <1>1, <3>2, OnClockApart
    <3> QED
      BY <3>1, <3>3 DEF Entry, Timeout
  <2> QED
    BY <2>1, <2>2
<1>5. TypeOK
  BY <1>2, <1>3, <1>4 DEF TypeOK, LoopTypeOK, ListInv, Net
<1>6. StartedInv
  BY <1>2 DEF StartedInv, Started, ListInv, Net, Good, Holds
<1>7. ClockInv
  BY <1>2 DEF ClockInv, ListInv, Good
<1> QED
  BY <1>5, <1>6, <1>7 DEF IInv

\* ... and the parts from it.
LEMMA InvParts == IInv => LoopTypeOK /\ PollInv /\ ListInv
<1> SUFFICES ASSUME IInv PROVE LoopTypeOK /\ PollInv /\ ListInv
  OBVIOUS
<1>1. LoopTypeOK /\ PollInv
  BY DEF IInv, TypeOK, LoopTypeOK
<1>2. Timeout \subseteq Entry
  BY ClockFacts DEF Timeout, Entry
<1>3. list \in Seq(Entry)
  BY <1>2, SeqMonotonic DEF IInv, TypeOK
<1>4. Good(list, now, Late)
  BY <1>3 DEF IInv, StartedInv, ClockInv, Good
<1>5. Net(list, running.h, tcpActive, pcbs, session)
  BY DEF IInv, TypeOK, StartedInv, Started, Holds, Net
<1>6. ListInv
  BY <1>2, <1>4, <1>5 DEF IInv, TypeOK, StartedInv, ClockInv, ListInv
<1> QED
  BY <1>1, <1>6

\* sys_timeout of a timer that is not started.
LEMMA SysTimeoutGood ==
  ASSUME now \in 0 .. Modulus - 1, LoopTypeOK, NEW l, Good(l, now, Late),
         NEW h \in Timers, ~Holds(l, h)
  PROVE  /\ Good(SysTimeout(l, h), now, Late)
         /\ Len(l) < Pool =>
              /\ Len(SysTimeout(l, h)) = Len(l) + 1
              /\ \A g : Holds(SysTimeout(l, h), g) <=> g = h \/ Holds(l, g)
         /\ ~(Len(l) < Pool) => SysTimeout(l, h) = l
<1>1. Late \in 0 .. 2 * MaxLag /\ Late * Step \in Nat
  BY LateType, LateFacts
<1>2. Interval[h] \in Int /\ Interval[h] <= Interval[h] /\ Interval[h] > -(Late * Step)
  <2> DEFINE u == Late * Step
  <2>1. u \in Nat /\ Interval[h] \in Nat /\ Interval[h] >= 1
    BY <1>1, ClockFacts
  <2> HIDE DEF u
  <2>2. Interval[h] \in Int /\ Interval[h] <= Interval[h] /\ Interval[h] > -u
    BY <2>1
  <2> QED
    BY <2>2 DEF u
<1>3. CASE Len(l) < Pool
  BY <1>1, <1>2, <1>3, InsertGood DEF SysTimeout
<1>4. CASE ~(Len(l) < Pool)
  <2>1. Len(l) \in Nat /\ Pool \in Nat
    BY PoolAssumption DEF Good
  <2> QED
    BY <1>4, <2>1 DEF SysTimeout, TimeoutAbs
<1> QED
  BY <1>3, <1>4

\* The head is due when the real time it has left is not after the moment at
\* which sys_check_timeouts read the clock.
LEMMA HeadDue ==
  ASSUME LoopTypeOK, ListInv, pc = "expire", list # <<>>
  PROVE  /\ TimeLess(checkNow, Head(list).time) <=> -(lag * Step) < Head(list).left
         /\ Head(list).left \in Int
<1> DEFINE b == Head(list).left
           g == Head(list).h
           u == lag * Step
           v == MaxLag * Step
           w == (2 * MaxLag) * Step
<1>1. lag \in Nat /\ MaxLag \in Nat /\ lag <= MaxLag
  BY ClockFacts DEF LoopTypeOK
<1>2. u \in Nat /\ v \in Nat /\ u <= v /\ w = v + v /\ (MaxLag + lag) * Step = v + u
  <2>1. u \in Nat /\ v \in Nat /\ u <= v
    BY <1>1, StepFacts
  <2>2. Step \in Nat
    BY ClockFacts
  <2> QED
    BY <1>1, <2>1, <2>2
<1>3. Head(list) \in Entry /\ OnClock(Head(list), now, Late) /\ Late = MaxLag + lag
  BY TailGood DEF ListInv, Late
<1>4. /\ b \in Int /\ g \in Timers /\ b <= Interval[g] /\ b > -(v + u)
      /\ Head(list).time = (now + b) % Modulus
  BY <1>2, <1>3 DEF Entry, OnClock
<1>5. Interval[g] \in Nat /\ Interval[g] + w < Modulus \div 2 /\ Modulus \div 2 \in Nat
  BY <1>4, ClockFacts
<1>6. now \in Int /\ checkNow = (now - u) % Modulus
  BY DEF ListInv
<1> HIDE DEF b, g, u, v, w
<1>7. now - u = now + (-u) /\ -u \in Int
  BY <1>2, <1>6
<1>8. (-u) - b < Modulus \div 2 /\ b - (-u) < Modulus \div 2
  BY <1>2, <1>4, <1>5
<1>9. TimeLess((now + (-u)) % Modulus, (now + b) % Modulus) <=> -u < b
  BY <1>4, <1>6, <1>7, <1>8, TimeLessFacts
<1> QED
  BY <1>4, <1>6, <1>7, <1>9 DEF b, u

-----------------------------------------------------------------------------
(* The steps.                                                              *)

\* The interrupt moves the clock and every timeout.
LEMMA TickList ==
  ASSUME LoopTypeOK, ListInv, Tick
  PROVE  ListInv'
<1>1. /\ lag' = lag + 1 /\ now' = (now + Step) % Modulus
      /\ list' = [i \in DOMAIN list |-> [list[i] EXCEPT !.left = @ - Step]]
      /\ running' = IF running = None THEN None ELSE [running EXCEPT !.left = @ - Step]
      /\ UNCHANGED <<tcpActive, pcbs, session, pc, checkNow>>
  BY DEF Tick, tcpVars
<1>2. /\ lag \in Nat /\ MaxLag \in Nat /\ now \in Int /\ Step \in Nat /\ Step >= 1
      /\ Late \in Nat /\ Late' = Late + 1
  <2>1. lag \in Nat /\ MaxLag \in Nat /\ now \in Int /\ Step \in Nat /\ Step >= 1
    BY ClockFacts DEF LoopTypeOK, ListInv
  <2>2. Late \in Nat /\ Late' = Late + 1
    BY <1>1, <2>1 DEF Late
  <2> QED
    BY <2>1, <2>2
<1>3. Good(list, now, Late)
  BY DEF ListInv
<1>4. /\ Good(list', now', Late') /\ Len(list') = Len(list)
      /\ \A g : Holds(list', g) <=> Holds(list, g)
  BY <1>1, <1>2, <1>3, TickGood
<1>5. now' \in 0 .. Modulus - 1
  BY <1>1, <1>2, ClockType
<1>6. /\ running' \in Entry \cup {None} /\ running'.h = running.h
      /\ running' # None <=> running # None
      /\ running' # None => OnClock(running', now', Late') /\ running'.left <= 0
  <2>1. CASE running = None
    BY <1>1, <2>1
  <2>2. CASE running # None
    <3>1. running \in Entry /\ OnClock(running, now, Late) /\ running.left <= 0
          /\ running.left \in Int
      BY <2>2 DEF ListInv, Entry
    <3>2. /\ running' \in Entry /\ running'.h = running.h
          /\ running'.left = running.left - Step
          /\ OnClock(running', now', Late')
      BY <1>1, <1>2, <2>2, <3>1, TickOnClock
    <3> QED
      BY <1>2, <2>2, <3>1, <3>2, NoneFacts
  <2> QED
    BY <2>1, <2>2
<1>7. ASSUME pc \in {"expire", "handler"}
      PROVE  checkNow' = (now' - lag' * Step) % Modulus
  <2> DEFINE u == lag * Step
  <2>1. u \in Nat /\ (lag + 1) * Step = u + Step
    BY <1>2, StepFacts
  <2>2. checkNow = (now - u) % Modulus
    BY <1>7 DEF ListInv
  <2> HIDE DEF u
  <2>3. -u \in Int /\ now + (-u) = now - u
    BY <1>2, <2>1
  <2>4. (((now + Step) % Modulus) + ((-u) - Step)) % Modulus = (now + (-u)) % Modulus
    <3> DEFINE x == -u
    <3>1. x \in Int /\ Step \in Int
      BY <1>2, <2>3
    <3> HIDE DEF x
    <3>2. (((now + Step) % Modulus) + (x - Step)) % Modulus = (now + x) % Modulus
      BY <1>2, <3>1, ClockMoves
    <3> QED
      BY <3>2 DEF x
  <2>5. now' - lag' * Step = now' + ((-u) - Step)
    <3>1. now' \in Int /\ lag' * Step = u + Step
      BY <1>1, <1>5, <2>1
    <3> QED
      BY <1>2, <2>1, <3>1
  <2> QED
    BY <1>1, <2>2, <2>3, <2>4, <2>5
<1>8. Net(list', running'.h, tcpActive', pcbs', session')
  BY <1>1, <1>4, <1>6 DEF ListInv, Net
<1>9. Len(list') <= Pool /\ (pc' = "handler" => Len(list') < Pool) /\ checkNow' \in 0 .. Modulus - 1
  BY <1>1, <1>4 DEF ListInv
<1> QED
  BY <1>1, <1>4, <1>5, <1>6, <1>7, <1>8, <1>9 DEF ListInv

\* The main loop outside sys_check_timeouts leaves the list alone.
LEMMA KeptList ==
  ASSUME ListInv, UNCHANGED <<now, lag, list, tcpActive, pcbs, session, checkNow, running>>,
         \/ pc \in {"test", "reset", "rest"} /\ pc' \in {"test", "reset", "rest"}
         \/ pc' = pc
  PROVE  ListInv'
<1>1. Late' = Late
  BY DEF Late
<1> QED
  BY <1>1 DEF ListInv

\* sys_check_timeouts begins: timeouts may be late by the pass before.
LEMMA CheckStartList ==
  ASSUME LoopTypeOK, ListInv, CheckStart
  PROVE  ListInv'
<1>1. /\ pc = "test" /\ pc' = "expire" /\ checkNow' = now /\ lag' = 0
      /\ UNCHANGED <<now, list, tcpActive, pcbs, session, running>>
  BY DEF CheckStart, tcpVars
<1>2. Late \in Nat /\ Late' = MaxLag /\ Late <= MaxLag /\ MaxLag \in Nat
  BY <1>1, ClockFacts DEF LoopTypeOK, Late
<1>3. Good(list', now', Late')
  BY <1>1, <1>2, LaterGood DEF ListInv
<1>4. now \in 0 .. Modulus - 1 /\ now - 0 * Step = now /\ now % Modulus = now
  BY ClockFacts DEF ListInv
<1>5. running = None
  BY <1>1 DEF ListInv
<1> QED
  BY <1>1, <1>3, <1>4, <1>5 DEF ListInv

\* It ends with nothing late but by the ticks since it read the clock.
LEMMA CheckEndList ==
  ASSUME LoopTypeOK, ListInv, CheckEnd
  PROVE  ListInv'
<1>1. /\ pc = "expire" /\ pc' = "rest"
      /\ list # <<>> => TimeLess(checkNow, Head(list).time)
      /\ UNCHANGED <<now, lag, list, tcpActive, pcbs, session, running, checkNow>>
  BY DEF CheckEnd, tcpVars
<1>2. Late' = lag
  BY <1>1 DEF Late
<1>3. Good(list, now, Late)
  BY DEF ListInv
<1>4. ASSUME NEW i \in DOMAIN list PROVE OnClock(list[i], now, lag)
  <2>1. list[i] \in Entry /\ OnClock(list[i], now, Late) /\ list # <<>>
    BY <1>3, <1>4 DEF Good
  <2>2. -(lag * Step) < Head(list).left /\ Head(list).left \in Int
    BY <1>1, <2>1, HeadDue
  <2>3. Head(list).left <= list[i].left
    BY <1>3, <2>1, TailGood
  <2>4. list[i].left > -(lag * Step)
    <3> DEFINE u == lag * Step
    <3>1. lag \in Nat
      BY DEF LoopTypeOK
    <3>2. u \in Nat
      BY <3>1, StepFacts
    <3> HIDE DEF u
    <3>3. list[i].left \in Int
      BY <2>1 DEF Entry
    <3>4. -u < Head(list).left
      BY <2>2 DEF u
    <3>5. list[i].left > -u
      BY <2>2, <2>3, <3>2, <3>3, <3>4
    <3> QED
      BY <3>5 DEF u
  <2> QED
    BY <2>1, <2>4 DEF OnClock
<1>5. Good(list, now, lag)
  BY <1>3, <1>4 DEF Good
<1> QED
  BY <1>1, <1>2, <1>5 DEF ListInv

\* What it takes from the list is due, and leaves an entry free.
LEMMA ExpireList ==
  ASSUME LoopTypeOK, ListInv, Expire
  PROVE  ListInv'
<1>1. /\ pc = "expire" /\ pc' = "handler" /\ list # <<>>
      /\ ~TimeLess(checkNow, Head(list).time)
      /\ running' = Head(list) /\ list' = Tail(list)
      /\ UNCHANGED <<now, lag, tcpActive, pcbs, session, checkNow>>
  BY DEF Expire, tcpVars
<1>2. Late' = Late
  BY <1>1 DEF Late
<1>3. /\ Good(list', now, Late) /\ Len(list') = Len(list) - 1 /\ Len(list) \in Nat
      /\ running' \in Entry /\ OnClock(running', now, Late)
      /\ Holds(list, running'.h)
      /\ \A g : Holds(list', g) <=> g # running'.h /\ Holds(list, g)
  BY <1>1, TailGood DEF ListInv
<1>4. running'.left <= 0
  <2> DEFINE u == lag * Step
             b == Head(list).left
  <2>1. lag \in Nat
    BY DEF LoopTypeOK
  <2>2. u \in Nat /\ ~(-u < b) /\ b \in Int
    BY <1>1, <2>1, StepFacts, HeadDue
  <2> HIDE DEF u, b
  <2>3. b <= 0
    BY <2>2
  <2> QED
    BY <1>1, <2>3 DEF b
<1>5. running' # None
  BY <1>3, NoneFacts
<1>6. Len(list') < Pool
  BY <1>3, PoolAssumption DEF ListInv
<1>7. running = None /\ running.h = "none"
  BY <1>1, NoneFacts DEF ListInv
<1>8. Net(list', running'.h, tcpActive', pcbs', session')
  <2>1. running'.h \in Timers
    BY <1>3 DEF Entry
  <2>2. Net(list, "none", tcpActive, pcbs, session)
    BY <1>7 DEF ListInv
  <2>3. "none" \notin Cyclic
    BY PoolAssumption
  <2> QED
    BY <1>1, <1>3, <2>2, <2>3 DEF Net
<1> QED
  BY <1>1, <1>2, <1>3, <1>4, <1>5, <1>6, <1>8, PoolAssumption DEF ListInv

\* Only timers are in the list.
LEMMA HoldsTimers ==
  ASSUME NEW l, NEW n, NEW late, Good(l, n, late), NEW g, Holds(l, g)
  PROVE  g \in Timers /\ g # "none"
<1>1. PICK i \in DOMAIN l : l[i].h = g
  BY DEF Holds
<1>2. l[i] \in Entry
  BY DEF Good
<1>3. g \in Timers
  BY <1>1, <1>2 DEF Entry
<1> QED
  BY <1>3, NoneFacts

\* A handler returns to sys_check_timeouts.
LEMMA HandlerDone ==
  ASSUME ListInv, pc = "handler", Done, UNCHANGED <<now, lag, checkNow>>,
         Good(list', now, Late), Len(list') <= Pool,
         Net(list', "none", tcpActive', pcbs', session')
  PROVE  ListInv'
<1>1. running' = None /\ pc' = "expire" /\ running'.h = "none"
  BY NoneFacts DEF Done
<1>2. Late' = Late
  BY <1>1 DEF Late
<1> QED
  BY <1>1, <1>2 DEF ListInv

\* lwip_cyclic_timer restarts the timer it ran for.
LEMMA CyclicTimerList ==
  ASSUME LoopTypeOK, ListInv, CyclicTimer
  PROVE  ListInv'
<1> DEFINE h == running.h
           i == Interval[running.h]
           r == running.left
           next == CyclicNext(i)
<1>1. /\ pc = "handler" /\ h \in Cyclic /\ Done
      /\ list' = TimeoutAbs(list, h, next.time, next.left)
      /\ UNCHANGED <<now, lag, checkNow, tcpActive, pcbs, session>>
  BY DEF CyclicTimer, tcpVars
<1>2. /\ running \in Entry /\ OnClock(running, now, Late) /\ Len(list) < Pool
      /\ Good(list, now, Late) /\ ~Holds(list, h)
      /\ Net(list, h, tcpActive, pcbs, session)
  BY <1>1 DEF ListInv, Net
<1>3. /\ h \in Timers /\ i \in Nat /\ i >= 1 /\ r \in Int /\ r <= 0
      /\ running.time = (now + r) % Modulus /\ r > -(Late * Step)
      /\ now \in 0 .. Modulus - 1 /\ Late \in 0 .. 2 * MaxLag
  BY <1>1, <1>2, ClockFacts, LateType DEF Entry, OnClock, ListInv, Timers
<1>4. /\ next.left \in Int /\ next.left <= i /\ next.left > -(Late * Step)
      /\ next.time = (now + next.left) % Modulus
  <2> DEFINE u == Late * Step
             regular == (running.time + i) % Modulus
  <2>1. u \in Nat /\ r > -u
    BY <1>3, LateFacts
  <2>2. regular = (now + (r + i)) % Modulus
    <3> HIDE DEF r, i
    <3>1. now \in Int /\ r + i \in Int /\ (r + i) - r = i
      BY <1>3
    <3>2. (((now + r) % Modulus) + ((r + i) - r)) % Modulus = (now + (r + i)) % Modulus
      <4> DEFINE x == r + i
      <4>1. x \in Int
        BY <3>1
      <4> HIDE DEF x
      <4>2. (((now + r) % Modulus) + (x - r)) % Modulus = (now + x) % Modulus
        BY <1>3, <3>1, <4>1, ClockMoves
      <4> QED
        BY <4>2 DEF x
    <3> QED
      BY <1>3, <3>1, <3>2
  <2>3. next = IF TimeLess(regular, now)
               THEN [time |-> (now + i) % Modulus, left |-> i]
               ELSE [time |-> regular, left |-> r + i]
    BY DEF CyclicNext
  <2> HIDE DEF u, r, i, h, next, regular
  <2>4. i > -u /\ r + i > -u /\ r + i <= i /\ r + i \in Int /\ i \in Int
    BY <1>3, <2>1
  <2>5. next.left \in Int /\ next.left <= i /\ next.left > -u
        /\ next.time = (now + next.left) % Modulus
    <3>1. CASE TimeLess(regular, now)
      BY <2>3, <2>4, <3>1
    <3>2. CASE ~TimeLess(regular, now)
      BY <2>2, <2>3, <2>4, <3>2
    <3> QED
      BY <3>1, <3>2
  <2> QED
    BY <2>5 DEF u
<1>5. i = Interval[h]
  OBVIOUS
<1> HIDE DEF h, i, r, next
<1>6. /\ Good(list', now, Late) /\ Len(list') = Len(list) + 1
      /\ \A g : Holds(list', g) <=> g = h \/ Holds(list, g)
  <2> DEFINE left == next.left
             time == next.time
  <2>1. /\ left \in Int /\ left <= Interval[h] /\ left > -(Late * Step)
        /\ time = (now + left) % Modulus /\ list' = TimeoutAbs(list, h, time, left)
    BY <1>1, <1>4, <1>5
  <2> HIDE DEF left, time
  <2> QED
    BY <1>2, <1>3, <2>1, InsertGood
<1>7. Len(list') <= Pool
  BY <1>2, <1>6, PoolAssumption DEF Good
<1>8. Net(list', "none", tcpActive', pcbs', session')
  <2>1. h # "tcp" /\ h # "mqtt" /\ "none" \notin Cyclic
    BY <1>1, PoolAssumption
  <2>2. ~Holds(list', "none")
    BY <1>6, HoldsTimers
  <2> QED
    BY <1>1, <1>2, <1>6, <2>1, <2>2 DEF Net
<1> QED
  BY <1>1, <1>6, <1>7, <1>8, HandlerDone

\* tcpip_tcp_timer goes on exactly while there are connections.
LEMMA TcpRestarted ==
  ASSUME LoopTypeOK, ListInv, pc = "handler", running.h = "tcp",
         NEW l, Good(l, now, Late), Len(l) <= Len(list), TcpRestart(l),
         \A g : Holds(l, g) => Holds(list, g),
         \A g \in Cyclic : Holds(list, g) => Holds(l, g),
         pcbs' \in BOOLEAN, session' \in {"closed", "connecting", "open"},
         session' # "closed" => pcbs', Holds(l, "mqtt") => session' = "open"
  PROVE  /\ Good(list', now, Late) /\ Len(list') <= Pool
         /\ Net(list', "none", tcpActive', pcbs', session')
<1>1. /\ now \in 0 .. Modulus - 1 /\ Len(list) < Pool /\ Len(list) \in Nat /\ Len(l) \in Nat
      /\ Net(list, "tcp", tcpActive, pcbs, session) /\ Pool \in Nat
  BY PoolAssumption DEF ListInv, Good
<1>2. "tcp" \in Timers /\ ~Holds(l, "tcp") /\ tcpActive = TRUE
  BY <1>1 DEF Timers, Net
<1>3. "tcp" \notin Cyclic /\ "none" \notin Cyclic
  BY PoolAssumption
<1>4. CASE pcbs'
  <2>1. list' = SysTimeout(l, "tcp") /\ tcpActive' = tcpActive
    BY <1>4 DEF TcpRestart
  <2>2. /\ Good(list', now, Late) /\ Len(list') = Len(l) + 1
        /\ \A g : Holds(list', g) <=> g = "tcp" \/ Holds(l, g)
    BY <1>1, <1>2, <2>1, SysTimeoutGood
  <2>3. ~Holds(list', "none")
    BY <2>2, HoldsTimers
  <2>4. Net(list', "none", tcpActive', pcbs', session')
    BY <1>1, <1>2, <1>3, <2>1, <2>2, <2>3, <1>4 DEF Net
  <2> QED
    BY <1>1, <2>2, <2>4
<1>5. CASE ~pcbs'
  <2>1. list' = l /\ tcpActive' = FALSE
    BY <1>5 DEF TcpRestart
  <2>2. ~Holds(l, "none")
    BY HoldsTimers
  <2>3. Net(list', "none", tcpActive', pcbs', session')
    BY <1>1, <1>2, <1>3, <2>1, <2>2, <1>5 DEF Net
  <2> QED
    BY <1>1, <2>1, <2>3
<1> QED
  BY <1>4, <1>5

\* tcpip_tcp_timer.
LEMMA TcpTimerList ==
  ASSUME LoopTypeOK, ListInv, TcpTimer
  PROVE  ListInv'
<1>1. pc = "handler" /\ running.h = "tcp" /\ Done /\ UNCHANGED <<now, lag, checkNow>>
  BY DEF TcpTimer
<1>2. Good(list, now, Late) /\ Net(list, "tcp", tcpActive, pcbs, session) /\ Len(list) \in Nat
  BY <1>1 DEF ListInv, Good
<1>3. CASE UNCHANGED session /\ pcbs' \in {pcbs, session # "closed"} /\ TcpRestart(list)
  <2>1. /\ pcbs' \in BOOLEAN /\ session' \in {"closed", "connecting", "open"}
        /\ (session' # "closed" => pcbs') /\ (Holds(list, "mqtt") => session' = "open")
    BY <1>2, <1>3 DEF Net
  <2>2. /\ Good(list', now, Late) /\ Len(list') <= Pool
        /\ Net(list', "none", tcpActive', pcbs', session')
    BY <1>1, <1>2, <1>3, <2>1, TcpRestarted
  <2> QED
    BY <1>1, <2>2, HandlerDone
<1>4. CASE session # "closed" /\ session' = "closed" /\ pcbs' \in BOOLEAN
           /\ TcpRestart(SysUntimeout(list, "mqtt"))
  <2> DEFINE l == SysUntimeout(list, "mqtt")
  <2>1. /\ Good(l, now, Late) /\ Len(l) <= Len(list)
        /\ \A g : Holds(l, g) <=> g # "mqtt" /\ Holds(list, g)
    BY <1>2, UntimeoutGood
  <2>2. "mqtt" \notin Cyclic
    BY PoolAssumption
  <2> HIDE DEF l
  <2>3. /\ Good(list', now, Late) /\ Len(list') <= Pool
        /\ Net(list', "none", tcpActive', pcbs', session')
    BY <1>1, <1>4, <2>1, <2>2, TcpRestarted DEF l
  <2> QED
    BY <1>1, <2>3, HandlerDone
<1> QED
  BY <1>3, <1>4 DEF TcpTimer

\* mqtt_cyclic_timer.
LEMMA MqttTimerList ==
  ASSUME LoopTypeOK, ListInv, MqttTimer
  PROVE  ListInv'
<1>1. /\ pc = "handler" /\ running.h = "mqtt" /\ Done
      /\ UNCHANGED <<now, lag, checkNow, tcpActive>>
  BY DEF MqttTimer
<1>2. /\ Good(list, now, Late) /\ Net(list, "mqtt", tcpActive, pcbs, session)
      /\ Len(list) \in Nat /\ Len(list) < Pool /\ now \in 0 .. Modulus - 1 /\ Pool \in Nat
  BY <1>1, PoolAssumption DEF ListInv, Good
<1>3. "mqtt" \in Timers /\ "mqtt" \notin Cyclic /\ "none" \notin Cyclic
  BY PoolAssumption DEF Timers
<1>4. CASE session = "open" /\ list' = SysTimeout(list, "mqtt") /\ UNCHANGED <<session, pcbs>>
  <2>1. ~Holds(list, "mqtt")
    BY <1>2 DEF Net
  <2>2. /\ Good(list', now, Late) /\ Len(list') = Len(list) + 1
        /\ \A g : Holds(list', g) <=> g = "mqtt" \/ Holds(list, g)
    BY <1>2, <1>3, <1>4, <2>1, SysTimeoutGood
  <2>3. ~Holds(list', "none")
    BY <2>2, HoldsTimers
  <2>4. Net(list', "none", tcpActive', pcbs', session')
    BY <1>1, <1>2, <1>3, <1>4, <2>2, <2>3 DEF Net
  <2>5. Len(list') <= Pool
    BY <1>2, <2>2
  <2> QED
    BY <1>1, <2>2, <2>4, <2>5, HandlerDone
<1>5. CASE session' = "closed" /\ pcbs' \in {pcbs, FALSE}
           /\ list' = SysUntimeout(list, "mqtt")
  <2>1. /\ Good(list', now, Late) /\ Len(list') <= Len(list) /\ Len(list') \in Nat
        /\ \A g : Holds(list', g) <=> g # "mqtt" /\ Holds(list, g)
    BY <1>2, <1>5, UntimeoutGood
  <2>2. ~Holds(list', "none")
    BY <2>1, HoldsTimers
  <2>3. Net(list', "none", tcpActive', pcbs', session')
    BY <1>1, <1>2, <1>3, <1>5, <2>1, <2>2 DEF Net
  <2>4. Len(list') <= Pool
    BY <1>2, <2>1
  <2> QED
    BY <1>1, <2>1, <2>3, <2>4, HandlerDone
<1> QED
  BY <1>4, <1>5 DEF MqttTimer

-----------------------------------------------------------------------------
(* Connecting and closing.                                                 *)

\* Without the TCP timer and the client's there is an entry free.
LEMMA EntryFree ==
  ASSUME NEW l, NEW n, NEW late, Good(l, n, late), ~Holds(l, "tcp"), ~Holds(l, "mqtt")
  PROVE  Len(l) < Pool
<1>1. l \in Seq(Entry) /\ Len(l) \in Nat /\ DOMAIN l = 1 .. Len(l)
  BY DEF Good
<1> DEFINE f == [i \in 1 .. Len(l) |-> l[i].h]
<1>2. \A i \in 1 .. Len(l) : l[i].h \in Cyclic
  <2> SUFFICES ASSUME NEW i \in 1 .. Len(l) PROVE l[i].h \in Cyclic
    OBVIOUS
  <2>0. l[i] \in Entry
    BY <1>1, ElementOfSeq
  <2>1. l[i].h \in Timers
    BY <2>0 DEF Entry
  <2>2. l[i].h # "tcp" /\ l[i].h # "mqtt"
    BY <1>1 DEF Holds
  <2> QED
    BY <2>1, <2>2 DEF Timers
<1>3. f \in Injection(1 .. Len(l), Cyclic)
  BY <1>1, <1>2 DEF Injection, IsInjective, Good
<1>4. Cardinality(1 .. Len(l)) = Len(l)
  BY <1>1, FS_Interval
<1> HIDE DEF f
<1>5. Cardinality(1 .. Len(l)) <= Cardinality(Cyclic)
  BY <1>3, PoolAssumption, FS_Injection
<1>6. Cardinality(Cyclic) \in Nat
  BY PoolAssumption, FS_CardinalityType
<1> QED
  BY <1>1, <1>4, <1>5, <1>6, PoolAssumption

\* The rest of the loop changes the list and the session only.
LEMMA EventDone ==
  ASSUME ListInv, pc = "rest", UNCHANGED <<now, lag, pc, checkNow, running>>,
         Good(list', now, Late), Len(list') <= Pool,
         Net(list', "none", tcpActive', pcbs', session')
  PROVE  ListInv'
<1>1. running' = None /\ running'.h = "none"
  BY NoneFacts DEF ListInv
<1>2. Late' = Late
  BY DEF Late
<1> QED
  BY <1>1, <1>2 DEF ListInv

\* Connecting, closing and the rest.
LEMMA EventsList ==
  ASSUME LoopTypeOK, ListInv, Events
  PROVE  ListInv'
<1>1. pc = "rest" /\ UNCHANGED <<now, lag, pc, checkNow, running>>
  BY DEF Events, MqttConnect, MqttConnected, MqttClose, PcbFreed, EnableDns,
     Resting, RestUnchanged, mainVars
<1>2. /\ Good(list, now, Late) /\ Len(list) <= Pool /\ Len(list) \in Nat
      /\ Net(list, "none", tcpActive, pcbs, session)
      /\ now \in 0 .. Modulus - 1 /\ Pool \in Nat
  BY <1>1, NoneFacts, PoolAssumption DEF ListInv, Good
<1>3. /\ "mqtt" \in Timers /\ "mqtt" \notin Cyclic /\ "none" \notin Cyclic
      /\ "tcp" \in Timers /\ "tcp" \notin Cyclic
  BY PoolAssumption DEF Timers
<1>4. CASE MqttConnect
  <2>1. /\ session = "closed" /\ session' = "connecting" /\ pcbs' = TRUE /\ tcpActive' = TRUE
        /\ list' = IF tcpActive THEN list ELSE SysTimeout(list, "tcp")
    BY <1>4 DEF MqttConnect, NeededList
  <2>2. CASE tcpActive
    BY <1>1, <1>2, <1>3, <2>1, <2>2, EventDone DEF Net
  <2>3. CASE ~tcpActive
    <3>1. ~Holds(list, "tcp") /\ ~Holds(list, "mqtt")
      BY <1>2, <2>1, <2>3 DEF Net
    <3>2. Len(list) < Pool
      BY <1>2, <3>1, EntryFree
    <3>3. /\ Good(list', now, Late) /\ Len(list') = Len(list) + 1
          /\ \A g : Holds(list', g) <=> g = "tcp" \/ Holds(list, g)
      BY <1>2, <1>3, <2>1, <2>3, <3>1, <3>2, SysTimeoutGood
    <3>4. ~Holds(list', "none")
      BY <3>3, HoldsTimers
    <3>5. Net(list', "none", tcpActive', pcbs', session')
      BY <1>2, <1>3, <2>1, <3>1, <3>3, <3>4 DEF Net
    <3>6. Len(list') <= Pool
      BY <1>2, <3>2, <3>3
    <3> QED
      BY <1>1, <3>3, <3>5, <3>6, EventDone
  <2> QED
    BY <2>2, <2>3
<1>5. CASE MqttConnected
  <2>1. /\ session = "connecting" /\ session' = "open" /\ UNCHANGED <<tcpActive, pcbs>>
        /\ list' = SysTimeout(list, "mqtt")
    BY <1>5 DEF MqttConnected
  <2>2. ~Holds(list, "mqtt")
    BY <1>2, <2>1 DEF Net
  <2>3. /\ Good(list', now, Late) /\ Len(list') <= Pool
        /\ \A g : Holds(list', g) => g = "mqtt" \/ Holds(list, g)
        /\ \A g : Holds(list, g) => Holds(list', g)
    BY <1>2, <1>3, <2>1, <2>2, SysTimeoutGood
  <2>4. ~Holds(list', "none")
    BY <2>3, HoldsTimers
  <2>5. Net(list', "none", tcpActive', pcbs', session')
    BY <1>2, <1>3, <2>1, <2>3, <2>4 DEF Net
  <2> QED
    BY <1>1, <2>3, <2>5, EventDone
<1>6. CASE MqttClose
  <2>1. /\ session # "closed" /\ session' = "closed" /\ pcbs' \in BOOLEAN
        /\ list' = SysUntimeout(list, "mqtt") /\ UNCHANGED tcpActive
    BY <1>6 DEF MqttClose, CloseList
  <2>2. /\ Good(list', now, Late) /\ Len(list') <= Len(list) /\ Len(list') \in Nat
        /\ \A g : Holds(list', g) <=> g # "mqtt" /\ Holds(list, g)
    BY <1>2, <2>1, UntimeoutGood
  <2>3. Net(list', "none", tcpActive', pcbs', session')
    BY <1>2, <1>3, <2>1, <2>2 DEF Net
  <2>4. Len(list') <= Pool
    BY <1>2, <2>2
  <2> QED
    BY <1>1, <2>2, <2>3, <2>4, EventDone
<1>7. CASE PcbFreed
  <2>1. pcbs' = FALSE /\ UNCHANGED <<list, tcpActive, session>> /\ session = "closed"
    BY <1>7 DEF PcbFreed
  <2>2. Net(list', "none", tcpActive', pcbs', session')
    BY <1>2, <2>1 DEF Net
  <2> QED
    BY <1>1, <1>2, <2>1, <2>2, EventDone
<1>8. CASE EnableDns
  <2>1. UNCHANGED <<list, tcpActive, pcbs, session>>
    BY <1>8 DEF EnableDns, tcpVars
  <2> QED
    BY <1>1, <1>2, <2>1, EventDone
<1> QED
  BY <1>4, <1>5, <1>6, <1>7, <1>8 DEF Events

-----------------------------------------------------------------------------
(* The theorems.                                                           *)

\* sys_timeouts_init: every cyclic timer is in the list once.
LEMMA InitList1 ==
  ASSUME Init
  PROVE  /\ Good(list, now, 0) /\ Len(list) <= Pool
         /\ \A g : Holds(list, g) <=> g \in Cyclic
<1> DEFINE S == {InitList(h, now) : h \in Cyclic}
           k == Cardinality(S)
<1>1. /\ now \in 0 .. Modulus - 1 /\ now \in Int
      /\ list \in [1 .. k -> S] /\ Ordered(list)
      /\ \A i, j \in 1 .. k : i # j => list[i] # list[j]
  BY DEF Init, SetToSeqs
<1>2. ASSUME NEW h \in Cyclic
      PROVE  /\ InitList(h, now) \in Entry /\ InitList(h, now).h = h
             /\ OnClock(InitList(h, now), now, 0)
  <2> DEFINE t == InitList(h, now)
  <2>1. h \in Timers /\ Interval[h] \in Nat /\ Interval[h] >= 1
    BY ClockFacts DEF Timers
  <2>2. now + Interval[h] \in Int
    BY <1>1, <2>1
  <2>3. (now + Interval[h]) % Modulus \in 0 .. Modulus - 1
    BY <2>2, ClockType
  <2>4. /\ t \in Entry /\ t.h = h /\ t.left = Interval[h]
        /\ t.time = (now + Interval[h]) % Modulus
    BY <2>1, <2>3 DEF InitList, Entry
  <2>5. -(0 * Step) = 0
    BY ClockFacts
  <2> HIDE DEF t
  <2>6. OnClock(t, now, 0)
    BY <2>1, <2>4, <2>5 DEF OnClock
  <2> QED
    BY <2>4, <2>6 DEF t
<1>3. IsFiniteSet(S) /\ k \in Nat /\ k = Cardinality(Cyclic)
  <2> DEFINE f == [h \in Cyclic |-> InitList(h, now)]
  <2>1. f \in Bijection(Cyclic, S)
    BY <1>2 DEF Bijection, Injection, Surjection, IsInjective
  <2>2. ExistsBijection(Cyclic, S)
    BY <2>1 DEF ExistsBijection
  <2> HIDE DEF S
  <2>3. IsFiniteSet(S) /\ Cardinality(S) = Cardinality(Cyclic)
    BY <2>2, PoolAssumption, FS_Bijection
  <2> QED
    BY <2>3, FS_CardinalityType
<1>4. list \in Surjection(1 .. k, S)
  <2>1. list \in Injection(1 .. k, S)
    BY <1>1 DEF Injection, IsInjective
  <2>2. Cardinality(1 .. k) = k
    BY <1>3, FS_Interval
  <2> HIDE DEF S
  <2> QED
    BY <1>3, <2>1, <2>2, FS_Injection
<1>5. \A t \in S : \E i \in 1 .. k : list[i] = t
  BY <1>4 DEF Surjection
<1>6. ASSUME NEW i \in 1 .. k
      PROVE  \E h \in Cyclic : list[i] = InitList(h, now)
  BY <1>1
<1>7. ASSUME NEW i \in 1 .. k
      PROVE  /\ list[i] \in Entry /\ OnClock(list[i], now, 0)
             /\ list[i].h \in Cyclic /\ list[i] = InitList(list[i].h, now)
  <2>1. PICK h \in Cyclic : list[i] = InitList(h, now)
    BY <1>6
  <2> QED
    BY <1>2, <2>1
<1> HIDE DEF S, k
<1>8. list \in Seq(Entry) /\ Len(list) = k /\ DOMAIN list = 1 .. k
  <2>1. DOMAIN list = 1 .. k /\ list = [i \in 1 .. k |-> list[i]]
    BY <1>1
  <2>2. list \in [1 .. k -> Entry]
    BY <1>7, <2>1
  <2>3. list \in Seq(Entry)
    BY <1>3, <2>2, SeqDef
  <2> QED
    BY <1>3, <2>1, <2>3, LenProperties
<1>9. ASSUME NEW i \in 1 .. k, NEW j \in 1 .. k, list[i].h = list[j].h
      PROVE  i = j
  <2>1. list[i] = list[j]
    BY <1>7, <1>9
  <2> QED
    BY <1>1, <2>1
<1>10. Good(list, now, 0)
  BY <1>1, <1>7, <1>8, <1>9 DEF Good
<1>11. ASSUME NEW g PROVE Holds(list, g) <=> g \in Cyclic
  <2>1. ASSUME g \in Cyclic PROVE Holds(list, g)
    <3>1. PICK i \in 1 .. k : list[i] = InitList(g, now)
      BY <1>5, <2>1 DEF S
    <3> QED
      BY <1>2, <1>8, <2>1, <3>1 DEF Holds
  <2> QED
    BY <1>7, <1>8, <2>1 DEF Holds
<1>12. Len(list) <= Pool
  BY <1>3, <1>8, PoolAssumption
<1> QED
  BY <1>10, <1>11, <1>12

\* The firmware starts in the invariant.
LEMMA InitInv == Init => LoopTypeOK /\ PollInv /\ ListInv
<1> SUFFICES ASSUME Init PROVE LoopTypeOK /\ PollInv /\ ListInv
  OBVIOUS
<1>1. LoopTypeOK
  <2>1. \A c \in Counters : cnt[c] = 0 /\ 0 < Width[c]
    BY ClockFacts, CounterFacts DEF Init
  <2>2. cnt \in [Counters -> Nat] /\ since \in [Counters -> Nat]
    BY DEF Init
  <2>3. lag \in 0 .. MaxLag /\ idx \in 1 .. Len(Polled) + 1
    BY ClockFacts, CounterFacts DEF Init
  <2> QED
    BY <2>1, <2>2, <2>3 DEF Init, LoopTypeOK
<1>2. PollInv
  <2>1. \A c : ~Tested(c)
    BY DEF Init, Tested
  <2>2. ASSUME NEW c \in Counters
        PROVE  since[c] = 0 /\ cnt[c] = 0 /\ Threshold[c] \in Nat /\ Threshold[c] >= 1
    BY CounterFacts DEF Init
  <2> QED
    BY <2>1, <2>2, ClockFacts DEF Init, PollInv
<1>3. ListInv
  <2>1. /\ Good(list, now, 0) /\ Len(list) <= Pool
        /\ \A g : Holds(list, g) <=> g \in Cyclic
    BY InitList1
  <2>2. Late = 0 /\ running = None /\ pc = "test" /\ running.h = "none"
    BY NoneFacts DEF Init, Late
  <2>3. "tcp" \notin Cyclic /\ "mqtt" \notin Cyclic /\ "none" \notin Cyclic
    BY PoolAssumption
  <2>4. Net(list, running.h, tcpActive, pcbs, session)
    BY <2>1, <2>2, <2>3 DEF Init, Net
  <2>5. now \in 0 .. Modulus - 1 /\ checkNow \in 0 .. Modulus - 1
    BY ClockFacts DEF Init
  <2> QED
    BY <2>1, <2>2, <2>4, <2>5 DEF ListInv
<1> QED
  BY <1>1, <1>2, <1>3

\* Every step preserves it.
LEMMA StepInv ==
  ASSUME LoopTypeOK, PollInv, ListInv, [Next]_vars
  PROVE  LoopTypeOK' /\ PollInv' /\ ListInv'
<1>1. LoopTypeOK' /\ PollInv'
  BY PollStep
<1>2. ListInv'
  <2>1. CASE Tick
    BY <2>1, TickList
  <2>2. CASE Test \/ Reset \/ Again
    <3>1. /\ UNCHANGED <<now, lag, list, tcpActive, pcbs, session, checkNow, running>>
          /\ pc \in {"test", "reset", "rest"} /\ pc' \in {"test", "reset", "rest"}
      BY <2>2 DEF Test, Reset, Again, Resting, tcpVars
    <3> QED
      BY <3>1, KeptList
  <2>3. CASE UNCHANGED vars
    <3>1. /\ UNCHANGED <<now, lag, list, tcpActive, pcbs, session, checkNow, running>>
          /\ pc' = pc
      BY <2>3 DEF vars, tcpVars, mainVars
    <3> QED
      BY <3>1, KeptList
  <2> QED
    BY <2>1, <2>2, <2>3, CheckStartList, CheckEndList, ExpireList, CyclicTimerList,
       TcpTimerList, MqttTimerList, EventsList DEF Next, Loop
<1> QED
  BY <1>1, <1>2

\* The invariant holds for every set of timers, every width of the clock and
\* every order of ticks, expiries, connecting and closing.
THEOREM Invariance == Spec => []IInv
<1> DEFINE Parts == LoopTypeOK /\ PollInv /\ ListInv
<1>1. Init => Parts
  BY InitInv
<1>2. Parts /\ [Next]_vars => Parts'
  BY StepInv
<1>3. Parts => IInv
  BY PartsInv
<1> HIDE DEF Parts
<1> QED
  BY <1>1, <1>2, <1>3, PTL DEF Spec

\* Every variable stays in its range and the pool is never exceeded.
THEOREM TypeCorrect == Spec => []TypeOK
<1>1. IInv => TypeOK
  BY DEF IInv
<1> QED
  BY <1>1, Invariance, PTL

\* No timer is lost and none is started twice; the MQTT client's timer never
\* takes the entry that a timer of the stack returns.
THEOREM NoTimerLost == Spec => []TimersKept
<1>1. IInv => TimersKept
  <2> SUFFICES ASSUME IInv PROVE TimersKept
    OBVIOUS
  <2> DEFINE runs(h) == IF running.h = h THEN 1 ELSE 0
             times(h) == Cardinality(InList(h)) + runs(h)
  <2>1. /\ \A i, j \in DOMAIN list : list[i].h = list[j].h => i = j
        /\ \A i \in DOMAIN list : list[i].h # running.h
    BY DEF IInv, StartedInv
  <2>2. ASSUME NEW h PROVE times(h) = IF Started(h) THEN 1 ELSE 0
    <3>1. CASE \E i \in DOMAIN list : list[i].h = h
      <4>1. PICK i \in DOMAIN list : list[i].h = h
        BY <3>1
      <4>2. InList(h) = {i} /\ running.h # h
        BY <2>1, <4>1 DEF InList
      <4>3. Cardinality(InList(h)) = 1
        BY <4>2, FS_Singleton
      <4> QED
        BY <4>1, <4>2, <4>3 DEF Started
    <3>2. CASE ~\E i \in DOMAIN list : list[i].h = h
      <4>1. InList(h) = {}
        BY <3>2 DEF InList
      <4>2. Cardinality(InList(h)) = 0
        BY <4>1, FS_EmptySet
      <4> QED
        BY <3>2, <4>2 DEF Started
    <3> QED
      BY <3>1, <3>2
  <2>3. \A h \in Cyclic : times(h) = 1
    BY <2>2 DEF IInv, StartedInv
  <2>4. times("tcp") = IF tcpActive THEN 1 ELSE 0
    BY <2>2 DEF IInv, StartedInv
  <2>5. times("mqtt") <= IF session = "open" THEN 1 ELSE 0
    BY <2>2 DEF IInv, StartedInv
  <2>6. pcbs => tcpActive
    BY DEF IInv, StartedInv
  <2> QED
    BY <2>3, <2>4, <2>5, <2>6 DEF TimersKept
<1> QED
  BY <1>1, Invariance, PTL

\* No timeout expires before its time and none is more than two passes of the
\* main loop late, wherever the clock wraps.
THEOREM TimersOnTime == Spec => []ExpiresOnTime
<1>1. IInv => ExpiresOnTime
  <2> SUFFICES ASSUME IInv PROVE ExpiresOnTime
    OBVIOUS
  <2>1. LoopTypeOK /\ ListInv
    BY InvParts
  <2>2. pc = "handler" => running.left <= 0
    BY <2>1 DEF ListInv
  <2>3. \A i \in DOMAIN list : list[i].left > -((2 * MaxLag) * Step)
    BY <2>1, LateType, GoodType DEF ListInv
  <2> QED
    BY <2>2, <2>3 DEF ExpiresOnTime
<1> QED
  BY <1>1, Invariance, PTL

\* main runs the handler of every counter less than three passes of its loop
\* late, although ticks are lost and a counter not polled yet wraps.
THEOREM CountersOnTime == Spec => []PolledOnTime
<1>1. IInv => PolledOnTime
  <2> SUFFICES ASSUME IInv, NEW c \in Counters
               PROVE  since[c] < Threshold[c] + 3 * MaxLag
    BY DEF PolledOnTime
  <2>1. LoopTypeOK /\ PollInv
    BY InvParts
  <2>2. /\ cnt[c] \in Nat /\ since[c] \in Nat /\ Threshold[c] \in Nat /\ Threshold[c] >= 1
        /\ lag \in Nat /\ lag <= MaxLag /\ MaxLag \in Nat
    BY <2>1, CounterFacts, ClockFacts DEF LoopTypeOK
  <2>3. CASE c = "dns" /\ ~enableDns
    BY <2>1, <2>2, <2>3 DEF PollInv
  <2>4. CASE c = "dns" => enableDns
    <3>1. \/ since[c] <= lag
          \/ since[c] <= cnt[c] + MaxLag /\ cnt[c] < Threshold[c] + lag + MaxLag
      BY <2>1, <2>2, <2>4 DEF PollInv
    <3> QED
      BY <2>2, <3>1
  <2> QED
    BY <2>3, <2>4
<1> QED
  BY <1>1, Invariance, PTL
=============================================================================
