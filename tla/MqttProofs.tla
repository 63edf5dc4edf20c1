----------------------------- MODULE MqttProofs -----------------------------
(***************************************************************************)
(* Proofs about MqttClient, for every size of the ring and of the messages *)
(* and every number and timeout of requests.  What the client thinks is in *)
(* its output ring is wrong only after the ring was filled to the last     *)
(* byte: an exactly full ring has put = get, as an empty one has.  Nothing *)
(* else can do it: not the wrap of either position, not a partial write,   *)
(* not a connection that is given up.  A request's time is a sum over the  *)
(* queue; the invariant states it between neighbours, and a statement      *)
(* about all places of the queue follows from its least counterexample.    *)
(***************************************************************************)
EXTENDS MqttClient, Integers, SequenceTheorems, WellFoundedInduction, TLAPS

\* The lengths of messages.
LEMMA Lengths ==
  /\ RingSize \in Nat /\ RingSize > 0
  /\ ConnectLen \in 1 .. RingSize - 1 /\ PublishLen \in 1 .. RingSize
  /\ SubscribeLen \in 1 .. RingSize /\ PingLen \in 1 .. RingSize
  BY RingAssumption

\* Advancing keeps a position in the ring.
LEMMA AdvanceType ==
  ASSUME NEW i \in 0 .. RingSize - 1, NEW len \in 0 .. RingSize
  PROVE  Advance(i, len) \in 0 .. RingSize - 1
  BY Lengths DEF Advance

\* Bytes appended to the ring are counted, unless they fill it.
LEMMA RingPut ==
  ASSUME RingInv, NEW len \in 0 .. RingSize, held + len < RingSize
  PROVE  RingLen(Advance(put, len), get) = held + len
  BY Lengths DEF RingInv, RingLenCorrect, RingLen, Advance

\* Bytes taken out of it are, whether or not the position wraps.
LEMMA RingGet ==
  ASSUME NEW p \in 0 .. RingSize - 1, NEW g \in 0 .. RingSize - 1,
         NEW n \in 0 .. RingLen(p, g)
  PROVE  /\ Advance(g, n) \in 0 .. RingSize - 1
         /\ RingLen(p, Advance(g, n)) = RingLen(p, g) - n
  BY Lengths DEF RingLen, Advance

\* What mqtt_output_send can get rid of is in the ring.
LEMMA SendableType ==
  ASSUME NEW p \in 0 .. RingSize - 1, NEW g \in 0 .. RingSize - 1, NEW pcb,
         NEW n \in Sendable(p, g, pcb)
  PROVE  n \in 0 .. RingLen(p, g)
<1>1. RingLen(p, g) \in Nat
  BY Lengths DEF RingLen
<1> QED
  BY <1>1 DEF Sendable

\* Appending a message for which there is room and sending what TCP takes.
LEMMA PutAndSendRing ==
  ASSUME RingInv, NEW len \in 0 .. RingSize, NEW pcb, held + len <= RingSize,
         PutAndSend(len, pcb), held' # RingSize
  PROVE  RingInv'
<1> DEFINE p == Advance(put, len)
<1>0. put \in 0 .. RingSize - 1 /\ get \in 0 .. RingSize - 1
      /\ held \in 0 .. RingSize - 1 /\ RingLen(put, get) = held
  BY DEF RingInv, RingLenCorrect
<1>1. p \in 0 .. RingSize - 1
  BY <1>0, AdvanceType
<1>2. PICK n \in Sendable(p, get, pcb) :
        put' = p /\ get' = Advance(get, n) /\ held' = held + len - n
  BY DEF PutAndSend
<1>3. n \in 0 .. RingLen(p, get)
  BY <1>0, <1>1, SendableType
<1>4. held + len < RingSize
  <2> SUFFICES ASSUME held + len = RingSize PROVE FALSE
    BY <1>0, Lengths
  <2>1. p = get
    BY <1>0, Lengths DEF RingLen, Advance
  <2>2. n = 0
    BY <1>3, <2>1, <1>0 DEF RingLen
  <2> QED
    BY <1>0, <1>2, <2>2, Lengths
<1>5. RingLen(p, get) = held + len
  BY <1>4, RingPut
<1>6. get' \in 0 .. RingSize - 1 /\ RingLen(p, get') = held + len - n
  BY <1>0, <1>1, <1>2, <1>3, <1>5, RingGet
<1>7. held' \in 0 .. RingSize - 1
  BY <1>0, <1>2, <1>3, <1>4, <1>5, Lengths
<1> HIDE DEF p
<1> QED
  BY <1>1, <1>2, <1>6, <1>7 DEF RingInv, RingLenCorrect

\* mqtt_output_check_space finds room where there is some.
LEMMA SpaceChecked ==
  ASSUME RingInv, NEW len \in 0 .. RingSize, CheckSpace(len)
  PROVE  held + len <= RingSize
  BY Lengths DEF RingInv, RingLenCorrect, CheckSpace, RingFree

\* Every step keeps the length right, unless it fills the ring.
LEMMA StepRing == RingInv /\ [Next]_vars /\ held' # RingSize => RingInv'
<1> SUFFICES ASSUME RingInv, [Next]_vars, held' # RingSize PROVE RingInv'
  OBVIOUS
<1>0. held \in 0 .. RingSize - 1 /\ 0 \in 0 .. RingSize /\ held + 0 <= RingSize
  BY Lengths DEF RingInv
<1>1. CASE UNCHANGED ring
  BY <1>1 DEF ring, RingInv, RingLenCorrect
<1>2. CASE Connect
  BY <1>2, Lengths DEF Connect, RingInv, RingLenCorrect, RingLen
<1>3. ASSUME NEW pcb, PutAndSend(0, pcb) PROVE RingInv'
  BY <1>0, <1>3, PutAndSendRing
<1>4. ASSUME NEW id, NEW len \in 0 .. RingSize, Request(id, len) PROVE RingInv'
  <2>1. CASE Len(queue) < MaxRequests /\ CheckSpace(len)
    <3>1. PutAndSend(len, "own")
      BY <1>4, <2>1 DEF Request
    <3> QED
      BY <2>1, <3>1, SpaceChecked, PutAndSendRing
  <2>2. CASE ~(Len(queue) < MaxRequests /\ CheckSpace(len))
    BY <1>1, <1>4, <2>2 DEF Request
  <2> QED
    BY <2>1, <2>2
<1>5. CASE Publish \/ Subscribe
  <2>1. PublishLen \in 0 .. RingSize /\ SubscribeLen \in 0 .. RingSize
    BY Lengths
  <2> QED
    BY <1>4, <1>5, <2>1 DEF Publish, Subscribe
<1>6. CASE TimerConnected
  <2>1. CASE tick + 1 >= KeepAlive /\ CheckSpace(PingLen)
    <3>1. put' = Advance(put, PingLen) /\ held' = held + PingLen /\ get' = get
      BY <1>6, <2>1 DEF TimerConnected
    <3>2. PingLen \in 0 .. RingSize
      BY Lengths
    <3>3. held + PingLen <= RingSize
      BY <2>1, <3>2, SpaceChecked
    <3>4. held + PingLen < RingSize /\ held' \in 0 .. RingSize - 1
      BY <1>0, <3>1, <3>2, <3>3, Lengths
    <3>5. RingLen(put', get') = held'
      BY <3>1, <3>2, <3>4, RingPut
    <3>6. put' \in 0 .. RingSize - 1 /\ get' \in 0 .. RingSize - 1
      BY <3>1, <3>2, AdvanceType DEF RingInv
    <3> QED
      BY <3>4, <3>5, <3>6 DEF RingInv, RingLenCorrect
  <2>2. CASE ~(tick + 1 >= KeepAlive /\ CheckSpace(PingLen))
    BY <1>1, <1>6, <2>2 DEF TimerConnected, ring
  <2> QED
    BY <2>1, <2>2
<1> QED
  BY <1>1, <1>2, <1>3, <1>5, <1>6 DEF Next, vars, TcpConnected, Connack, Lost,
     Suback, Received, Sent, Poll, OldMovesOn, TimerConnecting

-----------------------------------------------------------------------------
(* Requests.                                                               *)

\* A set of positions has a first one.
LEMMA Least ==
  ASSUME NEW T, T \subseteq Nat, T # {}
  PROVE  \E x \in T : \A y \in T : x <= y
<1> DEFINE R == {ss \in Nat \X Nat : ss[1] < ss[2]}
<1>1. IsWellFoundedOn(R, Nat)
  BY NatLessThanWellFounded, Zenon DEF OpToRel
<1>2. PICK x \in T : \A y \in T : ~(<<y, x>> \in R)
  <2> HIDE DEF R
  <2> QED
    BY <1>1, WFMin
<1>3. ASSUME NEW y \in T PROVE x <= y
  <2>1. ~(y < x)
    BY <1>2
  <2> QED
    BY <2>1
<1> QED
  BY <1>3

\* What a request holds.
LEMMA RequestFields ==
  ASSUME NEW q \in Seq(RequestType), NEW i \in 1 .. Len(q)
  PROVE  /\ q[i] \in RequestType
         /\ q[i].id \in {PublishId, SubscribeId}
         /\ q[i].diff \in 0 .. ReqTimeout /\ q[i].age \in 0 .. ReqTimeout
<1>1. q[i] \in RequestType
  BY ElementOfSeq
<1> QED
  BY <1>1 DEF RequestType

\* No request is older than one before it.
LEMMA AgesFall ==
  ASSUME NEW q \in Seq(RequestType), Ages(q), NEW i \in 1 .. Len(q),
         NEW j \in i .. Len(q)
  PROVE  q[j].age <= q[i].age
<1> DEFINE T == {k \in i .. Len(q) : ~(q[k].age <= q[i].age)}
<1>0. Len(q) \in Nat /\ ReqTimeout \in Nat
  BY LenProperties, TimerAssumption
<1>1. CASE T = {}
  BY <1>1
<1>2. CASE T # {}
  <2>1. T \subseteq Nat
    BY <1>0
  <2>2. PICK k \in T : \A y \in T : k <= y
    <3> HIDE DEF T
    <3> QED
      BY <1>2, <2>1, Least
  <2>3. k \in i .. Len(q) /\ ~(q[k].age <= q[i].age)
    BY <2>2
  <2>4. q[i].age \in Nat
    BY <1>0, RequestFields
  <2>5. k # i
    BY <2>3, <2>4
  <2>6. k - 1 \in i .. Len(q) /\ k \in 1 .. Len(q) /\ k # 1 /\ k - 1 \in 1 .. Len(q)
    BY <1>0, <2>3, <2>5
  <2>7. k - 1 \notin T
    BY <2>2, <2>6
  <2>8. q[k - 1].age <= q[i].age
    BY <2>6, <2>7
  <2>9. q[k].diff = q[k - 1].age - q[k].age
    BY <2>6 DEF Ages
  <2>10. q[k].diff \in Nat /\ q[k].age \in Nat /\ q[k - 1].age \in Nat
    BY <1>0, <2>6, RequestFields
  <2>11. \A x, y, z, d \in Nat : d = x - y /\ x <= z => y <= z
    OBVIOUS
  <2>12. q[k].age <= q[i].age
    BY <2>4, <2>8, <2>9, <2>10, <2>11, Zenon
  <2> QED
    BY <2>3, <2>12
<1> QED
  BY <1>1, <1>2

\* mqtt_append_request's sum of all differences is what has passed of the
\* time of the last request.
LEMMA TotalDiffIs ==
  ASSUME NEW q \in Seq(RequestType), Ages(q)
  PROVE  TotalDiff(q) = IF Len(q) = 0 THEN 0 ELSE ReqTimeout - q[Len(q)].age
<1> DEFINE n == Len(q)
           Def(f) == f = [i \in 0 .. n |-> IF i = 0 THEN 0 ELSE f[i - 1] + q[i].diff]
           w == [i \in 0 .. n |-> IF i = 0 THEN 0 ELSE ReqTimeout - q[i].age]
           s == CHOOSE f : Def(f)
<1>0. n \in Nat /\ ReqTimeout \in Nat
  BY LenProperties, TimerAssumption
<1>1. \A i \in 1 .. n : q[i].diff \in Nat /\ q[i].age \in Nat
  BY <1>0, RequestFields
<1>2. \A i \in 1 .. n :
        q[i].diff = (IF i = 1 THEN ReqTimeout ELSE q[i - 1].age) - q[i].age
  BY DEF Ages
<1>3. TotalDiff(q) = s[n]
  BY Zenon DEF TotalDiff
<1> HIDE DEF n
<1>4. Def(w)
  <2>1. ASSUME NEW i \in 0 .. n
        PROVE  w[i] = IF i = 0 THEN 0 ELSE w[i - 1] + q[i].diff
    <3>1. CASE i = 0
      BY <2>1, <3>1
    <3>2. CASE i = 1
      <4>1. w[1] = ReqTimeout - q[1].age /\ w[0] = 0
        BY <1>0, <2>1, <3>2
      <4> QED
        BY <1>0, <1>1, <1>2, <2>1, <3>2, <4>1
    <3>3. CASE i # 0 /\ i # 1
      <4>1. i \in 1 .. n /\ i - 1 \in 1 .. n /\ i - 1 \in 0 .. n /\ i - 1 # 0
        BY <1>0, <3>3
      <4>2. w[i] = ReqTimeout - q[i].age /\ w[i - 1] = ReqTimeout - q[i - 1].age
        BY <3>3, <4>1
      <4> QED
        BY <1>0, <1>1, <1>2, <3>3, <4>1, <4>2
    <3> QED
      BY <3>1, <3>2, <3>3
  <2> QED
    BY <2>1
<1>5. Def(s)
  BY <1>4, Zenon
<1> HIDE DEF s
<1>6. \A i \in 0 .. n : s[i] = IF i = 0 THEN 0 ELSE s[i - 1] + q[i].diff
  BY <1>5
<1> DEFINE T == {i \in 0 .. n : s[i] # w[i]}
<1>7. T = {}
  <2> SUFFICES ASSUME T # {} PROVE FALSE
    OBVIOUS
  <2>1. T \subseteq Nat
    BY <1>0
  <2>2. PICK k \in T : \A y \in T : k <= y
    <3> HIDE DEF T
    <3> QED
      BY <2>1, Least
  <2>3. k \in 0 .. n /\ s[k] # w[k]
    BY <2>2
  <2>4. \A i \in 0 .. n : w[i] = IF i = 0 THEN 0 ELSE w[i - 1] + q[i].diff
    BY <1>4
  <2> HIDE DEF w
  <2>5. k # 0
    BY <1>6, <2>3, <2>4
  <2>6. k - 1 \in 0 .. n
    BY <1>0, <2>3, <2>5
  <2>7. s[k - 1] = w[k - 1]
    BY <2>2, <2>6
  <2> QED
    BY <1>6, <2>3, <2>4, <2>5, <2>7
<1>8. n \in 0 .. n
  BY <1>0
<1>9. s[n] = w[n]
  BY <1>7, <1>8
<1>10. w[n] = IF n = 0 THEN 0 ELSE ReqTimeout - q[n].age
  BY <1>8
<1> QED
  BY <1>3, <1>9, <1>10 DEF n

\* The first requests of a queue are a queue.
LEMMA FirstRequests ==
  ASSUME NEW q \in Seq(RequestType), Ages(q), NEW i \in 1 .. Len(q)
  PROVE  /\ SubSeq(q, 1, i) \in Seq(RequestType) /\ Len(SubSeq(q, 1, i)) = i
         /\ SubSeq(q, 1, i)[i] = q[i] /\ Ages(SubSeq(q, 1, i))
<1> DEFINE t == SubSeq(q, 1, i)
<1>0. Len(q) \in Nat
  BY LenProperties
<1>1. /\ t \in Seq(RequestType) /\ Len(t) = i
      /\ \A j \in 1 .. i : t[j] = q[j]
  <2>1. 1 \in 1 .. Len(q) + 1 /\ i - 1 + 1 = i
    BY <1>0
  <2> QED
    BY <1>0
<1> HIDE DEF t
<1>2. ASSUME NEW j \in 1 .. i
      PROVE  t[j].diff = (IF j = 1 THEN ReqTimeout ELSE t[j - 1].age) - t[j].age
  <2>1. j \in 1 .. Len(q) /\ (j # 1 => j - 1 \in 1 .. i)
    BY <1>0
  <2>2. q[j].diff = (IF j = 1 THEN ReqTimeout ELSE q[j - 1].age) - q[j].age
    BY <2>1 DEF Ages
  <2>3. t[j] = q[j] /\ (j # 1 => t[j - 1] = q[j - 1])
    BY <1>1, <2>1
  <2> QED
    BY <2>2, <2>3
<1>3. Ages(t)
  BY <1>1, <1>2 DEF Ages
<1> QED
  BY <1>1, <1>3 DEF t

\* A new request comes behind all others and has its whole time.
LEMMA AppendKeeps ==
  ASSUME NEW q \in Seq(RequestType), Ages(q), NEW id \in {PublishId, SubscribeId}
  PROVE  LET r == AppendRequest(q, id)
         IN  r \in Seq(RequestType) /\ Len(r) = Len(q) + 1 /\ Ages(r)
<1> DEFINE n == Len(q)
           d == ReqTimeout - TotalDiff(q)
           e == [id |-> id, diff |-> d, age |-> 0]
           r == Append(q, e)
<1>0. n \in Nat /\ ReqTimeout \in Nat
  BY LenProperties, TimerAssumption
<1>1. TotalDiff(q) = IF n = 0 THEN 0 ELSE ReqTimeout - q[n].age
  BY TotalDiffIs
<1>2. n # 0 => q[n].age \in 0 .. ReqTimeout
  <2>1. n # 0 => n \in 1 .. n
    BY <1>0
  <2> QED
    BY <2>1, RequestFields
<1>3. d = IF n = 0 THEN ReqTimeout ELSE q[n].age
  BY <1>0, <1>1, <1>2
<1>4. d \in 0 .. ReqTimeout
  BY <1>0, <1>2, <1>3
<1>5. e \in RequestType
  <2> HIDE DEF d
  <2> QED
    BY <1>0, <1>4 DEF RequestType
<1> HIDE DEF d
<1>6. e.diff = d /\ e.age = 0
  OBVIOUS
<1> HIDE DEF e
<1>7. /\ r \in Seq(RequestType) /\ Len(r) = n + 1
      /\ \A i \in 1 .. n : r[i] = q[i]
      /\ r[n + 1] = e
  BY <1>5, AppendProperties
<1> HIDE DEF r, n
<1>8. ASSUME NEW i \in 1 .. n + 1
      PROVE  r[i].diff = (IF i = 1 THEN ReqTimeout ELSE r[i - 1].age) - r[i].age
  <2>1. CASE i = n + 1
    <3>1. CASE n = 0
      BY <1>0, <1>3, <1>6, <1>7, <2>1, <3>1
    <3>2. CASE n # 0
      <4>1. r[i - 1] = q[n] /\ i # 1
        BY <1>0, <1>7, <2>1, <3>2
      <4> QED
        BY <1>0, <1>2, <1>3, <1>6, <1>7, <2>1, <3>2, <4>1
    <3> QED
      BY <3>1, <3>2
  <2>2. CASE i # n + 1
    <3>1. i \in 1 .. n /\ (i # 1 => i - 1 \in 1 .. n)
      BY <1>0, <2>2
    <3>2. q[i].diff = (IF i = 1 THEN ReqTimeout ELSE q[i - 1].age) - q[i].age
      BY <3>1 DEF Ages, n
    <3>3. r[i] = q[i] /\ (i # 1 => r[i - 1] = q[i - 1])
      BY <1>7, <3>1
    <3> QED
      BY <3>2, <3>3
  <2> QED
    BY <2>1, <2>2
<1>9. Ages(r)
  BY <1>7, <1>8 DEF Ages
<1>10. AppendRequest(q, id) = r
  BY DEF AppendRequest, r, e, d
<1> QED
  BY <1>7, <1>9, <1>10 DEF n

\* What RemoveAt leaves.
LEMMA RemoveFacts ==
  ASSUME NEW S, NEW l \in Seq(S), NEW p \in 1 .. Len(l)
  PROVE  /\ RemoveAt(l, p) \in Seq(S)
         /\ Len(RemoveAt(l, p)) = Len(l) - 1
         /\ \A i \in 1 .. Len(l) - 1 : RemoveAt(l, p)[i] =
              IF i < p THEN l[i] ELSE l[i + 1]
<1> DEFINE a == SubSeq(l, 1, p - 1)
           b == SubSeq(l, p + 1, Len(l))
           c == a \o b
<1>0. Len(l) \in Nat /\ (\A i \in 1 .. Len(l) : l[i] \in S)
  BY LenProperties, ElementOfSeq
<1>1. /\ a \in Seq(S) /\ Len(a) = p - 1
      /\ \A i \in 1 .. p - 1 : a[i] = l[i]
  OBVIOUS
<1>2. /\ b \in Seq(S) /\ Len(b) = Len(l) - p
      /\ \A i \in 1 .. Len(l) - p : b[i] = l[p + 1 + i - 1]
  BY <1>0, SubSeqProperties
<1> HIDE DEF a, b
<1>3. /\ c \in Seq(S) /\ Len(c) = Len(a) + Len(b)
      /\ \A i \in 1 .. Len(a) + Len(b) :
           c[i] = IF i <= Len(a) THEN a[i] ELSE b[i - Len(a)]
  BY <1>1, <1>2, ConcatProperties
<1>4. Len(a) + Len(b) = Len(l) - 1
  BY <1>0, <1>1, <1>2
<1> HIDE DEF c
<1>5. ASSUME NEW i \in 1 .. Len(l) - 1
      PROVE  c[i] = IF i < p THEN l[i] ELSE l[i + 1]
  <2>1. c[i] = IF i <= p - 1 THEN a[i] ELSE b[i - (p - 1)]
    BY <1>1, <1>3, <1>4
  <2>2. CASE i < p
    <3>1. i <= p - 1 /\ i \in 1 .. p - 1
      BY <1>0, <2>2
    <3> QED
      BY <1>1, <2>1, <2>2, <3>1
  <2>3. CASE ~(i < p)
    <3>1. /\ i - (p - 1) \in 1 .. Len(l) - p /\ p + 1 + (i - (p - 1)) - 1 = i + 1
          /\ ~(i <= p - 1)
      BY <1>0, <2>3
    <3> QED
      BY <1>2, <2>1, <2>3, <3>1
  <2> QED
    BY <2>2, <2>3
<1>6. RemoveAt(l, p) = c
  BY DEF RemoveAt, a, b, c
<1> QED
  BY <1>3, <1>4, <1>5, <1>6

\* Two differences in a row.
LEMMA TwoDifferences ==
  ASSUME NEW R \in Nat, NEW a \in 0 .. R, NEW b \in 0 .. R, NEW c \in 0 .. R,
         NEW d, NEW e, d = a - b, e = b - c, d \in 0 .. R, e \in 0 .. R
  PROVE  e + d \in 0 .. R
  OBVIOUS

\* A request that is taken out leaves its time to the next one.
LEMMA TakeKeeps ==
  ASSUME NEW q \in Seq(RequestType), Ages(q), NEW id
  PROVE  LET r == TakeRequest(q, id)
         IN  r \in Seq(RequestType) /\ Len(r) <= Len(q) /\ Ages(r)
<1> DEFINE n == Len(q)
           at == {i \in DOMAIN q : q[i].id = id}
           p == CHOOSE k \in at : \A j \in at : k <= j
           u == [j \in DOMAIN q |->
                   IF j = p + 1 THEN [q[j] EXCEPT !.diff = @ + q[p].diff]
                   ELSE q[j]]
           r == RemoveAt(u, p)
<1>0. n \in Nat /\ ReqTimeout \in Nat /\ DOMAIN q = 1 .. n
  BY LenProperties, TimerAssumption
<1>1. CASE at = {}
  <2>1. TakeRequest(q, id) = q
    BY <1>1 DEF TakeRequest
  <2> QED
    BY <1>0, <2>1
<1>2. CASE at # {}
  <2>1. p \in 1 .. n
    <3>1. at \subseteq Nat
      BY <1>0
    <3>2. \E k \in at : \A j \in at : k <= j
      <4> HIDE DEF at
      <4> QED
        BY <1>2, <3>1, Least
    <3>3. p \in at
      BY <3>2
    <3> HIDE DEF p
    <3> QED
      BY <1>0, <3>3
  <2>2. TakeRequest(q, id) = r
    BY <1>2 DEF TakeRequest
  <2> HIDE DEF p
  <2>3. \A i \in 1 .. n :
          /\ q[i] \in RequestType
          /\ q[i].diff \in 0 .. ReqTimeout /\ q[i].age \in 0 .. ReqTimeout
    BY RequestFields
  <2>4. \A i \in 1 .. n :
          q[i].diff = (IF i = 1 THEN ReqTimeout ELSE q[i - 1].age) - q[i].age
    BY DEF Ages
  <2>5. ASSUME NEW j \in 1 .. n
        PROVE  /\ u[j] \in RequestType /\ u[j].age = q[j].age
               /\ u[j].diff = IF j = p + 1 THEN q[j].diff + q[p].diff ELSE q[j].diff
    <3>1. CASE j = p + 1
      <4>1. u[j] = [q[j] EXCEPT !.diff = q[j].diff + q[p].diff]
        BY <1>0, <3>1
      <4>2. q[j].diff + q[p].diff \in 0 .. ReqTimeout
        <5>1. j - 1 = p /\ j # 1 /\ (p # 1 => p - 1 \in 1 .. n)
          BY <1>0, <2>1, <3>1
        <5>2. q[j].diff = q[p].age - q[j].age
          BY <2>4, <5>1
        <5>3. q[p].diff = (IF p = 1 THEN ReqTimeout ELSE q[p - 1].age) - q[p].age
          BY <2>1, <2>4
        <5>4. /\ q[p].age \in 0 .. ReqTimeout /\ q[j].age \in 0 .. ReqTimeout
              /\ q[p].diff \in 0 .. ReqTimeout /\ q[j].diff \in 0 .. ReqTimeout
              /\ p # 1 => q[p - 1].age \in 0 .. ReqTimeout
          BY <2>1, <2>3, <5>1
        <5>5. PICK before \in 0 .. ReqTimeout : q[p].diff = before - q[p].age
          <6>1. CASE p = 1
            BY <1>0, <5>3, <6>1
          <6>2. CASE p # 1
            BY <5>3, <5>4, <6>2
          <6> QED
            BY <6>1, <6>2
        <5> QED
          BY <1>0, <5>2, <5>4, <5>5, TwoDifferences, Zenon
      <4> DEFINE d == q[j].diff + q[p].diff
      <4> HIDE DEF d, u
      <4>3. u[j] = [q[j] EXCEPT !.diff = d] /\ d \in 0 .. ReqTimeout
        BY <4>1, <4>2 DEF d
      <4>4. q[j] \in RequestType
        BY <2>3
      <4>5. u[j] \in RequestType /\ u[j].age = q[j].age /\ u[j].diff = d
        BY <4>3, <4>4 DEF RequestType
      <4> QED
        BY <3>1, <4>5 DEF d
    <3>2. CASE j # p + 1
      BY <1>0, <2>3, <3>2
    <3> QED
      BY <3>1, <3>2
  <2>6. u \in Seq(RequestType) /\ Len(u) = n
    <3>1. u \in [1 .. n -> RequestType]
      <4>1. u = [j \in 1 .. n |-> u[j]]
        BY <1>0
      <4> HIDE DEF u
      <4> QED
        BY <2>5, <4>1
    <3> HIDE DEF u
    <3> QED
      BY <1>0, <3>1
  <2> HIDE DEF u
  <2>7. /\ r \in Seq(RequestType) /\ Len(r) = n - 1
        /\ \A i \in 1 .. n - 1 : r[i] = IF i < p THEN u[i] ELSE u[i + 1]
    <3>1. p \in 1 .. Len(u)
      BY <2>1, <2>6
    <3> QED
      BY <2>6, <3>1, RemoveFacts
  <2> HIDE DEF r, n, at
  <2>8. ASSUME NEW i \in 1 .. n - 1
        PROVE  r[i].diff = (IF i = 1 THEN ReqTimeout ELSE r[i - 1].age) - r[i].age
    <3>0. /\ i \in 1 .. n /\ i + 1 \in 1 .. n
          /\ i # 1 => i - 1 \in 1 .. n - 1 /\ i - 1 \in 1 .. n
      BY <1>0
    <3>1. CASE i < p
      <4>1. r[i] = u[i] /\ (i # 1 => r[i - 1] = u[i - 1])
        BY <1>0, <2>1, <2>7, <3>0, <3>1
      <4>2. i # p + 1
        BY <2>1, <3>1
      <4>3. u[i].diff = q[i].diff /\ u[i].age = q[i].age
        BY <2>5, <3>0, <4>2
      <4>4. i # 1 => u[i - 1].age = q[i - 1].age
        BY <2>5, <3>0
      <4> QED
        BY <2>4, <3>0, <4>1, <4>3, <4>4
    <3>2. CASE i = p
      <4>1. r[i] = u[i + 1] /\ (i # 1 => r[i - 1] = u[i - 1])
        BY <1>0, <2>1, <2>7, <3>0, <3>2
      <4>2. u[i + 1].diff = q[i + 1].diff + q[i].diff /\ u[i + 1].age = q[i + 1].age
        BY <2>5, <3>0, <3>2
      <4>3. i # 1 => u[i - 1].age = q[i - 1].age
        BY <2>5, <3>0
      <4>4. q[i + 1].diff = q[i].age - q[i + 1].age
        <5>1. i + 1 # 1 /\ (i + 1) - 1 = i
          BY <1>0
        <5> QED
          BY <2>4, <3>0, <5>1
      <4>5. q[i].diff = (IF i = 1 THEN ReqTimeout ELSE q[i - 1].age) - q[i].age
        BY <2>4, <3>0
      <4>6. /\ q[i].age \in Nat /\ q[i + 1].age \in Nat
            /\ i # 1 => q[i - 1].age \in Nat
        BY <1>0, <2>3, <3>0
      <4> QED
        BY <1>0, <4>1, <4>2, <4>3, <4>4, <4>5, <4>6
    <3>3. CASE i > p
      <4>1. r[i] = u[i + 1] /\ r[i - 1] = u[i] /\ i # 1
        <5>1. ~(i < p) /\ ~(i - 1 < p) /\ i # 1 /\ (i - 1) + 1 = i
          BY <1>0, <2>1, <3>3
        <5> QED
          BY <2>7, <3>0, <5>1
      <4>2. i + 1 # p + 1 /\ i + 1 # 1 /\ (i + 1) - 1 = i
        BY <1>0, <2>1, <3>3
      <4>3. u[i + 1].diff = q[i + 1].diff /\ u[i + 1].age = q[i + 1].age
        BY <2>5, <3>0, <4>2
      <4>4. u[i].age = q[i].age
        BY <2>5, <3>0
      <4>5. q[i + 1].diff = q[i].age - q[i + 1].age
        BY <2>4, <3>0, <4>2
      <4> QED
        BY <4>1, <4>3, <4>4, <4>5
    <3> QED
      BY <1>0, <2>1, <3>1, <3>2, <3>3
  <2>9. Ages(r)
    BY <2>7, <2>8 DEF Ages
  <2>10. Len(r) <= n
    BY <1>0, <2>7
  <2> QED
    BY <2>2, <2>7, <2>9, <2>10 DEF n
<1> QED
  BY <1>1, <1>2

\* Taking one publication after the other can be written as a function.
LEMMA TakingExists ==
  ASSUME NEW q, NEW n \in Nat
  PROVE  \E f : f = [i \in 0 .. n |->
                      IF i = 0 THEN q ELSE TakeRequest(f[i - 1], PublishId)]
<1> DEFINE Is(f, m) == f = [i \in 0 .. m |->
                             IF i = 0 THEN q ELSE TakeRequest(f[i - 1], PublishId)]
           T == {m \in Nat : ~(\E f : Is(f, m))}
<1>1. T = {}
  <2> SUFFICES ASSUME T # {} PROVE FALSE
    OBVIOUS
  <2>1. PICK m \in T : \A y \in T : m <= y
    <3>1. T \subseteq Nat
      OBVIOUS
    <3> HIDE DEF T
    <3> QED
      BY <3>1, Least
  <2>2. m \in Nat /\ ~(\E f : Is(f, m))
    BY <2>1
  <2>3. m # 0
    <3> DEFINE g == [i \in 0 .. 0 |-> q]
    <3>1. \A i \in 0 .. 0 : i = 0
      OBVIOUS
    <3>2. Is(g, 0)
      BY <3>1
    <3> QED
      BY <2>2, <3>2
  <2>4. m - 1 \in Nat /\ m - 1 \notin T
    <3>1. m - 1 \in Nat /\ ~(m <= m - 1)
      BY <2>2, <2>3
    <3> HIDE DEF T
    <3> QED
      BY <2>1, <3>1
  <2>5. PICK f : Is(f, m - 1)
    BY <2>4
  <2> DEFINE g == [i \in 0 .. m |->
                     IF i = m THEN TakeRequest(f[m - 1], PublishId) ELSE f[i]]
  <2>6. \A i \in 0 .. m - 1 :
          f[i] = IF i = 0 THEN q ELSE TakeRequest(f[i - 1], PublishId)
    BY <2>5
  <2>7. ASSUME NEW i \in 0 .. m
        PROVE  g[i] = IF i = 0 THEN q ELSE TakeRequest(g[i - 1], PublishId)
    <3>1. CASE i = m
      <4>1. g[m - 1] = f[m - 1] /\ g[m] = TakeRequest(f[m - 1], PublishId)
        BY <2>2, <2>3, <2>4
      <4> QED
        BY <2>3, <3>1, <4>1
    <3>2. CASE i # m
      <4>1. i \in 0 .. m - 1 /\ (i # 0 => i - 1 \in 0 .. m /\ i - 1 # m)
        BY <2>2, <3>2
      <4>2. g[i] = f[i] /\ (i # 0 => g[i - 1] = f[i - 1])
        BY <3>2, <4>1
      <4> HIDE DEF g
      <4> QED
        BY <2>6, <4>1, <4>2
    <3> QED
      BY <3>1, <3>2
  <2>8. Is(g, m)
    BY <2>7
  <2> QED
    BY <2>2, <2>8
<1> QED
  BY <1>1

\* Taking the publications out keeps the others on time.
LEMMA TakePublicationsKeeps ==
  ASSUME NEW q \in Seq(RequestType), Ages(q)
  PROVE  LET r == TakePublications(q)
         IN  r \in Seq(RequestType) /\ Len(r) <= Len(q) /\ Ages(r)
<1> DEFINE n == Len(q)
           Is(f) == f = [i \in 0 .. n |->
                          IF i = 0 THEN q ELSE TakeRequest(f[i - 1], PublishId)]
           s == CHOOSE f : Is(f)
           Good(r) == r \in Seq(RequestType) /\ Len(r) <= n /\ Ages(r)
<1>0. n \in Nat
  BY LenProperties
<1>1. TakePublications(q) = s[n]
  BY Zenon DEF TakePublications
<1>2. Good(q)
  BY <1>0
<1> HIDE DEF n
<1>3. Is(s)
  <2>1. \E f : Is(f)
    BY <1>0, TakingExists
  <2> QED
    BY <2>1, Zenon
<1> HIDE DEF s
<1>4. \A i \in 0 .. n :
        s[i] = IF i = 0 THEN q ELSE TakeRequest(s[i - 1], PublishId)
  BY <1>3
<1>5. ASSUME NEW r, Good(r)
      PROVE  Good(TakeRequest(r, PublishId))
  <2> DEFINE t == TakeRequest(r, PublishId)
  <2>1. r \in Seq(RequestType) /\ Len(r) <= n /\ Ages(r) /\ Len(r) \in Nat
    BY <1>5
  <2>2. t \in Seq(RequestType) /\ Len(t) <= Len(r) /\ Ages(t)
    BY <2>1, TakeKeeps
  <2> HIDE DEF t
  <2>3. Len(t) \in Nat
    BY <2>2
  <2>4. Len(t) <= n
    BY <1>0, <2>1, <2>2, <2>3
  <2>5. Good(t)
    BY <2>2, <2>4
  <2> QED
    BY <2>5 DEF t
<1> HIDE DEF Good
<1> DEFINE T == {i \in 0 .. n : ~Good(s[i])}
<1>6. T = {}
  <2> SUFFICES ASSUME T # {} PROVE FALSE
    OBVIOUS
  <2>1. PICK k \in T : \A y \in T : k <= y
    <3>1. T \subseteq Nat
      BY <1>0
    <3> HIDE DEF T
    <3> QED
      BY <3>1, Least
  <2>2. k \in 0 .. n /\ ~Good(s[k])
    BY <2>1
  <2>3. k # 0
    BY <1>2, <1>4, <2>2
  <2>4. k - 1 \in 0 .. n
    BY <1>0, <2>2, <2>3
  <2>5. Good(s[k - 1])
    BY <2>1, <2>4
  <2>6. s[k] = TakeRequest(s[k - 1], PublishId)
    BY <1>4, <2>2, <2>3
  <2> QED
    BY <1>5, <2>2, <2>5, <2>6
<1>7. n \in 0 .. n
  BY <1>0
<1>8. Good(s[n])
  BY <1>6, <1>7
<1> QED
  BY <1>1, <1>8 DEF Good, n

\* Requests without any time left, in front of the others, are as old as a
\* request may become.
LEMMA NoTimeLeft ==
  ASSUME NEW q \in Seq(RequestType), Ages(q), NEW l \in 1 .. Len(q),
         \A i \in 1 .. l - 1 : q[i].diff = 0
  PROVE  q[l].diff = ReqTimeout - q[l].age
<1>0. Len(q) \in Nat /\ ReqTimeout \in Nat
  BY LenProperties, TimerAssumption
<1> DEFINE T == {i \in 1 .. l - 1 : q[i].age # ReqTimeout}
<1>1. T = {}
  <2> SUFFICES ASSUME T # {} PROVE FALSE
    OBVIOUS
  <2>1. PICK k \in T : \A y \in T : k <= y
    <3>1. T \subseteq Nat
      BY <1>0
    <3> HIDE DEF T
    <3> QED
      BY <3>1, Least
  <2>2. k \in 1 .. l - 1 /\ q[k].age # ReqTimeout /\ k \in 1 .. Len(q)
    BY <1>0, <2>1
  <2>3. q[k].diff = 0 /\ q[k].age \in Nat
    BY <1>0, <2>2, RequestFields
  <2>4. CASE k = 1
    <3>1. q[1].diff = ReqTimeout - q[1].age
      BY <2>2, <2>4 DEF Ages
    <3> QED
      BY <1>0, <2>2, <2>3, <2>4, <3>1
  <2>5. CASE k # 1
    <3>1. k - 1 \in 1 .. l - 1 /\ ~(k <= k - 1)
      BY <1>0, <2>2, <2>5
    <3>2. q[k - 1].age = ReqTimeout
      BY <2>1, <3>1
    <3>3. q[k].diff = q[k - 1].age - q[k].age
      BY <2>2, <2>5 DEF Ages
    <3> QED
      BY <1>0, <2>2, <2>3, <3>2, <3>3
  <2> QED
    BY <2>4, <2>5
<1>2. q[l].diff = (IF l = 1 THEN ReqTimeout ELSE q[l - 1].age) - q[l].age
  BY DEF Ages
<1>3. l # 1 => l - 1 \in 1 .. l - 1
  BY <1>0
<1>4. l # 1 => q[l - 1].age = ReqTimeout
  BY <1>1, <1>3
<1> QED
  BY <1>2, <1>4

\* Requests all of which become one interval older.
LEMMA OlderKeeps ==
  ASSUME NEW s \in Seq(RequestType),
         \A i \in 1 .. Len(s) : s[i].age < ReqTimeout,
         Len(s) # 0 => s[1].diff = (ReqTimeout - s[1].age) - 1,
         \A i \in 2 .. Len(s) : s[i].diff = s[i - 1].age - s[i].age
  PROVE  LET r == [i \in DOMAIN s |-> [s[i] EXCEPT !.age = @ + 1]]
         IN  r \in Seq(RequestType) /\ Len(r) = Len(s) /\ Ages(r)
<1> DEFINE n == Len(s)
           r == [i \in DOMAIN s |-> [s[i] EXCEPT !.age = @ + 1]]
<1>0. n \in Nat /\ ReqTimeout \in Nat /\ DOMAIN s = 1 .. n
  BY LenProperties, TimerAssumption
<1>1. ASSUME NEW i \in 1 .. n
      PROVE  /\ r[i] \in RequestType /\ r[i].diff = s[i].diff
             /\ r[i].age = s[i].age + 1 /\ s[i].age \in Nat
  <2> DEFINE a == s[i].age + 1
  <2>1. r[i] = [s[i] EXCEPT !.age = a]
    BY <1>0
  <2>2. s[i] \in RequestType /\ s[i].age \in 0 .. ReqTimeout
    BY RequestFields
  <2>3. a \in 0 .. ReqTimeout /\ s[i].age \in Nat
    BY <1>0, <2>2
  <2> HIDE DEF a, r
  <2>4. r[i] \in RequestType /\ r[i].diff = s[i].diff /\ r[i].age = a
    BY <2>1, <2>2, <2>3 DEF RequestType
  <2> QED
    BY <2>3, <2>4 DEF a
<1>2. r \in Seq(RequestType) /\ Len(r) = n
  <2>1. r = [i \in 1 .. n |-> r[i]]
    BY <1>0
  <2> HIDE DEF r
  <2>2. r \in [1 .. n -> RequestType]
    BY <1>1, <2>1
  <2> QED
    BY <1>0, <2>2
<1> HIDE DEF r
<1>3. ASSUME NEW i \in 1 .. n
      PROVE  r[i].diff = (IF i = 1 THEN ReqTimeout ELSE r[i - 1].age) - r[i].age
  <2>1. CASE i = 1
    <3>1. n # 0 /\ s[1].diff = (ReqTimeout - s[1].age) - 1
      BY <1>0
    <3>2. r[1].diff = s[1].diff /\ r[1].age = s[1].age + 1 /\ s[1].age \in Nat
      BY <1>1, <2>1
    <3>3. r[1].diff = ReqTimeout - r[1].age
      BY <1>0, <3>1, <3>2
    <3> QED
      BY <2>1, <3>3
  <2>2. CASE i # 1
    <3>1. i \in 2 .. n /\ i - 1 \in 1 .. n
      BY <1>0, <2>2
    <3>2. s[i].diff = s[i - 1].age - s[i].age
      BY <3>1
    <3>3. r[i].diff = s[i].diff /\ r[i].age = s[i].age + 1 /\ s[i].age \in Nat
      BY <1>1
    <3>4. r[i - 1].age = s[i - 1].age + 1 /\ s[i - 1].age \in Nat
      BY <1>1, <3>1
    <3>5. (s[i - 1].age + 1) - (s[i].age + 1) = s[i - 1].age - s[i].age
      <4>1. \A x, y \in Nat : (x + 1) - (y + 1) = x - y
        OBVIOUS
      <4> QED
        BY <3>3, <3>4, <4>1, Zenon
    <3>6. r[i].diff = r[i - 1].age - r[i].age
      BY <3>2, <3>3, <3>4, <3>5, Zenon
    <3> QED
      BY <2>2, <3>6
  <2> QED
    BY <2>1, <2>2
<1>4. Ages(r)
  BY <1>2, <1>3 DEF Ages
<1> QED
  BY <1>2, <1>4 DEF r

\* The first request that has time left.
LEMMA FirstWithTime ==
  ASSUME NEW q \in Seq(RequestType), NEW l, l = SelectInSeq(q, LAMBDA r : r.diff > 0)
  PROVE  \/ l = 0
         \/ /\ l \in 1 .. Len(q) /\ q[l].diff > 0
            /\ \A i \in 1 .. l - 1 : q[i].diff = 0
<1> DEFINE I == {i \in 1 .. Len(q) : q[i].diff > 0}
<1>0. Len(q) \in Nat /\ ReqTimeout \in Nat
  BY LenProperties, TimerAssumption
<1>1. l = IF I # {} THEN Min(I) ELSE 0
  BY DEF SelectInSeq
<1>2. CASE I = {}
  BY <1>1, <1>2
<1>3. CASE I # {}
  <2>1. I \subseteq Nat
    BY <1>0
  <2>2. \E x \in I : \A y \in I : x <= y
    <3> HIDE DEF I
    <3> QED
      BY <1>3, <2>1, Least
  <2>3. l \in I /\ \A y \in I : l <= y
    <3> HIDE DEF I
    <3>1. l = CHOOSE x \in I : \A y \in I : x <= y
      BY <1>1, <1>3 DEF Min
    <3> QED
      BY <2>2, <3>1
  <2>4. ASSUME NEW i \in 1 .. l - 1
        PROVE  q[i].diff = 0
    <3>1. i \in 1 .. Len(q) /\ ~(l <= i)
      BY <1>0, <2>3
    <3>2. ~(q[i].diff > 0)
      BY <2>3, <3>1
    <3>3. q[i].diff \in Nat
      BY <1>0, <3>1, RequestFields
    <3> QED
      BY <3>2, <3>3
  <2> QED
    BY <2>3, <2>4
<1> QED
  BY <1>2, <1>3

\* An interval of time: requests without time left go, the others keep theirs.
LEMMA TimeKeeps ==
  ASSUME NEW q \in Seq(RequestType), Ages(q)
  PROVE  LET r == TimeElapsed(q)
         IN  r \in Seq(RequestType) /\ Len(r) <= Len(q) /\ Ages(r)
<1> DEFINE n == Len(q)
           l == SelectInSeq(q, LAMBDA r : r.diff > 0)
           rest == IF l = 0 THEN <<>> ELSE SubSeq(q, l, Len(q))
           left == IF rest = <<>> THEN <<>>
                   ELSE IF rest[1].diff = 1 THEN Tail(rest)
                   ELSE [rest EXCEPT ![1].diff = @ - 1]
           r == [i \in DOMAIN left |-> [left[i] EXCEPT !.age = @ + 1]]
<1>0. n \in Nat /\ ReqTimeout \in Nat
  BY LenProperties, TimerAssumption
<1>1. TimeElapsed(q) = r
  BY DEF TimeElapsed
<1>2. \/ l = 0
      \/ /\ l \in 1 .. n /\ q[l].diff > 0
         /\ \A i \in 1 .. l - 1 : q[i].diff = 0
  BY FirstWithTime
<1> HIDE DEF l
<1>3. ASSUME left \in Seq(RequestType), Len(left) <= n,
             \A i \in 1 .. Len(left) : left[i].age < ReqTimeout,
             Len(left) # 0 => left[1].diff = (ReqTimeout - left[1].age) - 1,
             \A i \in 2 .. Len(left) : left[i].diff = left[i - 1].age - left[i].age
      PROVE  r \in Seq(RequestType) /\ Len(r) <= n /\ Ages(r)
  <2> HIDE DEF left
  <2> QED
    BY <1>3, OlderKeeps
<1>4. CASE l = 0
  <2>1. left = <<>>
    BY <1>4
  <2> HIDE DEF left
  <2> QED
    BY <1>0, <1>1, <1>3, <2>1
<1>5. CASE /\ l \in 1 .. n /\ q[l].diff > 0
           /\ \A i \in 1 .. l - 1 : q[i].diff = 0
  <2> DEFINE m == n - (l - 1)
  <2>1. m \in Nat /\ m >= 1 /\ m <= n
    BY <1>0, <1>5
  <2>2. /\ rest \in Seq(RequestType) /\ Len(rest) = m
        /\ \A i \in 1 .. m : rest[i] = q[(l - 1) + i]
    <3>1. rest = SubSeq(q, l, n)
      BY <1>0, <1>5
    <3>2. /\ SubSeq(q, l, n) \in Seq(RequestType)
          /\ Len(SubSeq(q, l, n)) = m
          /\ \A i \in 1 .. m : SubSeq(q, l, n)[i] = q[(l - 1) + i]
      <4>1. /\ SubSeq(q, l, n) \in Seq(RequestType)
            /\ Len(SubSeq(q, l, n)) = n - l + 1
            /\ \A i \in 1 .. n - l + 1 : SubSeq(q, l, n)[i] = q[l + i - 1]
        BY <1>0, <1>5, SubSeqProperties
      <4>2. n - l + 1 = m /\ \A i \in 1 .. m : l + i - 1 = (l - 1) + i
        BY <1>0, <1>5
      <4> HIDE DEF m
      <4> QED
        BY <4>1, <4>2
    <3> HIDE DEF rest, m
    <3> QED
      BY <3>1, <3>2
  <2>3. rest # <<>>
    <3> HIDE DEF rest, m
    <3> QED
      BY <2>1, <2>2
  <2>4. left = IF rest[1].diff = 1 THEN Tail(rest)
               ELSE [rest EXCEPT ![1].diff = @ - 1]
    <3> HIDE DEF rest
    <3> QED
      BY <2>3
  <2> HIDE DEF rest, left, m
  <2>5. rest[1].diff = ReqTimeout - rest[1].age /\ rest[1].diff > 0
    <3>1. q[l].diff = ReqTimeout - q[l].age
      BY <1>5, NoTimeLeft
    <3>2. rest[1] = q[(l - 1) + 1] /\ (l - 1) + 1 = l
      BY <1>0, <1>5, <2>1, <2>2
    <3> QED
      BY <1>5, <3>1, <3>2
  <2>6. ASSUME NEW i \in 2 .. m
        PROVE  rest[i].diff = rest[i - 1].age - rest[i].age
    <3>1. /\ i \in 1 .. m /\ i - 1 \in 1 .. m
          /\ (l - 1) + i \in 1 .. n /\ (l - 1) + i # 1
          /\ ((l - 1) + i) - 1 = (l - 1) + (i - 1)
      BY <1>0, <1>5, <2>1 DEF m
    <3>2. rest[i] = q[(l - 1) + i] /\ rest[i - 1] = q[(l - 1) + (i - 1)]
      BY <2>2, <3>1
    <3>3. q[(l - 1) + i].diff = q[((l - 1) + i) - 1].age - q[(l - 1) + i].age
      BY <3>1 DEF Ages
    <3> QED
      BY <3>1, <3>2, <3>3
  <2>7. \A i \in 1 .. m : /\ rest[i] \in RequestType /\ rest[i].diff \in 0 .. ReqTimeout
                          /\ rest[i].age \in 0 .. ReqTimeout
    BY <2>2, RequestFields
  <2>8. \A i \in 1 .. m : rest[i].age < ReqTimeout
    <3> TAKE i \in 1 .. m
    <3>1. Ages(rest)
      <4>1. ASSUME NEW j \in 1 .. m
            PROVE  rest[j].diff =
                     (IF j = 1 THEN ReqTimeout ELSE rest[j - 1].age) - rest[j].age
        <5>1. CASE j = 1
          BY <2>5, <5>1
        <5>2. CASE j # 1
          <6>1. j \in 2 .. m
            BY <2>1, <5>2
          <6> QED
            BY <2>6, <5>2, <6>1
        <5> QED
          BY <5>1, <5>2
      <4> QED
        BY <2>2, <4>1 DEF Ages
    <3>2. 1 \in 1 .. m /\ i \in 1 .. m
      BY <2>1
    <3>3. rest[i].age <= rest[1].age
      BY <2>2, <3>1, <3>2, AgesFall
    <3>4. rest[1].age \in Nat /\ rest[i].age \in Nat
      BY <1>0, <2>7, <3>2
    <3> QED
      BY <1>0, <2>5, <3>3, <3>4
  <2>9. CASE rest[1].diff = 1
    <3>1. left = Tail(rest)
      BY <2>4, <2>9
    <3>2. /\ left \in Seq(RequestType) /\ Len(left) = m - 1
          /\ \A i \in 1 .. m - 1 : left[i] = rest[i + 1]
      BY <2>2, <2>3, <3>1, HeadTailProperties
    <3>3. Len(left) <= n
      BY <1>0, <2>1, <3>2
    <3>4. \A i \in 1 .. Len(left) : left[i].age < ReqTimeout
      <4> TAKE i \in 1 .. Len(left)
      <4>1. i \in 1 .. m - 1 /\ i + 1 \in 1 .. m
        BY <2>1, <3>2
      <4> QED
        BY <2>8, <3>2, <4>1
    <3>5. Len(left) # 0 => left[1].diff = (ReqTimeout - left[1].age) - 1
      <4> HAVE Len(left) # 0
      <4>1. 1 \in 1 .. m - 1 /\ 2 \in 2 .. m /\ 1 \in 1 .. m /\ 2 \in 1 .. m
            /\ 1 + 1 = 2 /\ 2 - 1 = 1
        BY <2>1, <3>2
      <4>2. left[1] = rest[2]
        BY <3>2, <4>1
      <4>3. rest[2].diff = rest[1].age - rest[2].age
        BY <2>6, <4>1
      <4>4. rest[1].age \in Nat /\ rest[2].age \in Nat
        BY <1>0, <2>7, <4>1
      <4>5. rest[1].age = ReqTimeout - 1
        BY <1>0, <2>5, <2>9, <4>4
      <4>6. (ReqTimeout - 1) - rest[2].age = (ReqTimeout - rest[2].age) - 1
        BY <1>0, <4>4
      <4> QED
        BY <4>2, <4>3, <4>5, <4>6, Zenon
    <3>6. \A i \in 2 .. Len(left) : left[i].diff = left[i - 1].age - left[i].age
      <4> TAKE i \in 2 .. Len(left)
      <4>1. /\ i \in 1 .. m - 1 /\ i - 1 \in 1 .. m - 1 /\ i + 1 \in 2 .. m
            /\ (i - 1) + 1 = i /\ (i + 1) - 1 = i
        BY <2>1, <3>2
      <4>2. left[i] = rest[i + 1] /\ left[i - 1] = rest[i]
        BY <3>2, <4>1
      <4>3. rest[i + 1].diff = rest[i].age - rest[i + 1].age
        BY <2>6, <4>1
      <4> QED
        BY <4>2, <4>3
    <3> QED
      BY <1>1, <1>3, <3>2, <3>3, <3>4, <3>5, <3>6
  <2>10. CASE rest[1].diff # 1
    <3> DEFINE d == rest[1].diff - 1
    <3>1. left = [rest EXCEPT ![1] = [rest[1] EXCEPT !.diff = d]]
      BY <2>4, <2>10
    <3>2. d \in 0 .. ReqTimeout /\ 1 \in 1 .. m
      BY <1>0, <2>1, <2>5, <2>7
    <3> HIDE DEF d
    <3> DEFINE e == [rest[1] EXCEPT !.diff = d]
    <3>3. e \in RequestType /\ e.diff = d /\ e.age = rest[1].age
      <4>1. rest[1] \in RequestType
        BY <2>7, <3>2
      <4> QED
        BY <3>2, <4>1 DEF RequestType
    <3>3a. left = [rest EXCEPT ![1] = e]
      BY <3>1
    <3> HIDE DEF e
    <3>4. /\ left \in Seq(RequestType) /\ Len(left) = m
          /\ left[1] = e /\ \A i \in 2 .. m : left[i] = rest[i]
      <4>1. /\ left \in Seq(RequestType) /\ Len(left) = Len(rest)
            /\ \A i \in 1 .. Len(rest) : left[i] = IF i = 1 THEN e ELSE rest[i]
        BY <2>2, <3>2, <3>3, <3>3a, ExceptSeq
      <4>2. \A i \in 2 .. m : i \in 1 .. m /\ i # 1
        BY <2>1
      <4> QED
        BY <2>2, <3>2, <4>1, <4>2
    <3>5. Len(left) <= n
      BY <2>1, <3>4
    <3>6. \A i \in 1 .. Len(left) : left[i].age = rest[i].age
      <4> TAKE i \in 1 .. Len(left)
      <4>1. i = 1 \/ i \in 2 .. m
        BY <2>1, <3>4
      <4> QED
        BY <3>3, <3>4, <4>1
    <3>7. \A i \in 1 .. Len(left) : left[i].age < ReqTimeout
      BY <2>8, <3>4, <3>6
    <3>8. left[1].diff = (ReqTimeout - left[1].age) - 1
      BY <2>5, <3>3, <3>4 DEF d
    <3>9. \A i \in 2 .. Len(left) : left[i].diff = left[i - 1].age - left[i].age
      <4> TAKE i \in 2 .. Len(left)
      <4>1. i \in 2 .. m /\ i - 1 \in 1 .. m
        BY <2>1, <3>4
      <4> QED
        BY <2>6, <3>4, <3>6, <4>1
    <3> QED
      BY <1>1, <1>3, <3>4, <3>5, <3>7, <3>8, <3>9
  <2> QED
    BY <2>9, <2>10
<1> QED
  BY <1>2, <1>4, <1>5

\* Every step keeps the requests on time.
LEMMA QueueStep == QueueInv /\ [Next]_vars => QueueInv'
<1> SUFFICES ASSUME QueueInv, [Next]_vars PROVE QueueInv'
  OBVIOUS
<1>0. /\ queue \in Seq(RequestType) /\ Len(queue) \in Nat
      /\ Len(queue) <= MaxRequests /\ Ages(queue) /\ MaxRequests \in Nat
  BY TimerAssumption, LenProperties DEF QueueInv
<1>1. CASE queue' = queue
  BY <1>0, <1>1 DEF QueueInv, Ages
<1>2. CASE queue' = <<>>
  BY <1>0, <1>2 DEF QueueInv, Ages
<1>3. ASSUME NEW q, queue' = q, q \in Seq(RequestType), Len(q) <= MaxRequests, Ages(q)
      PROVE  QueueInv'
  BY <1>3 DEF QueueInv, Ages
<1>4. ASSUME NEW q, queue' = q, q \in Seq(RequestType), Len(q) <= Len(queue), Ages(q)
      PROVE  QueueInv'
  <2>1. Len(q) \in Nat
    BY <1>4, LenProperties
  <2>2. Len(q) <= MaxRequests
    BY <1>0, <1>4, <2>1
  <2> QED
    BY <1>3, <1>4, <2>2
<1>5. ASSUME NEW id \in {PublishId, SubscribeId}, NEW len, Request(id, len)
      PROVE  QueueInv'
  <2>1. CASE Len(queue) < MaxRequests /\ queue' = AppendRequest(queue, id)
    <3> DEFINE q == AppendRequest(queue, id)
    <3>1. q \in Seq(RequestType) /\ Len(q) = Len(queue) + 1 /\ Ages(q)
      BY <1>0, AppendKeeps
    <3> HIDE DEF q
    <3>2. Len(q) <= MaxRequests
      BY <1>0, <2>1, <3>1
    <3> QED
      BY <1>3, <2>1, <3>1, <3>2 DEF q
  <2> QED
    BY <1>1, <1>5, <2>1 DEF Request
<1>6. CASE Publish \/ Subscribe
  BY <1>5, <1>6 DEF Publish, Subscribe
<1>7. CASE Suback
  BY <1>0, <1>4, <1>7, TakeKeeps DEF Suback
<1>8. CASE Sent
  BY <1>0, <1>4, <1>8, TakePublicationsKeeps DEF Sent
<1>9. CASE TimerConnected
  <2>1. queue' = <<>> \/ queue' = TimeElapsed(queue)
    BY <1>9 DEF TimerConnected, Close
  <2> QED
    BY <1>0, <1>2, <1>4, <2>1, TimeKeeps
<1>10. CASE Connect \/ Lost \/ TimerConnecting
  BY <1>1, <1>2, <1>10 DEF Connect, Lost, TimerConnecting, Close
<1>11. CASE \/ TcpConnected \/ Connack \/ Received \/ Poll \/ OldMovesOn
            \/ UNCHANGED vars
  BY <1>1, <1>11 DEF TcpConnected, Connack, Received, Poll, OldMovesOn, vars
<1> QED
  BY <1>6, <1>7, <1>8, <1>9, <1>10, <1>11 DEF Next

-----------------------------------------------------------------------------
(* Types.                                                                  *)

\* Every step keeps the ticks below the limits of the state they are for.
LEMMA TimerStep ==
  TypeOK /\ TimerInv /\ [Next]_vars =>
    /\ TimerInv'
    /\ tick' \in 0 .. ConnectTimeout + KeepAlive
    /\ watchdog' \in 0 .. KeepAlive + KeepAlive \div 2 + 1
<1> SUFFICES ASSUME TypeOK, TimerInv, [Next]_vars
             PROVE  /\ TimerInv'
                    /\ tick' \in 0 .. ConnectTimeout + KeepAlive
                    /\ watchdog' \in 0 .. KeepAlive + KeepAlive \div 2 + 1
  OBVIOUS
<1> DEFINE c == ConnectTimeout
           k == KeepAlive
           h == KeepAlive + KeepAlive \div 2
           Good == /\ conn' = "MQTT_CONNECTING" => tick' < c
                   /\ conn' = "MQTT_CONNECTED" => tick' <= k /\ watchdog' <= h
                   /\ tick' \in 0 .. c + k
                   /\ watchdog' \in 0 .. h + 1
<1>0. /\ c \in Nat /\ c >= 1 /\ k \in Nat /\ h \in Nat
      /\ tick \in 0 .. c + k /\ watchdog \in 0 .. h + 1
  BY TimerAssumption DEF TypeOK
<1>1. /\ conn = "MQTT_CONNECTING" => tick < c
      /\ conn = "MQTT_CONNECTED" => tick <= k /\ watchdog <= h
  BY DEF TimerInv
<1>2. SUFFICES Good
  BY DEF TimerInv
<1>3. Connect => /\ conn' \in {"TCP_CONNECTING", "TCP_DISCONNECTED"}
                 /\ tick' = 0 /\ watchdog' = 0
  BY DEF Connect
<1>4. Lost => conn' = "TCP_DISCONNECTED" /\ tick' = tick /\ watchdog' = watchdog
  BY DEF Lost, Close
<1>5. TcpConnected => /\ conn' = "MQTT_CONNECTING" /\ tick' = 0
                      /\ watchdog' = watchdog
  BY DEF TcpConnected
<1>6. Connack => conn' = "MQTT_CONNECTED" /\ tick' = 0 /\ watchdog' = 0
  BY DEF Connack
<1>7. TimerConnecting =>
        /\ tick' = tick + 1 /\ watchdog' = watchdog /\ conn = "MQTT_CONNECTING"
        /\ \/ conn' = "TCP_DISCONNECTED"
           \/ conn' = conn /\ ~(tick' >= c)
  BY DEF TimerConnecting, Close
<1>8. TimerConnected =>
        /\ watchdog' = watchdog + 1 /\ conn = "MQTT_CONNECTED"
        /\ tick' = 0 \/ tick' = Lesser(tick + 1, k)
        /\ \/ conn' = "TCP_DISCONNECTED"
           \/ conn' = conn /\ ~(watchdog' > h)
  BY DEF TimerConnected, Close
<1>9. ~(\/ Connect \/ Lost \/ TcpConnected \/ Connack \/ TimerConnecting
        \/ TimerConnected) =>
        /\ conn' = conn
        /\ tick' = 0 \/ tick' = tick
        /\ watchdog' = 0 \/ watchdog' = watchdog
  BY DEF Next, Publish, Subscribe, Request, Suback, Received, Sent, Poll,
         OldMovesOn, vars
<1> HIDE DEF c, k, h
<1>10. CASE Connect
  BY <1>0, <1>3, <1>10
<1>11. CASE Lost
  BY <1>0, <1>4, <1>11
<1>12. CASE TcpConnected
  BY <1>0, <1>5, <1>12
<1>13. CASE Connack
  BY <1>0, <1>6, <1>13
<1>14. CASE TimerConnecting
  BY <1>0, <1>1, <1>7, <1>14
<1>15. CASE TimerConnected
  <2>1. tick' \in 0 .. k
    BY <1>0, <1>8, <1>15 DEF Lesser
  <2>2. watchdog' \in 0 .. h + 1
    BY <1>0, <1>1, <1>8, <1>15
  <2>3. conn' # "MQTT_CONNECTING" /\ (conn' = "MQTT_CONNECTED" => watchdog' <= h)
    BY <1>0, <1>8, <1>15, <2>2
  <2> QED
    BY <1>0, <2>1, <2>2, <2>3
<1>16. CASE ~(\/ Connect \/ Lost \/ TcpConnected \/ Connack \/ TimerConnecting
              \/ TimerConnected)
  <2>1. tick' \in 0 .. c + k /\ watchdog' \in 0 .. h + 1
    BY <1>0, <1>9, <1>16
  <2>2. tick' <= tick /\ watchdog' <= watchdog /\ conn' = conn
    BY <1>0, <1>9, <1>16
  <2> QED
    BY <1>0, <1>1, <2>1, <2>2
<1> QED
  BY <1>10, <1>11, <1>12, <1>13, <1>14, <1>15, <1>16

\* A whole number of laps.
LEMMA Laps ==
  ASSUME NEW k \in Nat
  PROVE  /\ k * RingSize \in Nat /\ k <= k * RingSize
         /\ (k + 1) * RingSize = k * RingSize + RingSize
<1>1. PICK d \in Nat : RingSize = d + 1
  BY Lengths, RingSize - 1 \in Nat /\ RingSize = (RingSize - 1) + 1
<1>2. k * (d + 1) = k * d + k /\ k * d \in Nat
  OBVIOUS
<1>3. (k + 1) * (d + 1) = k * (d + 1) + (d + 1)
  OBVIOUS
<1> QED
  BY <1>1, <1>2, <1>3

\* What mqtt_ringbuf_len computes.
LEMMA RingLenType ==
  ASSUME NEW p \in 0 .. RingSize - 1
  PROVE  /\ \A g \in 0 .. RingSize - 1 : RingLen(p, g) \in Nat
         /\ RingLen(p, 0) = p
  BY Lengths DEF RingLen

\* The positions are right up to whole laps, and no more is sent than is held.
PositionsInv ==
  /\ put \in 0 .. RingSize - 1 /\ get \in 0 .. RingSize - 1 /\ held \in Nat
  /\ HeldInv

\* Bytes appended to the ring are counted, up to a lap.
LEMMA HeldPut ==
  ASSUME PositionsInv, NEW len \in 0 .. RingSize
  PROVE  \E laps \in Nat :
           held + len = RingLen(Advance(put, len), get) + laps * RingSize
<1> DEFINE p == Advance(put, len)
<1>1. PICK k \in 0 .. held : held = RingLen(put, get) + k * RingSize
  BY DEF PositionsInv, HeldInv
<1>2. held \in Nat /\ put \in 0 .. RingSize - 1 /\ get \in 0 .. RingSize - 1
  BY DEF PositionsInv
<1>3. /\ k \in Nat /\ k * RingSize \in Nat /\ k + 1 \in Nat
      /\ (k + 1) * RingSize = k * RingSize + RingSize
  BY <1>1, <1>2, Laps
<1>4. \/ RingLen(p, get) = RingLen(put, get) + len
      \/ RingLen(p, get) = (RingLen(put, get) + len) - RingSize
  BY <1>2, Lengths DEF RingLen, Advance
<1>5. RingLen(put, get) \in Nat /\ RingLen(p, get) \in Int
  BY <1>2, Lengths DEF RingLen, Advance
<1> DEFINE x == RingLen(put, get)
           y == RingLen(p, get)
           z == k * RingSize
<1> HIDE DEF p, x, y, z
<1>6. x \in Nat /\ y \in Int /\ z \in Nat /\ held = x + z
  BY <1>1, <1>3, <1>5 DEF x, y, z
<1>7. CASE y = x + len
  <2>1. held + len = y + z
    BY <1>6, <1>7
  <2> QED
    BY <1>3, <2>1 DEF y, z, p
<1>8. CASE y = (x + len) - RingSize
  <2>1. held + len = y + (z + RingSize)
    BY <1>6, <1>8, Lengths
  <2> QED
    BY <1>3, <2>1 DEF y, z, p
<1> QED
  BY <1>4, <1>7, <1>8 DEF x, y

\* Appending a message and sending what TCP takes.
LEMMA PutAndSendHeld ==
  ASSUME PositionsInv, NEW len \in 0 .. RingSize, NEW pcb, PutAndSend(len, pcb),
         misdirected \in BOOLEAN
  PROVE  PositionsInv' /\ misdirected' \in BOOLEAN
<1> DEFINE p == Advance(put, len)
<1>0. put \in 0 .. RingSize - 1 /\ get \in 0 .. RingSize - 1 /\ held \in Nat
  BY DEF PositionsInv
<1>1. p \in 0 .. RingSize - 1
  BY <1>0, AdvanceType
<1>2. PICK n \in Sendable(p, get, pcb) :
        /\ put' = p /\ get' = Advance(get, n) /\ held' = held + len - n
        /\ misdirected' = (misdirected \/ (n > 0 /\ pcb # "own"))
  BY DEF PutAndSend
<1>3. n \in 0 .. RingLen(p, get)
  BY <1>0, <1>1, SendableType
<1>4. get' \in 0 .. RingSize - 1 /\ RingLen(p, get') = RingLen(p, get) - n
  BY <1>0, <1>1, <1>2, <1>3, RingGet
<1>5. PICK k \in Nat : held + len = RingLen(p, get) + k * RingSize
  BY HeldPut
<1>6. k * RingSize \in Nat /\ k <= k * RingSize
  BY Laps
<1> DEFINE x == RingLen(p, get)
           y == RingLen(p, get')
           z == k * RingSize
<1>7. x \in Nat
  BY <1>0, <1>1, Lengths DEF RingLen
<1> HIDE DEF p, x, y, z
<1>8. /\ held' = held + len - n /\ n \in 0 .. x /\ y = x - n
      /\ held + len = x + z /\ z \in Nat /\ k <= z
  BY <1>2, <1>3, <1>4, <1>5, <1>6 DEF x, y, z
<1>9. held' \in Nat /\ held' = y + z /\ k \in 0 .. held'
  BY <1>0, <1>7, <1>8
<1>10. HeldInv'
  <2>1. held' = RingLen(put', get') + k * RingSize
    BY <1>2, <1>9 DEF y, z
  <2> QED
    BY <1>9, <2>1 DEF HeldInv
<1> QED
  BY <1>1, <1>2, <1>4, <1>9, <1>10 DEF PositionsInv

\* Every step keeps the positions in the ring and the bytes held a number.
LEMMA HeldStep ==
  PositionsInv /\ misdirected \in BOOLEAN /\ [Next]_vars =>
    PositionsInv' /\ misdirected' \in BOOLEAN
<1> SUFFICES ASSUME PositionsInv, misdirected \in BOOLEAN, [Next]_vars
             PROVE  PositionsInv' /\ misdirected' \in BOOLEAN
  OBVIOUS
<1>0. 0 \in 0 .. RingSize /\ PingLen \in 0 .. RingSize
      /\ PublishLen \in 0 .. RingSize /\ SubscribeLen \in 0 .. RingSize
  BY Lengths
<1>1. CASE UNCHANGED ring /\ misdirected' = misdirected
  BY <1>1 DEF ring, PositionsInv, HeldInv
<1>2. CASE Connect
  <2>1. get' = 0 /\ misdirected' = misdirected /\ held' = put'
        /\ put' \in {0, ConnectLen}
    BY <1>2 DEF Connect
  <2>2. put' \in 0 .. RingSize - 1 /\ put' \in Nat /\ 0 \in 0 .. RingSize - 1
    BY <2>1, Lengths
  <2>3. RingLen(put', get') = put' /\ 0 * RingSize = 0 /\ 0 \in 0 .. put'
    <3>1. RingLen(put', 0) = put'
      BY <2>2, RingLenType
    <3>2. 0 * RingSize = 0 /\ 0 \in 0 .. put'
      BY <2>2, Lengths
    <3> QED
      BY <2>1, <3>1, <3>2
  <2>4. held' = RingLen(put', get') + 0 * RingSize
    BY <2>1, <2>2, <2>3
  <2>5. HeldInv'
    BY <2>1, <2>3, <2>4 DEF HeldInv
  <2> QED
    BY <2>1, <2>2, <2>5 DEF PositionsInv
<1>3. ASSUME NEW pcb, PutAndSend(0, pcb)
      PROVE  PositionsInv' /\ misdirected' \in BOOLEAN
  BY <1>0, <1>3, PutAndSendHeld
<1>4. ASSUME NEW id, NEW len \in 0 .. RingSize, Request(id, len)
      PROVE  PositionsInv' /\ misdirected' \in BOOLEAN
  BY <1>1, <1>4, PutAndSendHeld DEF Request
<1>5. CASE Publish \/ Subscribe
  BY <1>0, <1>4, <1>5 DEF Publish, Subscribe
<1>6. CASE TimerConnected
  <2>1. CASE put' = Advance(put, PingLen) /\ held' = held + PingLen
    <3>1. get' = get /\ misdirected' = misdirected
      BY <1>6 DEF TimerConnected
    <3>2. put \in 0 .. RingSize - 1 /\ get \in 0 .. RingSize - 1 /\ held \in Nat
      BY DEF PositionsInv
    <3>3. put' \in 0 .. RingSize - 1 /\ held' \in Nat
      BY <1>0, <2>1, <3>2, AdvanceType, Lengths
    <3>4. PICK k \in Nat :
            held + PingLen = RingLen(Advance(put, PingLen), get) + k * RingSize
      BY <1>0, HeldPut
    <3>5. held' = RingLen(put', get') + k * RingSize
      BY <2>1, <3>1, <3>4
    <3>6. RingLen(put', get') \in Nat
      BY <3>1, <3>2, <3>3, RingLenType
    <3>7. k * RingSize \in Nat /\ k <= k * RingSize
      BY Laps
    <3>8. k \in 0 .. held'
      <4> DEFINE x == RingLen(put', get')
                 z == k * RingSize
      <4>1. held' = x + z /\ x \in Nat /\ z \in Nat /\ k <= z
        BY <3>5, <3>6, <3>7
      <4> HIDE DEF x, z
      <4> QED
        BY <3>3, <4>1
    <3>9. HeldInv'
      BY <3>5, <3>8 DEF HeldInv
    <3> QED
      BY <3>1, <3>2, <3>3, <3>9 DEF PositionsInv
  <2>2. CASE UNCHANGED <<put, held>>
    BY <1>1, <1>6, <2>2 DEF TimerConnected, ring
  <2> QED
    BY <1>6, <2>1, <2>2 DEF TimerConnected
<1> QED
  BY <1>1, <1>2, <1>3, <1>5, <1>6 DEF Next, vars, TcpConnected, Connack, Lost,
     Suback, Received, Sent, Poll, OldMovesOn, TimerConnecting

-----------------------------------------------------------------------------
(* The theorems.                                                           *)

\* Types, the requests' times, the ring's positions and the ticks, together.
THEOREM Invariance == Spec => []IInv
<1>1. Init => IInv
  <2> SUFFICES ASSUME Init PROVE IInv
    OBVIOUS
  <2>1. /\ ConnectTimeout \in Nat /\ ConnectTimeout >= 1 /\ KeepAlive \in Nat
        /\ MaxRequests \in Nat /\ KeepAlive \div 2 \in Nat
        /\ 0 \in 0 .. RingSize - 1 /\ 0 \in Nat
    BY TimerAssumption, Lengths
  <2>2. /\ 0 \in 0 .. ConnectTimeout + KeepAlive
        /\ 0 \in 0 .. KeepAlive + KeepAlive \div 2 + 1
        /\ 0 <= KeepAlive + KeepAlive \div 2
    BY <2>1
  <2>3. queue = <<>> /\ Len(queue) = 0 /\ DOMAIN queue = {}
    BY DEF Init
  <2>4. TypeOK
    <3>1. /\ put \in 0 .. RingSize - 1 /\ get \in 0 .. RingSize - 1 /\ held \in Nat
          /\ tick \in 0 .. ConnectTimeout + KeepAlive
          /\ watchdog \in 0 .. KeepAlive + KeepAlive \div 2 + 1
      BY <2>1, <2>2, Zenon DEF Init
    <3>2. conn \in States /\ old \in {"none", "pending", "closing"}
      BY DEF Init, States
    <3>3. asked \in BOOLEAN /\ timer \in BOOLEAN /\ misdirected \in BOOLEAN
      BY DEF Init
    <3>4. /\ Len(queue) <= MaxRequests
          /\ \A i \in DOMAIN queue : queue[i].id \in {PublishId, SubscribeId}
      BY <2>1, <2>3
    <3> QED
      BY <3>1, <3>2, <3>3, <3>4, Zenon DEF TypeOK
  <2>5. QueueInv
    BY <2>1, <2>3 DEF QueueInv, Ages
  <2>6. HeldInv
    <3>1. RingLen(0, 0) = 0 /\ 0 * RingSize = 0 /\ 0 \in 0 .. 0 /\ 0 = 0 + 0
      BY <2>1, RingLenType, Lengths
    <3> QED
      BY <3>1 DEF Init, HeldInv
  <2>7. TimerInv
    BY DEF Init, TimerInv
  <2> QED
    BY <2>4, <2>5, <2>6, <2>7 DEF IInv
<1>2. IInv /\ [Next]_vars => IInv'
  <2> SUFFICES ASSUME IInv, [Next]_vars PROVE IInv'
    OBVIOUS
  <2>1. QueueInv'
    BY QueueStep DEF IInv
  <2>2. PositionsInv' /\ misdirected' \in BOOLEAN
    BY HeldStep DEF IInv, TypeOK, PositionsInv
  <2>3. /\ TimerInv'
        /\ tick' \in 0 .. ConnectTimeout + KeepAlive
        /\ watchdog' \in 0 .. KeepAlive + KeepAlive \div 2 + 1
    BY TimerStep DEF IInv
  <2>4. conn' \in States /\ old' \in {"none", "pending", "closing"}
    <3>1. conn \in States /\ old \in {"none", "pending", "closing"}
      BY DEF IInv, TypeOK
    <3> QED
      BY <3>1 DEF States, Next, vars, Connect, TcpConnected, Connack, Lost, Close,
         Publish, Subscribe, Request, Suback, Received, Sent, Poll, OldMovesOn,
         TimerConnecting, TimerConnected
  <2>5. asked' \in BOOLEAN /\ timer' \in BOOLEAN
    <3>1. asked \in BOOLEAN /\ timer \in BOOLEAN
      BY DEF IInv, TypeOK
    <3> QED
      BY <3>1 DEF Next, vars, Connect, TcpConnected, Connack, Lost, Close,
         Publish, Subscribe, Request, Suback, Received, Sent, Poll, OldMovesOn,
         TimerConnecting, TimerConnected
  <2>6. /\ Len(queue') <= MaxRequests
        /\ \A i \in DOMAIN queue' : queue'[i].id \in {PublishId, SubscribeId}
    <3>1. queue' \in Seq(RequestType) /\ Len(queue') <= MaxRequests
      BY <2>1 DEF QueueInv
    <3>2. DOMAIN queue' = 1 .. Len(queue')
      BY <3>1, LenProperties
    <3> QED
      BY <3>1, <3>2, RequestFields
  <2> QED
    BY <2>1, <2>2, <2>3, <2>4, <2>5, <2>6 DEF IInv, TypeOK, PositionsInv
<1> QED
  BY <1>1, <1>2, PTL DEF Spec

\* No more than MQTT_REQ_MAX_IN_FLIGHT requests are pending, never more bytes
\* are sent than were put, also when the ring was filled to the last byte, and
\* both uses of cyclic_tick and the watchdog stay within their limits.
THEOREM TypeCorrect == Spec => []TypeOK
<1>1. IInv => TypeOK
  BY DEF IInv
<1> QED
  BY <1>1, Invariance, PTL

\* For every number of requests and every timeout: whatever is answered, sent
\* or timed out before it, the differences up to a pending request sum up to
\* what is left of its own MQTT_REQ_TIMEOUT, and none stays longer.
THEOREM RequestsTimeOut == Spec => []RequestTime
<1>1. IInv => RequestTime
  <2> SUFFICES ASSUME IInv, NEW i \in DOMAIN queue
               PROVE  /\ queue[i].age <= ReqTimeout
                      /\ TotalDiff(SubSeq(queue, 1, i)) = ReqTimeout - queue[i].age
    BY DEF RequestTime
  <2>1. queue \in Seq(RequestType) /\ Ages(queue)
    BY DEF IInv, QueueInv
  <2>2. i \in 1 .. Len(queue) /\ Len(queue) \in Nat /\ ReqTimeout \in Nat
    BY <2>1, LenProperties, TimerAssumption
  <2>3. queue[i].age \in 0 .. ReqTimeout
    BY <2>1, <2>2, RequestFields
  <2> DEFINE t == SubSeq(queue, 1, i)
  <2>4. t \in Seq(RequestType) /\ Len(t) = i /\ t[i] = queue[i] /\ Ages(t)
    BY <2>1, <2>2, FirstRequests
  <2> HIDE DEF t
  <2>5. TotalDiff(t) = IF i = 0 THEN 0 ELSE ReqTimeout - queue[i].age
    BY <2>4, TotalDiffIs
  <2>6. i # 0 /\ queue[i].age <= ReqTimeout
    BY <2>2, <2>3
  <2> QED
    BY <2>5, <2>6 DEF t
<1> QED
  BY <1>1, Invariance, PTL

\* As long as the ring is never filled to its last byte, its length is the
\* number of bytes put and not sent, also when TCP takes only a part, the
\* positions wrap, or a session ends with bytes in the ring.
THEOREM LengthWrongOnlyWhenFull ==
  Spec /\ [](held # RingSize) => []RingLenCorrect
<1>1. Init => RingInv
  BY Lengths DEF Init, RingInv, RingLenCorrect, RingLen
<1>2. RingInv /\ [Next]_vars /\ (held # RingSize)' => RingInv'
  BY StepRing
<1>3. RingInv => RingLenCorrect
  BY DEF RingInv
<1> QED
  BY <1>1, <1>2, <1>3, PTL DEF Spec

\* From every reachable state, also one whose ring was overfilled before: the
\* step that makes mqtt_ringbuf_len wrong is one that fills the ring exactly.
THEOREM LengthLost == Spec => LengthLostOnlyWhenFull
<1>1. IInv /\ RingLenCorrect => RingInv
  <2> SUFFICES ASSUME IInv, RingLenCorrect PROVE RingInv
    OBVIOUS
  <2>1. put \in 0 .. RingSize - 1 /\ get \in 0 .. RingSize - 1
    BY DEF IInv, TypeOK
  <2>2. RingLen(put, get) \in 0 .. RingSize - 1
    BY <2>1, Lengths DEF RingLen
  <2> QED
    BY <2>1, <2>2 DEF RingInv, RingLenCorrect
<1>2. RingInv' => RingLenCorrect'
  BY DEF RingInv
<1>3. IInv /\ [Next]_vars =>
        [RingLenCorrect /\ ~RingLenCorrect' => held' = RingSize]_vars
  BY <1>1, <1>2, StepRing
<1> QED
  BY <1>3, Invariance, PTL DEF Spec, LengthLostOnlyWhenFull

\* However often the ring was overfilled, the client never takes more out of it
\* than was put: the computed length is short by whole laps, never too long.
THEOREM SendsOnlyPut == Spec => []SendsWhatWasPut
<1>1. IInv => SendsWhatWasPut
  <2> SUFFICES ASSUME IInv PROVE SendsWhatWasPut
    OBVIOUS
  <2>1. put \in 0 .. RingSize - 1 /\ get \in 0 .. RingSize - 1 /\ held \in Nat
    BY DEF IInv, TypeOK
  <2>2. PICK k \in 0 .. held : held = RingLen(put, get) + k * RingSize
    BY DEF IInv, HeldInv
  <2>3. k \in Nat /\ RingLen(put, get) \in Nat
    BY <2>1, RingLenType
  <2>4. k * RingSize \in Nat
    BY <2>3, Laps
  <2> DEFINE x == RingLen(put, get)
             z == k * RingSize
  <2>5. held = x + z /\ x \in Nat /\ z \in Nat
    BY <2>2, <2>3, <2>4
  <2> HIDE DEF x, z
  <2>6. x <= held
    BY <2>5
  <2> QED
    BY <2>6 DEF x, SendsWhatWasPut
<1> QED
  BY <1>1, Invariance, PTL
=============================================================================
