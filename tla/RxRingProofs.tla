---------------------------- MODULE RxRingProofs ----------------------------
(***************************************************************************)
(* Proofs about RxRing, for every size of the ring, every set of frame     *)
(* lengths and every interleaving of the chip with etherReceive.  Measured *)
(* from ERXRDPT on, which no frame reaches, the ring is a line: OrderInv   *)
(* says how the frames lie on it, CellInv what their cells hold and        *)
(* DriverInv where the driver is.  A step of the chip extends the line, a  *)
(* move of ERXRDPT shortens it at its start.                               *)
(*                                                                         *)
(* The one hypothesis is that no frame has a length between the size of    *)
(* dev->rxPkt.data and the length etherReceive refuses: such a frame is    *)
(* copied over the saved pointer (RxRingLong.cfg).                         *)
(***************************************************************************)
EXTENDS RxRing, Integers, SequenceTheorems, TLAPS

-----------------------------------------------------------------------------
(* Addresses.                                                              *)

\* The ring has an even number of cells.
LEMMA RingSizes ==
  RxEnd \in Nat /\ RxEnd >= 1 /\ RxEnd % 2 = 1 /\ Header \in Nat /\ Header >= 2
  BY RingAssumption

\* A distance is less than the size of the ring.
LEMMA DistanceType ==
  ASSUME NEW c \in Addr, NEW a \in Addr
  PROVE  /\ Distance(c, a) \in 0 .. RxEnd
         /\ Distance(c, a) = 0 <=> a = c
  BY RingSizes DEF Distance, Addr

\* Of two cells at different distances from c, the one's from the other.
LEMMA DistanceFrom ==
  ASSUME NEW c \in Addr, NEW a \in Addr, NEW b \in Addr
  PROVE  Distance(a, b) = IF Distance(c, a) <= Distance(c, b)
                          THEN Distance(c, b) - Distance(c, a)
                          ELSE Distance(c, b) - Distance(c, a) + (RxEnd + 1)
  BY RingSizes DEF Distance, Addr

\* Going on from a by n cells, short of c.
LEMMA DistanceOn ==
  ASSUME NEW c \in Addr, NEW a \in Addr, NEW n \in Nat, Distance(c, a) + n <= RxEnd
  PROVE  Wrap(a + n) \in Addr /\ Distance(c, Wrap(a + n)) = Distance(c, a) + n
  BY RingSizes DEF Distance, Addr, Wrap

\* From an odd address to an even one it is an odd number of cells.
LEMMA DistanceOdd ==
  ASSUME NEW c \in Addr, NEW a \in Addr, c % 2 = 1, a % 2 = 0
  PROVE  Distance(c, a) % 2 = 1 /\ Distance(a, c) % 2 = 1
  BY RingSizes DEF Distance, Addr

\* Going on by an even number of cells keeps an address even.
LEMMA WrapEven ==
  ASSUME NEW a \in Addr, NEW n \in Nat, n <= RxEnd, a % 2 = 0, n % 2 = 0
  PROVE  Wrap(a + n) % 2 = 0
  BY RingSizes DEF Wrap, Addr

\* A frame takes an even number of cells, at least its own.
LEMMA RoomType ==
  ASSUME NEW len \in Lens
  PROVE  /\ Room(len) \in Nat /\ Room(len) % 2 = 0
         /\ Room(len) >= Header + len /\ Room(len) >= 2
<1>1. len \in Nat
  BY RingAssumption
<1> QED
  BY <1>1, RingAssumption DEF Room

\* The value for ERXRDPT is odd and one cell before the frame.
LEMMA ErxrdptType ==
  ASSUME NEW p \in Addr, p % 2 = 0
  PROVE  /\ ErxrdptFor(p) \in Addr /\ ErxrdptFor(p) % 2 = 1
         /\ Distance(ErxrdptFor(p), p) = 1
  BY RingSizes DEF ErxrdptFor, Addr, Distance

\* Distances from the moved ERXRDPT, in those from the old one.
LEMMA ErxrdptShift ==
  ASSUME NEW c \in Addr, NEW p \in Addr, Distance(c, p) >= 1, NEW a \in Addr
  PROVE  Distance(ErxrdptFor(p), a) =
           IF Distance(c, a) + 1 >= Distance(c, p)
           THEN Distance(c, a) + 1 - Distance(c, p)
           ELSE Distance(c, a) + 1 - Distance(c, p) + (RxEnd + 1)
  BY RingSizes DEF ErxrdptFor, Addr, Distance

-----------------------------------------------------------------------------
(* What the invariant says of the frames.                                  *)

\* Every frame begins at an even address, behind ERXRDPT and not behind the
\* place where the chip writes next.
LEMMA PosFacts ==
  ASSUME TypeOK, OrderInv, NEW i \in 1 .. Len(starts) + 1
  PROVE  /\ Len(starts) \in Nat /\ DOMAIN starts = 1 .. Len(starts)
         /\ Pos(i) \in Addr /\ Pos(i) % 2 = 0
         /\ Behind(Pos(i)) \in 1 .. RxEnd
         /\ Behind(Pos(i)) <= Behind(erxwrpt)
         /\ Pos(Len(starts) + 1) = erxwrpt
<1>1. Len(starts) \in Nat /\ DOMAIN starts = 1 .. Len(starts)
  BY DEF TypeOK
<1>2. Pos(i) \in Addr /\ Pos(i) % 2 = 0
  <2>1. CASE i <= Len(starts)
    BY <1>1, <2>1 DEF TypeOK, OrderInv, Pos
  <2>2. CASE ~(i <= Len(starts))
    BY <2>2 DEF TypeOK, OrderInv, Pos
  <2> QED
    BY <2>1, <2>2
<1>3. Pos(Len(starts) + 1) = erxwrpt
  BY <1>1 DEF Pos
<1>4. Behind(Pos(i)) \in 1 .. RxEnd
  <2>1. erxrdpt \in Addr /\ erxrdpt % 2 = 1
    BY DEF TypeOK
  <2>2. Distance(erxrdpt, Pos(i)) \in 0 .. RxEnd
    BY <1>2, <2>1, DistanceType
  <2>3. Distance(erxrdpt, Pos(i)) % 2 = 1
    BY <1>2, <2>1, DistanceOdd
  <2> QED
    BY <2>2, <2>3, RingSizes DEF Behind
<1>5. Behind(Pos(i)) <= Behind(erxwrpt)
  <2>1. Len(starts) + 1 \in 1 .. Len(starts) + 1 /\ i <= Len(starts) + 1
    BY <1>1
  <2>2. Behind(Pos(i)) + (Len(starts) + 1 - i) <= Behind(Pos(Len(starts) + 1))
    BY <2>1 DEF OrderInv
  <2>3. Behind(erxwrpt) \in Int
    BY DistanceType, RingSizes DEF Behind, TypeOK
  <2> QED
    BY <1>1, <1>3, <1>4, <2>1, <2>2, <2>3
<1> QED
  BY <1>1, <1>2, <1>3, <1>4, <1>5

\* Every frame is whole, and its header leads to the next one.
LEMMA FrameFacts ==
  ASSUME TypeOK, OrderInv, CellInv, NEW i \in DOMAIN starts
  PROVE  /\ IsFrameStart(starts[i]) /\ Whole(starts[i])
         /\ NextOf(starts[i]) = Pos(i + 1)
         /\ FrameAt(starts[i]) \in Packet
<1> DEFINE s == starts[i]
           p == FrameAt(s)
<1>1. Len(starts) \in Nat /\ i \in 1 .. Len(starts)
  BY DEF TypeOK
<1>2. i \in 1 .. Len(starts) + 1 /\ i + 1 \in 1 .. Len(starts) + 1
  BY <1>1
<1>3. s = Pos(i)
  BY <1>1 DEF Pos
<1>4. /\ s \in Addr /\ Behind(s) \in 1 .. RxEnd
      /\ Pos(i + 1) \in Addr /\ Behind(Pos(i + 1)) \in 1 .. RxEnd
  BY <1>2, <1>3, PosFacts
<1>5. p \in Packet /\ Behind(s) + Room(p.len) = Behind(Pos(i + 1))
  BY DEF OrderInv
<1>6. p.len \in Lens /\ p.len \in Nat
  BY <1>5, RingAssumption DEF Packet
<1>7. Room(p.len) \in Nat /\ Room(p.len) >= Header + p.len /\ Room(p.len) >= 2
  BY <1>6, RoomType
<1>8. ASSUME NEW a \in Addr, Behind(s) <= Behind(a), Behind(a) < Behind(Pos(i + 1))
      PROVE  /\ mem[a] = [pkt |-> p, next |-> Pos(i + 1), off |-> Behind(a) - Behind(s)]
             /\ mem[a] # Junk
  <2>1. mem[a] = [pkt |-> p, next |-> Pos(i + 1), off |-> Behind(a) - Behind(s)]
    BY <1>8 DEF CellInv
  <2>2. Behind(a) \in 0 .. RxEnd
    BY DistanceType DEF Behind, TypeOK
  <2>3. Behind(a) - Behind(s) \in 0 .. RxEnd
    BY <1>4, <1>8, <2>2, RingSizes
  <2>4. mem[a] \in [pkt : [len : Lens, payload : Payloads], next : 0 .. RxEnd,
                    off : 0 .. RxEnd]
    BY <1>4, <1>5, <2>1, <2>3 DEF Packet, Addr
  <2> QED
    BY <2>1, <2>4, JunkAssumption
<1>9. mem[s] = [pkt |-> p, next |-> Pos(i + 1), off |-> 0] /\ mem[s] # Junk
  <2>1. Behind(s) <= Behind(s) /\ Behind(s) < Behind(Pos(i + 1)) /\ Behind(s) - Behind(s) = 0
    BY <1>4, <1>5, <1>7
  <2> QED
    BY <1>4, <1>8, <2>1
<1>10. IsFrameStart(s) /\ NextOf(s) = Pos(i + 1)
  BY <1>9 DEF IsFrameStart, NextOf
<1>11. ASSUME NEW k \in 0 .. Header + p.len - 1
       PROVE  /\ mem[Wrap(s + k)] # Junk /\ mem[Wrap(s + k)].off = k
              /\ mem[Wrap(s + k)].pkt = p
  <2>1. k \in Nat /\ k < Room(p.len)
    BY <1>6, <1>7, RingSizes
  <2>2. Behind(s) + k < Behind(Pos(i + 1)) /\ Behind(s) + k <= RxEnd
    BY <1>4, <1>5, <1>7, <2>1, RingSizes
  <2>3. Wrap(s + k) \in Addr /\ Behind(Wrap(s + k)) = Behind(s) + k
    BY <1>4, <2>1, <2>2, DistanceOn DEF Behind, TypeOK
  <2>4. /\ Behind(s) <= Behind(Wrap(s + k)) /\ Behind(Wrap(s + k)) < Behind(Pos(i + 1))
        /\ Behind(Wrap(s + k)) - Behind(s) = k
    BY <1>4, <2>1, <2>2, <2>3
  <2>5. /\ mem[Wrap(s + k)] # Junk
        /\ mem[Wrap(s + k)] = [pkt |-> p, next |-> Pos(i + 1),
                               off |-> Behind(Wrap(s + k)) - Behind(s)]
    BY <1>8, <2>3, <2>4
  <2> HIDE DEF p, s
  <2> QED
    BY <2>4, <2>5
<1>12. Whole(s)
  BY <1>10, <1>11 DEF Whole
<1> QED
  BY <1>5, <1>10, <1>12

\* The queue the ring implements is the frames at its starts.
QueueOfFrames ==
  /\ RingQueue \in Seq(Packet) /\ Len(RingQueue) = Len(starts)
  /\ \A i \in 1 .. Len(starts) : RingQueue[i] = FrameAt(starts[i])

\* That follows, as every frame is whole.
LEMMA QueueFrames == TypeOK /\ OrderInv /\ CellInv => QueueOfFrames
<1> SUFFICES ASSUME TypeOK, OrderInv, CellInv
             PROVE  QueueOfFrames
  OBVIOUS
<1>1. Len(starts) \in Nat /\ DOMAIN starts = 1 .. Len(starts)
  BY DEF TypeOK
<1>2. /\ DOMAIN RingQueue = 1 .. Len(starts)
      /\ \A i \in 1 .. Len(starts) :
           RingQueue[i] = FrameAt(starts[i]) /\ RingQueue[i] \in Packet
  BY <1>1, FrameFacts DEF RingQueue
<1>3. RingQueue = [i \in 1 .. Len(starts) |-> RingQueue[i]]
  BY <1>1 DEF RingQueue
<1>4. RingQueue \in [1 .. Len(starts) -> Packet]
  BY <1>2, <1>3
<1>5. RingQueue \in Seq(Packet)
  BY <1>1, <1>4, SeqDef
<1>6. Len(RingQueue) = Len(starts)
  BY <1>1, <1>2, <1>5, LenProperties
<1> QED
  BY <1>2, <1>5, <1>6 DEF QueueOfFrames

-----------------------------------------------------------------------------
(* The chip.                                                               *)

\* A frame the chip accepts lies between the frames and ERXRDPT, and does not
\* reach it.
LEMMA AcceptedFits ==
  ASSUME TypeOK, OrderInv, NEW p \in Packet,
         Room(p.len) <= Distance(erxwrpt, erxrdpt)
  PROVE  LET next == Wrap(erxwrpt + Room(p.len))
         IN  /\ next \in Addr /\ next % 2 = 0
             /\ Behind(next) = Behind(erxwrpt) + Room(p.len)
             /\ Behind(erxwrpt) \in 1 .. RxEnd /\ Behind(next) \in 1 .. RxEnd
             /\ Room(p.len) \in Nat /\ Room(p.len) >= 2
             /\ Distance(erxwrpt, next) = Room(p.len)
<1> DEFINE next == Wrap(erxwrpt + Room(p.len))
<1>1. p.len \in Lens
  BY DEF Packet
<1>2. Room(p.len) \in Nat /\ Room(p.len) % 2 = 0 /\ Room(p.len) >= 2
  BY <1>1, RoomType
<1>3. erxrdpt \in Addr /\ erxrdpt % 2 = 1 /\ erxwrpt \in Addr /\ erxwrpt % 2 = 0
  BY DEF TypeOK, OrderInv
<1>4. /\ Distance(erxwrpt, erxrdpt) % 2 = 1 /\ Distance(erxrdpt, erxwrpt) % 2 = 1
      /\ Distance(erxwrpt, erxrdpt) \in 0 .. RxEnd
      /\ Distance(erxrdpt, erxwrpt) \in 0 .. RxEnd
  BY <1>3, DistanceOdd, DistanceType
<1>5. Distance(erxrdpt, erxwrpt) \in 1 .. RxEnd
  BY <1>4, RingSizes
<1>6. Distance(erxwrpt, erxrdpt) = RxEnd + 1 - Distance(erxrdpt, erxwrpt)
  BY <1>3, <1>5, RingSizes DEF Distance, Addr
<1>7. Distance(erxrdpt, erxwrpt) + Room(p.len) <= RxEnd
  BY <1>2, <1>4, <1>5, <1>6, RingSizes
<1>8. next \in Addr /\ Distance(erxrdpt, next) = Distance(erxrdpt, erxwrpt) + Room(p.len)
  BY <1>2, <1>3, <1>7, DistanceOn
<1>9. next % 2 = 0
  <2>1. Room(p.len) <= RxEnd
    BY <1>2, <1>5, <1>7, RingSizes
  <2> QED
    BY <1>2, <1>3, <2>1, WrapEven
<1>10. Distance(erxwrpt, next) = Room(p.len)
  <2> HIDE DEF next
  <2>1. Distance(erxrdpt, erxwrpt) <= Distance(erxrdpt, next)
    BY <1>2, <1>5, <1>8
  <2>2. Distance(erxwrpt, next) = Distance(erxrdpt, next) - Distance(erxrdpt, erxwrpt)
    BY <1>3, <1>8, <2>1, DistanceFrom
  <2> QED
    BY <1>2, <1>5, <1>8, <2>2
<1> HIDE DEF next
<1>11. Behind(next) \in 1 .. RxEnd
  BY <1>2, <1>5, <1>7, <1>8, RingSizes DEF Behind
<1> QED
  BY <1>2, <1>5, <1>8, <1>9, <1>10, <1>11 DEF Behind, next

\* The frames before it stay where and what they are, and it comes last.
LEMMA ChipReceiveOrder ==
  ASSUME TypeOK, OrderInv, CellInv, NEW p \in Packet,
         NEW next, next = Wrap(erxwrpt + Room(p.len)),
         Room(p.len) <= Distance(erxwrpt, erxrdpt),
         mem' = Stored(p, next), erxwrpt' = next, erxrdpt' = erxrdpt,
         starts' = Append(starts, erxwrpt)
  PROVE  /\ OrderInv' /\ CellInv'
         /\ \A i \in 1 .. Len(starts) + 1 : Pos(i)' = Pos(i)
         /\ \A i \in 1 .. Len(starts) : FrameAt(starts[i])' = FrameAt(starts[i])
         /\ FrameAt(starts[Len(starts)])' = p
<1> DEFINE k == Len(starts)
<1>1. k \in Nat /\ DOMAIN starts = 1 .. k /\ starts \in Seq(Addr) /\ erxwrpt \in Addr
      /\ erxrdpt \in Addr
  BY DEF TypeOK
<1>2. /\ Len(starts') = k + 1 /\ DOMAIN starts' = 1 .. k + 1
      /\ \A i \in 1 .. k : starts'[i] = starts[i]
      /\ starts'[k + 1] = erxwrpt
  BY <1>1
<1>3. /\ next \in Addr /\ next % 2 = 0
      /\ Behind(next) = Behind(erxwrpt) + Room(p.len)
      /\ Behind(erxwrpt) \in 1 .. RxEnd /\ Behind(next) \in 1 .. RxEnd
      /\ Room(p.len) \in Nat /\ Room(p.len) >= 2
      /\ Distance(erxwrpt, next) = Room(p.len)
  BY AcceptedFits
<1>4. \A i \in 1 .. k + 1 : Pos(i)' = Pos(i)
  BY <1>1, <1>2 DEF Pos
<1>5. \A i \in Nat : i > k + 1 => Pos(i)' = next
  BY <1>1, <1>2 DEF Pos
<1>6. \A i \in 1 .. k + 1 : Behind(Pos(i)) \in 1 .. RxEnd /\ Behind(Pos(i)) <= Behind(erxwrpt)
  BY PosFacts
<1>7. Pos(k + 1) = erxwrpt
  BY <1>1 DEF Pos
<1>8. ASSUME NEW a \in Addr, Behind(a) < Behind(erxwrpt) PROVE mem'[a] = mem[a]
  <2>1. Behind(a) \in 0 .. RxEnd
    BY <1>1, DistanceType DEF Behind
  <2>2. Distance(erxwrpt, a) = Behind(a) - Behind(erxwrpt) + (RxEnd + 1)
    BY <1>1, <1>3, <1>8, <2>1, DistanceFrom DEF Behind
  <2>3. ~(Distance(erxwrpt, a) < Distance(erxwrpt, next))
    BY <1>3, <2>1, <2>2, RingSizes
  <2> QED
    BY <2>3 DEF Stored, Cells
<1>9. ASSUME NEW a \in Addr, Behind(erxwrpt) <= Behind(a), Behind(a) < Behind(next)
      PROVE  mem'[a] = [pkt |-> p, next |-> next, off |-> Behind(a) - Behind(erxwrpt)]
  <2>1. Behind(a) \in 0 .. RxEnd
    BY <1>1, DistanceType DEF Behind
  <2>2. Distance(erxwrpt, a) = Behind(a) - Behind(erxwrpt)
    BY <1>1, <1>3, <1>9, <2>1, DistanceFrom DEF Behind
  <2>3. Distance(erxwrpt, a) < Distance(erxwrpt, next)
    BY <1>3, <1>9, <2>1, <2>2, RingSizes
  <2> QED
    BY <2>2, <2>3 DEF Stored, Cells
<1>10. ASSUME NEW i \in 1 .. k
       PROVE  /\ FrameAt(starts[i])' = FrameAt(starts[i])
              /\ starts[i] = Pos(i) /\ starts[i] \in Addr
              /\ FrameAt(starts[i]) \in Packet
              /\ Behind(starts[i]) + Room(FrameAt(starts[i]).len) = Behind(Pos(i + 1))
  <2>1. starts[i] = Pos(i) /\ starts[i] \in Addr
    BY <1>1 DEF Pos
  <2>2. /\ FrameAt(starts[i]) \in Packet
        /\ Behind(starts[i]) + Room(FrameAt(starts[i]).len) = Behind(Pos(i + 1))
    BY <1>1 DEF OrderInv
  <2>3. Room(FrameAt(starts[i]).len) \in Nat /\ Room(FrameAt(starts[i]).len) >= 2
    BY <2>2, RoomType DEF Packet
  <2>4. i \in 1 .. k + 1 /\ i + 1 \in 1 .. k + 1
    BY <1>1
  <2>5. Behind(starts[i]) < Behind(erxwrpt)
    <3>1. Behind(starts[i]) \in 1 .. RxEnd
      BY <1>6, <2>1, <2>4
    <3>2. Behind(Pos(i + 1)) \in 1 .. RxEnd /\ Behind(Pos(i + 1)) <= Behind(erxwrpt)
      BY <1>6, <2>4
    <3>3. Behind(erxwrpt) \in 1 .. RxEnd
      BY <1>3
    <3> QED
      BY ONLY <2>2, <2>3, <3>1, <3>2, <3>3, RingSizes
  <2>6. mem'[starts[i]] = mem[starts[i]]
    BY <1>8, <2>1, <2>5
  <2> QED
    BY <1>2, <2>1, <2>2, <2>6 DEF FrameAt
<1>11. FrameAt(starts[Len(starts)])' = p
  <2>1. Behind(erxwrpt) <= Behind(erxwrpt) /\ Behind(erxwrpt) < Behind(next)
    BY <1>3
  <2>2. mem'[erxwrpt] = [pkt |-> p, next |-> next, off |-> Behind(erxwrpt) - Behind(erxwrpt)]
    BY <1>1, <1>9, <2>1
  <2>3. mem'[erxwrpt].pkt = p
    BY <2>2
  <2> QED
    BY <1>2, <2>3 DEF FrameAt
<1>12. OrderInv'
  <2>1. ASSUME NEW i \in 1 .. k + 1
        PROVE  /\ starts'[i] % 2 = 0
               /\ FrameAt(starts[i])' \in Packet
               /\ Behind(starts[i])' + Room(FrameAt(starts[i]).len)' = Behind(Pos(i + 1))'
    <3>1. CASE i \in 1 .. k
      <4>1. starts'[i] % 2 = 0
        BY <1>1, <1>2, <3>1 DEF OrderInv
      <4>2. Pos(i + 1)' = Pos(i + 1)
        BY <1>1, <1>4, <3>1
      <4> QED
        BY <1>2, <1>10, <3>1, <4>1, <4>2 DEF Behind
    <3>2. CASE i = k + 1
      <4>0. i + 1 \in Nat /\ i + 1 > k + 1
        BY <1>1, <3>2
      <4>1. FrameAt(starts[i])' = p /\ starts'[i] = erxwrpt /\ Pos(i + 1)' = next
        BY <1>2, <1>5, <1>11, <3>2, <4>0 DEF FrameAt
      <4> QED
        BY <1>3, <4>1 DEF OrderInv, Behind
    <3> QED
      BY <1>1, <3>1, <3>2
  <2>2. ASSUME NEW i \in 1 .. k + 2, NEW j \in 1 .. k + 2, i <= j
        PROVE  Behind(Pos(i))' + (j - i) <= Behind(Pos(j))'
    <3>1. CASE j \in 1 .. k + 1
      <4>1. i \in 1 .. k + 1
        BY <1>1, <2>2, <3>1
      <4>2. Behind(Pos(i))' = Behind(Pos(i)) /\ Behind(Pos(j))' = Behind(Pos(j))
        BY <1>4, <3>1, <4>1 DEF Behind
      <4> QED
        BY <2>2, <3>1, <4>1, <4>2 DEF OrderInv
    <3>2. CASE j = k + 2 /\ i \in 1 .. k + 1
      <4>1. k + 1 \in 1 .. k + 1 /\ i <= k + 1
        BY <1>1, <3>2
      <4>2. Behind(Pos(i)) + (k + 1 - i) <= Behind(erxwrpt)
        BY <1>7, <3>2, <4>1 DEF OrderInv
      <4>3. Behind(Pos(i))' = Behind(Pos(i)) /\ Behind(Pos(j))' = Behind(next)
        BY <1>1, <1>4, <1>5, <3>2 DEF Behind
      <4> QED
        BY <1>1, <1>3, <1>6, <3>2, <4>2, <4>3
    <3>3. CASE i = k + 2 /\ j = k + 2
      <4>1. Behind(Pos(j))' = Behind(next)
        BY <1>1, <1>5, <3>3 DEF Behind
      <4> QED
        BY <1>1, <1>3, <3>3, <4>1
    <3> QED
      BY <1>1, <2>2, <3>1, <3>2, <3>3
  <2>3. erxwrpt' % 2 = 0
    BY <1>3
  <2> QED
    BY <1>1, <1>2, <2>1, <2>2, <2>3 DEF OrderInv
<1>13. CellInv'
  <2> SUFFICES ASSUME NEW i \in 1 .. k + 1, NEW a \in Addr,
                      Behind(starts[i])' <= Distance(erxrdpt', a),
                      Distance(erxrdpt', a) < Behind(Pos(i + 1))'
               PROVE  mem'[a] = [pkt |-> FrameAt(starts[i])', next |-> Pos(i + 1)',
                                 off |-> Distance(erxrdpt', a) - Behind(starts[i])']
    BY <1>2 DEF CellInv, Behind
  <2>1. Distance(erxrdpt', a) = Behind(a) /\ Behind(a) \in 0 .. RxEnd
    BY <1>1, DistanceType DEF Behind
  <2>2. CASE i \in 1 .. k
    <3>1. Behind(starts[i])' = Behind(starts[i]) /\ Pos(i + 1)' = Pos(i + 1)
          /\ Behind(Pos(i + 1))' = Behind(Pos(i + 1))
      BY <1>1, <1>2, <1>4, <2>2 DEF Behind
    <3>2. Behind(a) < Behind(erxwrpt)
      <4>1. i + 1 \in 1 .. k + 1
        BY <1>1, <2>2
      <4> QED
        BY <1>3, <1>6, <2>1, <3>1, <4>1
    <3>3. mem'[a] = mem[a]
      BY <1>8, <3>2
    <3>4. mem[a] = [pkt |-> FrameAt(starts[i]), next |-> Pos(i + 1),
                    off |-> Behind(a) - Behind(starts[i])]
      BY <1>1, <2>1, <2>2, <3>1 DEF CellInv
    <3> QED
      BY <1>10, <2>1, <2>2, <3>1, <3>3, <3>4
  <2>3. CASE i = k + 1
    <3>1. /\ Behind(starts[i])' = Behind(erxwrpt) /\ Pos(i + 1)' = next
          /\ Behind(Pos(i + 1))' = Behind(next) /\ FrameAt(starts[i])' = p
      <4>0. i + 1 \in Nat /\ i + 1 > k + 1
        BY <1>1, <2>3
      <4> QED
        BY <1>2, <1>5, <1>11, <2>3, <4>0 DEF Behind, FrameAt
    <3> QED
      BY <1>9, <2>1, <3>1
  <2> QED
    BY <1>1, <2>2, <2>3
<1> QED
  BY <1>4, <1>10, <1>11, <1>12, <1>13

-----------------------------------------------------------------------------
(* The driver.                                                             *)

\* When the first frame is taken the others are where and what they were.
LEMMA TakenOrder ==
  ASSUME TypeOK, OrderInv, CellInv, starts # <<>>,
         UNCHANGED <<mem, erxwrpt, erxrdpt>>, starts' = Tail(starts)
  PROVE  /\ OrderInv' /\ CellInv'
         /\ Len(starts') = Len(starts) - 1
         /\ \A i \in 1 .. Len(starts) : Pos(i)' = Pos(i + 1)
         /\ \A i \in 1 .. Len(starts) - 1 :
              FrameAt(starts[i])' = FrameAt(starts[i + 1])
<1> DEFINE k == Len(starts)
<1>1. k \in Nat /\ k >= 1 /\ DOMAIN starts = 1 .. k /\ starts \in Seq(Addr)
  BY DEF TypeOK
<1>2. /\ Len(starts') = k - 1 /\ DOMAIN starts' = 1 .. k - 1
      /\ \A i \in 1 .. k - 1 : starts'[i] = starts[i + 1]
  BY <1>1
<1>3. \A i \in 1 .. k : Pos(i)' = Pos(i + 1)
  BY <1>1, <1>2 DEF Pos
<1>4. \A i \in 1 .. k - 1 : FrameAt(starts[i])' = FrameAt(starts[i + 1])
  BY <1>1, <1>2 DEF FrameAt
<1>5. \A a : Distance(erxrdpt', a) = Distance(erxrdpt, a)
  OBVIOUS
<1>6. ASSUME NEW i \in 1 .. k - 1
      PROVE  /\ i + 1 \in DOMAIN starts /\ i + 1 \in 1 .. k /\ i \in 1 .. k
             /\ Behind(starts[i])' = Behind(starts[i + 1])
             /\ Behind(Pos(i + 1))' = Behind(Pos(i + 1 + 1))
             /\ Pos(i + 1)' = Pos(i + 1 + 1)
  BY <1>1, <1>2, <1>3 DEF Behind
<1>7. OrderInv'
  <2>1. ASSUME NEW i \in 1 .. k - 1
        PROVE  /\ starts'[i] % 2 = 0
               /\ FrameAt(starts[i])' \in Packet
               /\ Behind(starts[i])' + Room(FrameAt(starts[i]).len)' = Behind(Pos(i + 1))'
    BY <1>2, <1>4, <1>6 DEF OrderInv
  <2>2. ASSUME NEW i \in 1 .. k, NEW j \in 1 .. k, i <= j
        PROVE  Behind(Pos(i))' + (j - i) <= Behind(Pos(j))'
    <3>1. Behind(Pos(i))' = Behind(Pos(i + 1)) /\ Behind(Pos(j))' = Behind(Pos(j + 1))
      BY <1>3 DEF Behind
    <3>2. i + 1 \in 1 .. k + 1 /\ j + 1 \in 1 .. k + 1 /\ i + 1 <= j + 1
          /\ (j + 1) - (i + 1) = j - i
      BY <1>1, <2>2
    <3>3. Behind(Pos(i + 1)) + ((j + 1) - (i + 1)) <= Behind(Pos(j + 1))
      BY <3>2 DEF OrderInv
    <3> QED
      BY <3>1, <3>2, <3>3
  <2>3. erxwrpt' % 2 = 0 /\ k - 1 + 1 = k
    BY <1>1 DEF OrderInv
  <2> QED
    BY <1>2, <2>1, <2>2, <2>3 DEF OrderInv
<1>8. CellInv'
  <2> SUFFICES ASSUME NEW i \in 1 .. k - 1, NEW a \in Addr,
                      Behind(starts[i])' <= Distance(erxrdpt', a),
                      Distance(erxrdpt', a) < Behind(Pos(i + 1))'
               PROVE  mem'[a] = [pkt |-> FrameAt(starts[i])', next |-> Pos(i + 1)',
                                 off |-> Distance(erxrdpt', a) - Behind(starts[i])']
    BY <1>2 DEF CellInv, Behind
  <2>1. /\ Behind(starts[i + 1]) <= Behind(a) /\ Behind(a) < Behind(Pos(i + 1 + 1))
    BY <1>6 DEF Behind
  <2>2. mem[a] = [pkt |-> FrameAt(starts[i + 1]), next |-> Pos(i + 1 + 1),
                  off |-> Behind(a) - Behind(starts[i + 1])]
    BY <1>6, <2>1 DEF CellInv
  <2> QED
    BY <1>4, <1>6, <2>2 DEF Behind
<1> QED
  BY <1>2, <1>3, <1>4, <1>7, <1>8

\* Moving ERXRDPT to the first frame that is left gives the chip no cell of it
\* or of those after it.
LEMMA FreedOrder ==
  ASSUME TypeOK, OrderInv, CellInv, ptrAddr = Pos(1),
         erxrdpt' = ErxrdptFor(ptrAddr), UNCHANGED <<erxwrpt, starts>>,
         mem' = [a \in Addr |->
                   IF a \in Cells(erxwrpt, ErxrdptFor(ptrAddr)) THEN Junk ELSE mem[a]]
  PROVE  /\ OrderInv' /\ CellInv' /\ Behind(Pos(1))' = 1
         /\ \A i \in DOMAIN starts : FrameAt(starts[i])' = FrameAt(starts[i])
<1> DEFINE k == Len(starts)
           r == ErxrdptFor(ptrAddr)
           b == Behind(Pos(1))
<1>1. k \in Nat /\ DOMAIN starts = 1 .. k /\ starts \in Seq(Addr)
      /\ erxrdpt \in Addr /\ erxwrpt \in Addr
  BY DEF TypeOK
<1>2. 1 \in 1 .. k + 1 /\ k + 1 \in 1 .. k + 1
  BY <1>1
<1>3. ptrAddr \in Addr /\ ptrAddr % 2 = 0 /\ b \in 1 .. RxEnd /\ b <= Behind(erxwrpt)
      /\ Pos(k + 1) = erxwrpt
  BY <1>2, PosFacts
<1>4. r \in Addr
  BY <1>3, ErxrdptType
<1>5. \A i : Pos(i)' = Pos(i)
  BY DEF Pos
<1>6. \A a \in Addr : Behind(a) \in 0 .. RxEnd
  BY <1>1, DistanceType DEF Behind
<1>7. \A a \in Addr : Distance(r, a) = IF Behind(a) + 1 >= b THEN Behind(a) + 1 - b
                                       ELSE Behind(a) + 1 - b + (RxEnd + 1)
  <2>1. Distance(erxrdpt, ptrAddr) >= 1 /\ b = Distance(erxrdpt, ptrAddr)
    BY <1>3 DEF Behind
  <2> QED
    BY <1>1, <1>3, <2>1, ErxrdptShift DEF Behind
<1>8. Distance(r, erxwrpt) = Behind(erxwrpt) + 1 - b
  BY <1>1, <1>3, <1>6, <1>7
<1>9. ASSUME NEW i \in 1 .. k + 1
      PROVE  /\ Pos(i) \in Addr /\ Behind(Pos(i)) \in 1 .. RxEnd
             /\ Behind(Pos(i)) >= b
             /\ Behind(Pos(i)) <= Behind(erxwrpt)
             /\ Behind(Pos(i))' = Behind(Pos(i)) + 1 - b
  <2>1. Pos(i) \in Addr /\ Behind(Pos(i)) \in 1 .. RxEnd /\ Behind(Pos(i)) <= Behind(erxwrpt)
    BY PosFacts
  <2>2. b + (i - 1) <= Behind(Pos(i))
    BY <1>2 DEF OrderInv
  <2>3. Behind(Pos(i)) >= b
    BY <1>3, <2>1, <2>2
  <2>4. Behind(Pos(i))' = Distance(r, Pos(i))
    BY <1>5 DEF Behind
  <2>5. Distance(r, Pos(i)) = Behind(Pos(i)) + 1 - b
    BY <1>3, <1>7, <2>1, <2>3
  <2> QED
    BY <2>1, <2>3, <2>4, <2>5
<1>10. ASSUME NEW a \in Addr, b <= Behind(a), Behind(a) < Behind(erxwrpt)
       PROVE  mem'[a] = mem[a]
  <2>1. Distance(erxwrpt, a) = Behind(a) - Behind(erxwrpt) + (RxEnd + 1)
    BY <1>1, <1>6, <1>10, DistanceFrom DEF Behind
  <2>2. Distance(r, r) = 0
    BY <1>4, DistanceType
  <2>3. Distance(r, erxwrpt) > 0
    BY <1>3, <1>6, <1>8, <1>1
  <2>4. Distance(erxwrpt, r) = 0 - Distance(r, erxwrpt) + (RxEnd + 1)
    <3>1. ~(Distance(r, erxwrpt) <= Distance(r, r))
      BY <1>1, <1>3, <1>6, <1>8, <2>2, <2>3
    <3> HIDE DEF r
    <3> QED
      BY <1>1, <1>4, <2>2, <3>1, DistanceFrom
  <2>5. ~(Distance(erxwrpt, a) < Distance(erxwrpt, r))
    BY <1>1, <1>3, <1>6, <1>8, <1>10, <2>1, <2>4, RingSizes
  <2>6. a \notin Cells(erxwrpt, r)
    BY <2>5 DEF Cells
  <2> QED
    BY <2>6
<1>11. ASSUME NEW i \in 1 .. k
       PROVE  /\ starts[i] = Pos(i) /\ i \in 1 .. k + 1 /\ i + 1 \in 1 .. k + 1
              /\ FrameAt(starts[i]) \in Packet /\ starts[i] % 2 = 0
              /\ Behind(starts[i]) + Room(FrameAt(starts[i]).len) = Behind(Pos(i + 1))
              /\ Room(FrameAt(starts[i]).len) \in Nat
              /\ FrameAt(starts[i])' = FrameAt(starts[i])
  <2>1. starts[i] = Pos(i) /\ i \in 1 .. k + 1 /\ i + 1 \in 1 .. k + 1
    BY <1>1 DEF Pos
  <2>2. /\ FrameAt(starts[i]) \in Packet /\ starts[i] % 2 = 0
        /\ Behind(starts[i]) + Room(FrameAt(starts[i]).len) = Behind(Pos(i + 1))
    BY <1>1 DEF OrderInv
  <2>3. Room(FrameAt(starts[i]).len) \in Nat /\ Room(FrameAt(starts[i]).len) >= 2
    BY <2>2, RoomType DEF Packet
  <2>4. Behind(starts[i]) < Behind(erxwrpt) /\ b <= Behind(starts[i])
    <3>1. /\ Behind(starts[i]) >= b /\ Behind(starts[i]) \in 1 .. RxEnd
          /\ Behind(Pos(i + 1)) <= Behind(erxwrpt) /\ Behind(erxwrpt) \in 0 .. RxEnd
      BY <1>1, <1>6, <1>9, <2>1
    <3> HIDE DEF b
    <3> QED
      BY <1>3, <2>2, <2>3, <3>1
  <2>5. mem'[starts[i]] = mem[starts[i]]
    BY <1>9, <1>10, <2>1, <2>4
  <2> QED
    BY <2>1, <2>2, <2>3, <2>5 DEF FrameAt
<1>12. OrderInv'
  <2>1. ASSUME NEW i \in 1 .. k
        PROVE  /\ starts'[i] % 2 = 0
               /\ FrameAt(starts[i])' \in Packet
               /\ Behind(starts[i])' + Room(FrameAt(starts[i]).len)' = Behind(Pos(i + 1))'
    <3>1. Behind(starts[i])' = Behind(starts[i]) + 1 - b
      <4>1. Behind(starts[i])' = Behind(Pos(i))'
        BY <1>5, <1>11 DEF Behind
      <4> QED
        BY <1>9, <1>11, <4>1
    <3>2. Behind(Pos(i + 1))' = Behind(Pos(i + 1)) + 1 - b
      BY <1>9, <1>11
    <3>3. Behind(starts[i]) \in Int /\ b \in Int
      BY <1>3, <1>9, <1>11
    <3>4. Room(FrameAt(starts[i]).len)' = Room(FrameAt(starts[i]).len)
      BY <1>11
    <3>5. /\ Behind(starts[i]) + Room(FrameAt(starts[i]).len) = Behind(Pos(i + 1))
          /\ Room(FrameAt(starts[i]).len) \in Int
      BY <1>11
    <3> HIDE DEF b
    <3>6. Behind(starts[i])' + Room(FrameAt(starts[i]).len)' = Behind(Pos(i + 1))'
      BY <3>1, <3>2, <3>3, <3>4, <3>5
    <3> QED
      BY <1>11, <3>6
  <2>2. ASSUME NEW i \in 1 .. k + 1, NEW j \in 1 .. k + 1, i <= j
        PROVE  Behind(Pos(i))' + (j - i) <= Behind(Pos(j))'
    <3>1. Behind(Pos(i)) + (j - i) <= Behind(Pos(j))
      BY <2>2 DEF OrderInv
    <3> QED
      BY <1>1, <1>3, <1>9, <3>1
  <2>3. erxwrpt' % 2 = 0
    BY DEF OrderInv
  <2> QED
    BY <1>1, <2>1, <2>2, <2>3 DEF OrderInv
<1>13. CellInv'
  <2> SUFFICES ASSUME NEW i \in 1 .. k, NEW a \in Addr,
                      Behind(starts[i])' <= Distance(erxrdpt', a),
                      Distance(erxrdpt', a) < Behind(Pos(i + 1))'
               PROVE  mem'[a] = [pkt |-> FrameAt(starts[i])', next |-> Pos(i + 1)',
                                 off |-> Distance(erxrdpt', a) - Behind(starts[i])']
    BY <1>1 DEF CellInv, Behind
  <2>1. Behind(starts[i])' = Behind(starts[i]) + 1 - b
    <3>1. Behind(starts[i])' = Behind(Pos(i))'
      BY <1>5, <1>11 DEF Behind
    <3> QED
      BY <1>9, <1>11, <3>1
  <2>2. Behind(Pos(i + 1))' = Behind(Pos(i + 1)) + 1 - b
    BY <1>9, <1>11
  <2>3. /\ Behind(starts[i]) \in 1 .. RxEnd /\ Behind(starts[i]) >= b
        /\ Behind(Pos(i + 1)) \in 1 .. RxEnd /\ Behind(Pos(i + 1)) <= Behind(erxwrpt)
        /\ b \in 1 .. RxEnd /\ Behind(a) \in 0 .. RxEnd
        /\ Behind(erxwrpt) \in 0 .. RxEnd
    BY <1>1, <1>3, <1>6, <1>9, <1>11
  <2>4. Distance(erxrdpt', a) = Distance(r, a)
    OBVIOUS
  <2>5. Distance(r, a) = Behind(a) + 1 - b /\ Behind(a) >= b
    <3>1. Distance(r, a) >= 1 /\ Distance(r, a) < Behind(Pos(i + 1)) + 1 - b
      BY <2>1, <2>2, <2>3, <2>4, <1>4, DistanceType
    <3>2. Distance(r, a) = IF Behind(a) + 1 >= b THEN Behind(a) + 1 - b
                           ELSE Behind(a) + 1 - b + (RxEnd + 1)
      BY <1>7
    <3> HIDE DEF b, r
    <3> QED
      <4>1. RxEnd \in Nat
        BY RingSizes
      <4>2. CASE Behind(a) + 1 >= b
        <5>1. Distance(r, a) = Behind(a) + 1 - b
          BY <3>2, <4>2
        <5> QED
          BY ONLY <2>3, <3>1, <4>1, <5>1
      <4>3. CASE ~(Behind(a) + 1 >= b)
        <5>1. Distance(r, a) = Behind(a) + 1 - b + (RxEnd + 1)
          BY <3>2, <4>3
        <5> QED
          BY ONLY <2>3, <3>1, <4>1, <5>1
      <4> QED
        BY ONLY <4>2, <4>3
  <2>6. /\ Behind(starts[i]) <= Behind(a) /\ Behind(a) < Behind(Pos(i + 1))
        /\ Behind(a) < Behind(erxwrpt)
    BY <2>1, <2>2, <2>3, <2>4, <2>5
  <2>7. mem'[a] = mem[a]
    BY <1>10, <2>5, <2>6
  <2>8. mem[a] = [pkt |-> FrameAt(starts[i]), next |-> Pos(i + 1),
                  off |-> Behind(a) - Behind(starts[i])]
    BY <1>1, <2>6 DEF CellInv
  <2>9. Distance(erxrdpt', a) - Behind(starts[i])' = Behind(a) - Behind(starts[i])
    BY <2>1, <2>3, <2>4, <2>5
  <2> QED
    BY <1>5, <1>11, <2>7, <2>8, <2>9
<1>14. Behind(Pos(1))' = 1
  BY <1>2, <1>3, <1>9
<1> QED
  BY <1>1, <1>11, <1>12, <1>13, <1>14

-----------------------------------------------------------------------------
(* The invariant.                                                          *)

\* There are fewer frames than cells.
LEMMA LenBound ==
  ASSUME TypeOK, OrderInv
  PROVE  Len(starts) \in Nat /\ Len(starts) + 1 <= Behind(erxwrpt)
<1>1. Len(starts) \in Nat
  BY DEF TypeOK
<1>2. 1 \in 1 .. Len(starts) + 1 /\ Len(starts) + 1 \in 1 .. Len(starts) + 1
      /\ 1 <= Len(starts) + 1
  BY <1>1
<1>3. Behind(Pos(1)) \in 1 .. RxEnd /\ Pos(Len(starts) + 1) = erxwrpt
  BY <1>2, PosFacts
<1>4. Behind(Pos(1)) + (Len(starts) + 1 - 1) <= Behind(Pos(Len(starts) + 1))
  BY <1>2 DEF OrderInv
<1>5. Behind(erxwrpt) \in Int
  BY DistanceType, RingSizes DEF Behind, TypeOK
<1> QED
  BY <1>1, <1>3, <1>4, <1>5

\* What the frames are does not depend on the driver's variables.
LEMMA OrderKept ==
  ASSUME OrderInv, CellInv, UNCHANGED <<mem, erxwrpt, erxrdpt, starts>>
  PROVE  OrderInv' /\ CellInv' /\ (\A i : Pos(i)' = Pos(i))
         /\ Behind(Pos(1))' = Behind(Pos(1))
<1>1. \A i : Pos(i)' = Pos(i)
  BY DEF Pos
<1>2. OrderInv'
  BY <1>1 DEF OrderInv, Behind, FrameAt
<1>3. CellInv'
  BY <1>1 DEF CellInv, Behind, FrameAt
<1> QED
  BY <1>1, <1>2, <1>3 DEF Behind

\* What enc28j60_strtDr programs satisfies the invariant.
LEMMA InitInv == Init => IInv
<1> SUFFICES ASSUME Init PROVE IInv
  OBVIOUS
<1>1. Len(starts) = 0 /\ DOMAIN starts = {} /\ starts \in Seq(Addr)
  BY DEF Init
<1>2. TypeOK
  BY <1>1, RingSizes DEF Init, TypeOK, Addr
<1>3. Pos(1) = 0 /\ Behind(Pos(1)) = 1
  BY <1>1, RingSizes DEF Init, Pos, Behind, Distance
<1>4. OrderInv
  BY <1>1, <1>3 DEF Init, OrderInv
<1>5. CellInv
  BY <1>1 DEF CellInv
<1>6. DriverInv
  BY <1>1, <1>3 DEF Init, DriverInv, Unread
<1> QED
  BY <1>2, <1>4, <1>5, <1>6 DEF IInv

\* The chip's step preserves it.
LEMMA ChipReceiveInv == IInv /\ ChipReceive => IInv'
<1> SUFFICES ASSUME IInv, ChipReceive PROVE IInv'
  OBVIOUS
<1>0. TypeOK /\ OrderInv /\ CellInv /\ DriverInv
  BY DEF IInv
<1>1. PICK p \in Packet :
        /\ Room(p.len) <= Distance(erxwrpt, erxrdpt)
        /\ mem' = Stored(p, Wrap(erxwrpt + Room(p.len)))
        /\ erxwrpt' = Wrap(erxwrpt + Room(p.len))
  BY DEF ChipReceive
<1>2. /\ pktcnt' = pktcnt + 1 /\ starts' = Append(starts, erxwrpt)
      /\ UNCHANGED <<erxrdpt, erdpt, ptrAddr, pktLen, data, pc>>
  BY DEF ChipReceive
<1>3. /\ OrderInv' /\ CellInv'
      /\ \A i \in 1 .. Len(starts) + 1 : Pos(i)' = Pos(i)
      /\ \A i \in 1 .. Len(starts) : FrameAt(starts[i])' = FrameAt(starts[i])
  BY <1>0, <1>1, <1>2, ChipReceiveOrder
<1>4. /\ erxwrpt' \in Addr /\ Behind(erxwrpt) \in 1 .. RxEnd
      /\ Behind(erxwrpt) + Room(p.len) \in 1 .. RxEnd
      /\ Room(p.len) \in Nat /\ Room(p.len) >= 2
  BY <1>0, <1>1, AcceptedFits
<1>5. Len(starts) \in Nat /\ Len(starts) + 1 <= Behind(erxwrpt)
  BY <1>0, LenBound
<1>6. Len(starts') = Len(starts) + 1 /\ starts' \in Seq(Addr)
  BY <1>0, <1>2 DEF TypeOK
<1>7. pktcnt' \in 0 .. RxEnd + 1
  BY <1>0, <1>2, <1>4, <1>5, RingSizes DEF DriverInv, Unread, TypeOK
<1>8. TypeOK'
  BY <1>0, <1>2, <1>4, <1>6, <1>7 DEF TypeOK
<1>9. DriverInv'
  <2>1. Len(starts') = Unread'
    BY <1>0, <1>2, <1>6 DEF DriverInv, Unread, TypeOK
  <2>2. Pos(1)' = Pos(1) /\ Behind(Pos(1))' = Behind(Pos(1))
    BY <1>2, <1>3, <1>5 DEF Behind
  <2>3. starts' # <<>>
    BY <1>5, <1>6
  <2>4. pc = "data" => Pos(2)' = Pos(2) /\ FrameAt(starts[1])' = FrameAt(starts[1])
    <3> SUFFICES ASSUME pc = "data"
                 PROVE  Pos(2)' = Pos(2) /\ FrameAt(starts[1])' = FrameAt(starts[1])
      OBVIOUS
    <3>1. Len(starts) >= 1
      BY <1>0, <1>5 DEF DriverInv, TypeOK
    <3> QED
      BY <1>3, <1>5, <3>1
  <2> QED
    BY <1>0, <1>2, <2>1, <2>2, <2>3, <2>4 DEF DriverInv
<1> QED
  BY <1>3, <1>8, <1>9 DEF IInv

\* The lengths that etherReceive neither copies within its buffer nor refuses
\* do not occur.
NoGap == \A len \in Lens : len <= DataLen \/ len >= RejectLen

\* The steps of etherReceive preserve it.
LEMMA EtherReceiveInv ==
  ASSUME NoGap, IInv, EtherReceive \/ PktDec
  PROVE  IInv'
<1>0. TypeOK /\ OrderInv /\ CellInv /\ DriverInv
  BY DEF IInv
<1>1. CASE SetReadPointer
  <2>1. OrderInv' /\ CellInv' /\ Pos(1)' = Pos(1) /\ Behind(Pos(1))' = Behind(Pos(1))
    BY <1>0, <1>1, OrderKept DEF SetReadPointer
  <2>2. TypeOK'
    BY <1>0, <1>1 DEF SetReadPointer, TypeOK
  <2>3. starts # <<>>
    BY <1>0, <1>1 DEF SetReadPointer, DriverInv, Unread, TypeOK
  <2>4. DriverInv'
    BY <1>0, <1>1, <2>1, <2>3 DEF SetReadPointer, DriverInv, Unread
  <2> QED
    BY <2>1, <2>2, <2>4 DEF IInv
<1>2. CASE ReadHeader
  <2>1. OrderInv' /\ CellInv' /\ Pos(1)' = Pos(1) /\ Behind(Pos(1))' = Behind(Pos(1))
        /\ Pos(2)' = Pos(2)
    BY <1>0, <1>2, OrderKept DEF ReadHeader
  <2>2. starts # <<>> /\ Len(starts) >= 1 /\ 1 \in DOMAIN starts /\ erdpt = starts[1]
    BY <1>0, <1>2 DEF ReadHeader, DriverInv, TypeOK, Pos
  <2>3. IsFrameStart(starts[1]) /\ NextOf(starts[1]) = Pos(2) /\ FrameAt(starts[1]) \in Packet
    BY <1>0, <2>2, FrameFacts
  <2>4. ptrAddr' = Pos(2) /\ pktLen' = FrameAt(starts[1]).len
    BY <1>2, <2>2, <2>3 DEF ReadHeader
  <2>5. Pos(2) \in Addr
    BY <1>0, <2>2, PosFacts DEF TypeOK
  <2>6. TypeOK'
    BY <1>0, <1>2, <2>3, <2>4, <2>5 DEF ReadHeader, TypeOK, Packet
  <2>7. DriverInv'
    BY <1>0, <1>2, <2>1, <2>2, <2>4 DEF ReadHeader, DriverInv, Unread, FrameAt
  <2> QED
    BY <2>1, <2>6, <2>7 DEF IInv
<1>3. CASE ReadData
  <2>1. starts # <<>> /\ Len(starts) >= 1 /\ 1 \in DOMAIN starts /\ erdpt = starts[1]
        /\ Len(starts) \in Nat
    BY <1>0, <1>3 DEF ReadData, DriverInv, TypeOK, Pos
  <2>2. /\ starts' = Tail(starts) /\ pc' = "free"
        /\ UNCHANGED <<mem, erxwrpt, erxrdpt, pktcnt, erdpt>>
    BY <1>3 DEF ReadData
  <2>3. OrderInv' /\ CellInv' /\ Len(starts') = Len(starts) - 1 /\ Pos(1)' = Pos(1 + 1)
    BY <1>0, <2>1, <2>2, TakenOrder
  <2>4. Whole(starts[1]) /\ FrameAt(starts[1]) \in Packet
    BY <1>0, <2>1, FrameFacts
  <2>5. pktLen = FrameAt(starts[1]).len /\ pktLen \in Lens /\ pktLen \in Nat
    BY <1>0, <1>3, <2>4, RingAssumption DEF ReadData, DriverInv, Packet
  <2>6. ptrAddr' = ptrAddr
    BY <1>3, <2>5, RingAssumption DEF ReadData, NoGap
  <2>7. pktLen' \in Lens \cup {0} /\ data' \in Packet \cup {Nothing}
    BY <1>3, <2>1, <2>4, <2>5 DEF ReadData
  <2>8. starts' \in Seq(Addr)
    BY <1>0, <2>1, <2>2 DEF TypeOK
  <2>9. TypeOK'
    BY <1>0, <2>2, <2>6, <2>7, <2>8 DEF TypeOK
  <2>10. DriverInv'
    BY <1>0, <1>3, <2>1, <2>2, <2>3, <2>6 DEF ReadData, DriverInv, Unread, TypeOK
  <2> QED
    BY <2>3, <2>9, <2>10 DEF IInv
<1>4. CASE FreeSpace
  <2>1. /\ pc = "free" /\ pc' = "dec" /\ erxrdpt' = ErxrdptFor(ptrAddr)
        /\ mem' = [a \in Addr |->
                     IF a \in Cells(erxwrpt, ErxrdptFor(ptrAddr)) THEN Junk ELSE mem[a]]
        /\ UNCHANGED <<erxwrpt, pktcnt, erdpt, ptrAddr, pktLen, data, starts>>
    BY <1>4 DEF FreeSpace
  <2>2. ptrAddr = Pos(1)
    BY <1>0, <2>1 DEF DriverInv
  <2>3. OrderInv' /\ CellInv' /\ Behind(Pos(1))' = 1
    BY <1>0, <2>1, <2>2, FreedOrder
  <2>4. erxrdpt' \in {a \in Addr : a % 2 = 1}
    <3>1. 1 \in 1 .. Len(starts) + 1
      BY <1>0 DEF TypeOK
    <3>2. ptrAddr \in Addr /\ ptrAddr % 2 = 0
      BY <1>0, <2>2, <3>1, PosFacts
    <3> QED
      BY <2>1, <3>2, ErxrdptType
  <2>5. TypeOK'
    BY <1>0, <2>1, <2>4 DEF TypeOK
  <2>6. DriverInv'
    BY <1>0, <2>1, <2>2, <2>3 DEF DriverInv, Unread, Pos
  <2> QED
    BY <2>3, <2>5, <2>6 DEF IInv
<1>5. CASE PktDec
  <2>1. OrderInv' /\ CellInv' /\ Pos(1)' = Pos(1) /\ Behind(Pos(1))' = Behind(Pos(1))
    BY <1>0, <1>5, OrderKept DEF PktDec
  <2>2. pktcnt' \in 0 .. RxEnd + 1
    BY <1>0, <1>5, RingSizes DEF PktDec, DriverInv, Unread, TypeOK
  <2>3. TypeOK'
    BY <1>0, <1>5, <2>2 DEF PktDec, TypeOK
  <2>4. DriverInv'
    BY <1>0, <1>5, <2>1 DEF PktDec, DriverInv, Unread
  <2> QED
    BY <2>1, <2>3, <2>4 DEF IInv
<1> QED
  BY <1>1, <1>2, <1>3, <1>4, <1>5 DEF EtherReceive

\* The inductive step.
LEMMA StepInv ==
  ASSUME NoGap, IInv, [Next]_vars
  PROVE  IInv'
<1>1. CASE Next
  BY <1>1, ChipReceiveInv, EtherReceiveInv DEF Next
<1>2. CASE UNCHANGED vars
  <2>1. UNCHANGED <<mem, erxwrpt, erxrdpt, starts>>
    BY <1>2 DEF vars
  <2>2. OrderInv' /\ CellInv' /\ Pos(1)' = Pos(1) /\ Pos(2)' = Pos(2)
        /\ Behind(Pos(1))' = Behind(Pos(1))
    BY <2>1, OrderKept DEF IInv
  <2>3. TypeOK'
    BY <1>2 DEF IInv, TypeOK, vars
  <2>4. DriverInv'
    BY <1>2, <2>2 DEF IInv, DriverInv, Unread, FrameAt, vars
  <2> QED
    BY <2>2, <2>3, <2>4 DEF IInv
<1> QED
  BY <1>1, <1>2

-----------------------------------------------------------------------------
(* The theorems.                                                           *)

\* The invariant holds for every ring and every interleaving.
THEOREM Invariance ==
  ASSUME NoGap
  PROVE  Spec => []IInv
<1>1. IInv /\ [Next]_vars => IInv'
  BY StepInv
<1> QED
  BY <1>1, InitInv, PTL DEF Spec

\* The driver's and the chip's pointers are addresses of the ring, ERXRDPT is
\* odd and EPKTCNT does not exceed the cells.
THEOREM TypeCorrect ==
  ASSUME NoGap
  PROVE  Spec => []TypeOK
<1>1. IInv => TypeOK
  BY DEF IInv
<1> QED
  BY <1>1, Invariance, PTL

\* The driver never loses the chain of frames: it reads at the oldest, every
\* next pointer leads to the following one and EPKTCNT counts them.
THEOREM ChainInStep ==
  ASSUME NoGap
  PROVE  Spec => []ChainMeetsWritePointer
<1>1. IInv => ChainMeetsWritePointer
  <2> SUFFICES ASSUME IInv PROVE ChainMeetsWritePointer
    OBVIOUS
  <2>1. TypeOK /\ OrderInv /\ CellInv /\ DriverInv
    BY DEF IInv
  <2>2. \A i \in DOMAIN starts :
          IsFrameStart(starts[i]) /\ NextOf(starts[i]) = Pos(i + 1)
    BY <2>1, FrameFacts
  <2>3. ReadPos = Pos(1)
    BY <2>1 DEF DriverInv, ReadPos
  <2> QED
    BY <2>1, <2>2, <2>3 DEF DriverInv, ChainMeetsWritePointer
<1> QED
  BY <1>1, Invariance, PTL

\* The same of the next state.
LEMMA QueueFramesNext == (TypeOK /\ OrderInv /\ CellInv => QueueOfFrames)'
  BY QueueFrames, PTL

\* A frame the chip stores is appended to the queue.
LEMMA ChipArrives ==
  ASSUME IInv, IInv', ChipReceive
  PROVE  Fifo!Arrive
<1>0. TypeOK /\ OrderInv /\ CellInv
  BY DEF IInv
<1>1. PICK p \in Packet :
        /\ Room(p.len) <= Distance(erxwrpt, erxrdpt)
        /\ mem' = Stored(p, Wrap(erxwrpt + Room(p.len)))
        /\ erxwrpt' = Wrap(erxwrpt + Room(p.len))
  BY DEF ChipReceive
<1>2. starts' = Append(starts, erxwrpt) /\ UNCHANGED <<erxrdpt, data>>
  BY DEF ChipReceive
<1>3. /\ \A i \in 1 .. Len(starts) : FrameAt(starts[i])' = FrameAt(starts[i])
      /\ FrameAt(starts[Len(starts)])' = p
  BY <1>0, <1>1, <1>2, ChipReceiveOrder
<1>4. Len(starts) \in Nat /\ Len(starts') = Len(starts) + 1
  BY <1>0, <1>2 DEF TypeOK
<1>5. /\ RingQueue \in Seq(Packet) /\ Len(RingQueue) = Len(starts)
      /\ \A i \in 1 .. Len(starts) : RingQueue[i] = FrameAt(starts[i])
  BY <1>0, QueueFrames DEF QueueOfFrames
<1>6. /\ RingQueue' \in Seq(Packet) /\ Len(RingQueue') = Len(starts')
      /\ \A i \in 1 .. Len(starts') : RingQueue'[i] = FrameAt(starts[i])'
  BY QueueFramesNext DEF IInv, QueueOfFrames
<1> DEFINE q == Append(RingQueue, p)
<1>7. /\ q \in Seq(Packet) /\ Len(q) = Len(starts) + 1
      /\ \A i \in 1 .. Len(starts) : q[i] = RingQueue[i]
      /\ q[Len(starts) + 1] = p
  BY <1>1, <1>5, AppendProperties
<1>8. \A i \in 1 .. Len(RingQueue') : RingQueue'[i] = q[i]
  <2> HIDE DEF q
  <2> SUFFICES ASSUME NEW i \in 1 .. Len(starts) + 1 PROVE RingQueue'[i] = q[i]
    BY <1>4, <1>6
  <2>1. RingQueue'[i] = FrameAt(starts[i])'
    BY <1>4, <1>6
  <2>2. CASE i = Len(starts) + 1
    BY <1>3, <1>4, <1>7, <2>1, <2>2
  <2>3. CASE i \in 1 .. Len(starts)
    BY <1>3, <1>5, <1>7, <2>1, <2>3
  <2> QED
    BY <1>4, <2>2, <2>3
<1>9. RingQueue' = q
  <2> HIDE DEF q
  <2> QED
    BY <1>4, <1>6, <1>7, <1>8, SeqEqual
<1> QED
  BY <1>1, <1>2, <1>9 DEF Fifo!Arrive

\* What etherReceive copies out is the head of the queue, or nothing if it is
\* refused, and the queue loses it.
LEMMA ReadTakes ==
  ASSUME NoGap, IInv, IInv', ReadData
  PROVE  Fifo!Take
<1>0. TypeOK /\ OrderInv /\ CellInv /\ DriverInv
  BY DEF IInv
<1>1. starts # <<>> /\ Len(starts) \in Nat /\ Len(starts) >= 1 /\ 1 \in DOMAIN starts
      /\ erdpt = starts[1] /\ pktLen = FrameAt(starts[1]).len
  BY <1>0 DEF ReadData, DriverInv, TypeOK, Pos
<1>2. starts' = Tail(starts) /\ UNCHANGED <<mem, erxwrpt, erxrdpt>>
  BY DEF ReadData
<1>3. /\ Len(starts') = Len(starts) - 1
      /\ \A i \in 1 .. Len(starts) - 1 : FrameAt(starts[i])' = FrameAt(starts[i + 1])
  BY <1>0, <1>1, <1>2, TakenOrder
<1>4. /\ RingQueue \in Seq(Packet) /\ Len(RingQueue) = Len(starts)
      /\ \A i \in 1 .. Len(starts) : RingQueue[i] = FrameAt(starts[i])
  BY <1>0, QueueFrames DEF QueueOfFrames
<1>5. /\ RingQueue' \in Seq(Packet) /\ Len(RingQueue') = Len(starts')
      /\ \A i \in 1 .. Len(starts') : RingQueue'[i] = FrameAt(starts[i])'
  BY QueueFramesNext DEF IInv, QueueOfFrames
<1>6. RingQueue # <<>> /\ Head(RingQueue) = FrameAt(starts[1])
  BY <1>1, <1>4
<1> DEFINE t == Tail(RingQueue)
<1>7. /\ t \in Seq(Packet) /\ Len(t) = Len(starts) - 1
      /\ \A i \in 1 .. Len(starts) - 1 : t[i] = RingQueue[i + 1]
  BY <1>4, <1>6, HeadTailProperties
<1>8. RingQueue' = t
  <2> HIDE DEF t
  <2>1. ASSUME NEW i \in 1 .. Len(starts) - 1 PROVE RingQueue'[i] = t[i]
    <3>1. i + 1 \in 1 .. Len(starts) /\ i \in 1 .. Len(starts')
      BY <1>1, <1>3
    <3>2. RingQueue'[i] = FrameAt(starts[i])' /\ t[i] = RingQueue[i + 1]
      BY <1>5, <1>7, <3>1
    <3>3. RingQueue[i + 1] = FrameAt(starts[i + 1])
      BY <1>4, <3>1
    <3> QED
      BY <1>3, <3>2, <3>3
  <2> QED
    BY <1>3, <1>5, <1>7, <2>1, SeqEqual
<1>9. Whole(starts[1])
  BY <1>0, <1>1, FrameFacts
<1>10. data' = IF Head(RingQueue).len >= RejectLen THEN Nothing ELSE Head(RingQueue)
  BY <1>1, <1>6, <1>9 DEF ReadData
<1> QED
  BY <1>6, <1>8, <1>10 DEF Fifo!Take

\* No other step of the driver changes the queue or the frame handed over.
LEMMA QueueKept ==
  ASSUME IInv, IInv', UNCHANGED <<starts, data>>,
         \A i \in DOMAIN starts : FrameAt(starts[i])' = FrameAt(starts[i])
  PROVE  UNCHANGED <<RingQueue, data>>
<1>1. /\ RingQueue \in Seq(Packet) /\ Len(RingQueue) = Len(starts)
      /\ \A i \in 1 .. Len(starts) : RingQueue[i] = FrameAt(starts[i])
  BY QueueFrames DEF IInv, QueueOfFrames
<1>2. /\ RingQueue' \in Seq(Packet) /\ Len(RingQueue') = Len(starts')
      /\ \A i \in 1 .. Len(starts') : RingQueue'[i] = FrameAt(starts[i])'
  BY QueueFramesNext DEF IInv, QueueOfFrames
<1>3. DOMAIN starts = 1 .. Len(starts)
  BY DEF IInv, TypeOK
<1>4. \A i \in 1 .. Len(RingQueue') : RingQueue'[i] = RingQueue[i]
  BY <1>1, <1>2, <1>3
<1>5. RingQueue' = RingQueue
  BY <1>1, <1>2, <1>4, SeqEqual
<1> QED
  BY <1>5

\* The ring implements the queue of frames: for every ring and every
\* interleaving of the chip with etherReceive, frames come out whole, each
\* once and in the order in which the chip accepted them.
THEOREM ImplementsFifo ==
  ASSUME NoGap
  PROVE  Spec => RefinesFifo
<1>1. Init => Fifo!Init
  <2> SUFFICES ASSUME Init PROVE Fifo!Init
    OBVIOUS
  <2>1. /\ RingQueue \in Seq(Packet) /\ Len(RingQueue) = Len(starts)
    BY InitInv, QueueFrames DEF IInv, QueueOfFrames
  <2>2. Len(starts) = 0 /\ data = Nothing
    BY DEF Init
  <2>3. RingQueue = <<>>
    BY <2>1, <2>2, EmptySeq
  <2> QED
    BY <2>2, <2>3 DEF Fifo!Init
<1>2. IInv /\ IInv' /\ [Next]_vars => [Fifo!Next]_(Fifo!vars)
  <2> SUFFICES ASSUME IInv, IInv', [Next]_vars
               PROVE  Fifo!Next \/ UNCHANGED <<RingQueue, data>>
    BY DEF Fifo!vars
  <2>1. CASE ChipReceive
    BY <2>1, ChipArrives DEF Fifo!Next
  <2>2. CASE ReadData
    BY <2>2, ReadTakes DEF Fifo!Next
  <2>3. CASE FreeSpace
    <3>1. TypeOK /\ OrderInv /\ CellInv /\ ptrAddr = Pos(1)
      BY <2>3 DEF IInv, DriverInv, FreeSpace
    <3>2. \A i \in DOMAIN starts : FrameAt(starts[i])' = FrameAt(starts[i])
      BY <2>3, <3>1, FreedOrder DEF FreeSpace
    <3> QED
      BY <2>3, <3>2, QueueKept DEF FreeSpace
  <2>4. CASE SetReadPointer \/ ReadHeader \/ PktDec \/ UNCHANGED vars
    <3>1. UNCHANGED <<mem, starts, data>>
      BY <2>4 DEF SetReadPointer, ReadHeader, PktDec, vars
    <3> QED
      BY <3>1, QueueKept DEF FrameAt
  <2> QED
    BY <2>1, <2>2, <2>3, <2>4 DEF Next, EtherReceive
<1> QED
  BY <1>1, <1>2, Invariance, PTL DEF Spec, RefinesFifo, Fifo!Spec
=============================================================================
