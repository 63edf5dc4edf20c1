------------------------------- MODULE RxRing -------------------------------
(***************************************************************************)
(* The receive buffer: the chip writes frames into a ring of its memory,   *)
(* each behind a header with the address of the next one, and              *)
(* enc28j60_etherReceive (enc28j60_driver/Src/enc28j60_hwd.c) follows      *)
(* those addresses, frees what it has read by moving ERXRDPT, and counts   *)
(* the packet down.  Chip and driver run at the same time.                 *)
(*                                                                         *)
(* A memory cell holds its place in a frame, not a byte.  The chip writes  *)
(* frames that it may abort half way, so a cell it is allowed to write     *)
(* holds Junk: reading one is never right.                                 *)
(***************************************************************************)
EXTENDS Naturals, Sequences

CONSTANTS
  RxEnd,       \* rxBufEndAddr, odd; the ring is 0 .. RxEnd
  Header,      \* bytes of next pointer and status vector, even
  Payloads,    \* what tells two frames of one length apart
  Lens,        \* the frame lengths on the wire
  DataLen,     \* the size of dev->rxPkt.data
  RejectLen,   \* the length from which etherReceive refuses a frame
  Nothing, Junk

ASSUME RingAssumption ==
  /\ RxEnd \in Nat /\ RxEnd % 2 = 1
  /\ Header \in Nat \ {0} /\ Header % 2 = 0
  /\ Lens \subseteq Nat
  /\ DataLen \in Nat /\ RejectLen \in Nat

\* A cell of a frame can be told from one that the chip may be writing
ASSUME JunkAssumption ==
  Junk \notin [pkt : [len : Lens, payload : Payloads], next : 0 .. RxEnd,
               off : 0 .. RxEnd]

VARIABLES
  mem,         \* the ring's cells
  erxwrpt,     \* ERXWRPT, where the chip puts the next frame
  erxrdpt,     \* ERXRDPT, the cell the chip may not write
  pktcnt,      \* EPKTCNT
  erdpt,       \* the address last written to ERDPT
  ptrAddr,     \* dev->rxPkt.ptrAddr, where the next frame begins
  pktLen,      \* dev->rxPkt.rxPktLen
  data,        \* dev->rxPkt.data: the frame handed to lwIP, or Nothing
  pc,
  starts       \* ghost: where the frames begin that are stored and not taken

vars == <<mem, erxwrpt, erxrdpt, pktcnt, erdpt, ptrAddr, pktLen, data, pc, starts>>

-----------------------------------------------------------------------------
Addr == 0 .. RxEnd
Packet == [len : Lens, payload : Payloads]

\* Addresses wrap from the end of the ring to its start
Wrap(a) == IF a > RxEnd THEN a - (RxEnd + 1) ELSE a
Distance(from, to) == IF to >= from THEN to - from ELSE to + (RxEnd + 1) - from

\* The cells from `from' up to, but not including, `to'
Cells(from, to) == {a \in Addr : Distance(from, a) < Distance(from, to)}

\* The chip starts every frame at an even address
Room(len) == Header + len + (len % 2)

\* The ring after the chip has stored frame p at its write pointer
Stored(p, next) ==
  [a \in Addr |->
     IF a \in Cells(erxwrpt, next)
     THEN [pkt |-> p, next |-> next, off |-> Distance(erxwrpt, a)]
     ELSE mem[a]]

\* The frame that begins at address a
FrameAt(a) == mem[a].pkt
NextOf(a) == mem[a].next
IsFrameStart(a) == mem[a] # Junk /\ mem[a].off = 0
Whole(a) ==
  /\ IsFrameStart(a)
  /\ \A i \in 0 .. Header + FrameAt(a).len - 1 :
       LET c == mem[Wrap(a + i)]
       IN  c # Junk /\ c.off = i /\ c.pkt = FrameAt(a)

-----------------------------------------------------------------------------
\* What enc28j60_strtDr programs
Init ==
  /\ mem = [a \in Addr |-> Junk]
  /\ erxwrpt = 0
  /\ erxrdpt = RxEnd
  /\ pktcnt = 0
  /\ erdpt = 0
  /\ ptrAddr = 0
  /\ pktLen = 0
  /\ data = Nothing
  /\ pc = "idle"
  /\ starts = <<>>

\* The chip accepts a frame that fits below ERXRDPT; any other is lost
ChipReceive ==
  /\ \E p \in Packet :
       LET next == Wrap(erxwrpt + Room(p.len))
       IN  /\ Room(p.len) <= Distance(erxwrpt, erxrdpt)
           /\ mem' = Stored(p, next)
           /\ erxwrpt' = next
  /\ pktcnt' = pktcnt + 1
  /\ starts' = Append(starts, erxwrpt)
  /\ UNCHANGED <<erxrdpt, erdpt, ptrAddr, pktLen, data, pc>>

\* etherReceive, from main's service of PKTIF: point ERDPT at the frame
SetReadPointer ==
  /\ pc = "idle" /\ pktcnt > 0
  /\ erdpt' = ptrAddr
  /\ pc' = "header"
  /\ UNCHANGED <<mem, erxwrpt, erxrdpt, pktcnt, ptrAddr, pktLen, data, starts>>

\* Mutant: a frame that will be refused does not move the saved pointer
ReadHeaderIfAccepted ==
  /\ pc = "header"
  /\ IF IsFrameStart(erdpt)
     THEN /\ ptrAddr' = IF FrameAt(erdpt).len >= RejectLen THEN ptrAddr
                                                           ELSE NextOf(erdpt)
          /\ pktLen' = FrameAt(erdpt).len
     ELSE ptrAddr' \in Addr /\ pktLen' \in Lens
  /\ pc' = "data"
  /\ UNCHANGED <<mem, erxwrpt, erxrdpt, pktcnt, erdpt, data, starts>>

\* Read the next pointer and the length.  A pointer made of junk is any
\* address and any length.
ReadHeader ==
  /\ pc = "header"
  /\ IF IsFrameStart(erdpt)
     THEN ptrAddr' = NextOf(erdpt) /\ pktLen' = FrameAt(erdpt).len
     ELSE ptrAddr' \in Addr /\ pktLen' \in Lens
  /\ pc' = "data"
  /\ UNCHANGED <<mem, erxwrpt, erxrdpt, pktcnt, erdpt, data, starts>>

\* The length check, and the copy into data[DataLen].  A copy that is longer
\* runs into ptrAddr, the next member of the structure, which then holds
\* whatever the frame does.
ReadData ==
  /\ pc = "data"
  /\ IF pktLen >= RejectLen
     THEN pktLen' = 0 /\ data' = Nothing /\ UNCHANGED ptrAddr
     ELSE /\ data' = IF Whole(erdpt) THEN FrameAt(erdpt) ELSE Nothing
          /\ IF pktLen > DataLen THEN ptrAddr' \in Addr ELSE UNCHANGED ptrAddr
          /\ UNCHANGED pktLen
  /\ pc' = "free"
  /\ starts' = Tail(starts)
  /\ UNCHANGED <<mem, erxwrpt, erxrdpt, pktcnt, erdpt>>

\* Mutants: no case for the start of the ring; beyond the next frame's start
ErxrdptNoWrap(p) == p - 1
ErxrdptTooFar(p) == p + 1

\* The value for ERXRDPT is one before the next frame, by the errata odd
ErxrdptFor(p) == IF p = 0 THEN RxEnd ELSE p - 1

\* Move ERXRDPT: the chip may write the cells up to it from now on
FreeSpace ==
  /\ pc = "free"
  /\ erxrdpt' = ErxrdptFor(ptrAddr)
  /\ mem' = [a \in Addr |->
               IF a \in Cells(erxwrpt, ErxrdptFor(ptrAddr)) THEN Junk
                                                            ELSE mem[a]]
  /\ pc' = "dec"
  /\ UNCHANGED <<erxwrpt, pktcnt, erdpt, ptrAddr, pktLen, data, starts>>

\* enc28j60_clear_interrupt(PKTIF)
PktDec ==
  /\ pc = "dec"
  /\ pktcnt' = pktcnt - 1
  /\ pc' = "idle"
  /\ UNCHANGED <<mem, erxwrpt, erxrdpt, erdpt, ptrAddr, pktLen, data, starts>>

EtherReceive == SetReadPointer \/ ReadHeader \/ ReadData \/ FreeSpace

Next == ChipReceive \/ EtherReceive \/ PktDec

Spec == Init /\ [][Next]_vars

-----------------------------------------------------------------------------
(* The frames in the ring: what the memory holds where the chip has put a  *)
(* frame that the driver has not taken.                                    *)

RingQueue ==
  [i \in DOMAIN starts |->
     IF Whole(starts[i]) THEN FrameAt(starts[i]) ELSE Nothing]

\* Where the i-th of them begins, and behind the last the chip's next frame
Pos(i) == IF i <= Len(starts) THEN starts[i] ELSE erxwrpt

\* Where the driver reads next, and how many frames are counted and not taken
ReadPos == IF pc = "data" THEN erdpt ELSE ptrAddr
Unread == IF pc \in {"free", "dec"} THEN pktcnt - 1 ELSE pktcnt

Fifo == INSTANCE PacketFifo WITH queue <- RingQueue, out <- data

-----------------------------------------------------------------------------
(* Properties.                                                             *)

\* Every pointer the driver or the chip holds is an address of the ring, also
\* where the ring wraps; ERXRDPT is an odd one, which is the "background work
\* requred in Errata Datasheets" of hwd.c:413; and the chip never counts more
\* frames than the ring has room for.
TypeOK ==
  /\ erxwrpt \in Addr /\ erdpt \in Addr /\ ptrAddr \in Addr
  /\ erxrdpt \in {a \in Addr : a % 2 = 1}
  /\ pktcnt \in 0 .. (RxEnd + 1)
  /\ pktLen \in Lens \cup {0}
  /\ data \in Packet \cup {Nothing}
  /\ pc \in {"idle", "header", "data", "free", "dec"}
  /\ starts \in Seq(Addr)

\* The ring implements the queue of frames: for every interleaving of the
\* chip's writes with the steps of etherReceive, what the driver copies out
\* is the oldest unread frame, whole, and nothing is skipped, repeated or
\* overwritten, also across the wrap of the ring.
RefinesFifo == Fifo!Spec

\* Driver and chip never get out of step: the driver reads at the oldest
\* frame, every frame's next pointer in the memory leads to the one after it
\* and the last one's to where the chip writes next, and EPKTCNT counts them.
ChainMeetsWritePointer ==
  /\ ReadPos = Pos(1)
  /\ \A i \in DOMAIN starts :
       IsFrameStart(starts[i]) /\ NextOf(starts[i]) = Pos(i + 1)
  /\ Len(starts) = Unread

\* hwd.c:378 "The next packet pointer is saved, then used in the next
\* interrupt": once etherReceive is done with a frame, the saved pointer is
\* the address that was read from that frame's header.
NextPointerSaved ==
  pc = "free" => (IsFrameStart(erdpt) => ptrAddr = NextOf(erdpt))

-----------------------------------------------------------------------------
(* The inductive invariant behind them.                                    *)

\* How far a cell is behind the one the chip may not write
Behind(a) == Distance(erxrdpt, a)

\* The frames lie behind ERXRDPT in their order, without gaps and without
\* reaching around to it, which the even starts and the odd ERXRDPT ensure.
OrderInv ==
  /\ \A i \in DOMAIN starts :
       /\ starts[i] % 2 = 0
       /\ FrameAt(starts[i]) \in Packet
       /\ Behind(starts[i]) + Room(FrameAt(starts[i]).len) = Behind(Pos(i + 1))
  /\ erxwrpt % 2 = 0
  /\ \A i, j \in 1 .. Len(starts) + 1 :
       i <= j => Behind(Pos(i)) + (j - i) <= Behind(Pos(j))

\* Every cell of every frame holds what the chip put there.
CellInv ==
  \A i \in DOMAIN starts : \A a \in Addr :
    Behind(starts[i]) <= Behind(a) /\ Behind(a) < Behind(Pos(i + 1)) =>
      mem[a] = [pkt |-> FrameAt(starts[i]), next |-> Pos(i + 1),
                off |-> Behind(a) - Behind(starts[i])]

\* What etherReceive has read of the frame it is at; ERXRDPT is one before
\* the next frame except while a frame that was taken is not freed yet.
DriverInv ==
  /\ pc \in {"header", "data"} => starts # <<>> /\ erdpt = Pos(1)
  /\ pc = "data" => ptrAddr = Pos(2) /\ pktLen = FrameAt(starts[1]).len
  /\ pc # "data" => ptrAddr = Pos(1)
  /\ pc # "free" => Behind(Pos(1)) = 1
  /\ Len(starts) = Unread

IInv == TypeOK /\ OrderInv /\ CellInv /\ DriverInv
=============================================================================
