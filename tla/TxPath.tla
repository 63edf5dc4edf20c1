------------------------------- MODULE TxPath -------------------------------
(***************************************************************************)
(* A frame on its way out: enc28j60_translate (Core/Src/main.c) copies     *)
(* lwIP's pbuf chain into dev.txPkt.data, enc28j60_etherTransmit           *)
(* (enc28j60_driver/Src/enc28j60_hwd.c) writes that into the chip's memory *)
(* behind a control byte, and the chip sends what lies between ETXST and   *)
(* ETXND and writes its status vector behind.  Who may do which when is    *)
(* the subject of EncIrq; here it is which bytes go where.                 *)
(*                                                                         *)
(* A byte is its frame and its place in it.                                *)
(***************************************************************************)
EXTENDS Naturals, Sequences, SequencesExt

CONSTANTS
  TxStart, TxEnd,  \* txBufStartAddr, txBufEndAddr
  DataLen,         \* the size of dev.txPkt.data
  StatusLen,       \* bytes of the chip's transmit status vector
  Chains,          \* pbuf chains lwIP sends: sequences of lengths
  Frames           \* identities of frames, to tell new bytes from old ones

VARIABLES
  pc,       \* where enc28j60_translate is
  chain,    \* the pbuf chain
  frame,    \* ghost: its identity
  q,        \* the pbuf that is copied next
  offset,
  data,     \* dev.txPkt.data
  spilled,  \* ghost: something was written behind dev.txPkt.data
  mem,      \* the chip's transmit memory
  etxnd,    \* ETXND
  txrts,    \* ECON1.TXRTS
  bTxBusy,
  wire      \* what the chip sent last

vars == <<pc, chain, frame, q, offset, data, spilled, mem, etxnd, txrts,
          bTxBusy, wire>>

None == <<>>
Control == <<"control">>
Status == <<"status">>

Total(c) == FoldLeft(LAMBDA sum, len : sum + len, 0, c)
Bytes(f, n) == [i \in 1 .. n |-> <<f, i>>]

Init ==
  /\ pc = "idle" /\ chain = <<>> /\ frame \in Frames /\ q = 1 /\ offset = 0
  /\ data = [i \in 1 .. DataLen |-> None] /\ spilled = FALSE
  /\ mem = [a \in TxStart .. TxEnd |-> None]
  /\ etxnd = TxEnd /\ txrts = FALSE /\ bTxBusy = FALSE /\ wire = <<>>

\* lwIP hands over a frame; while the last one is being sent it is refused
\* with ERR_INPROGRESS, which changes nothing
Translate ==
  /\ pc = "idle" /\ ~bTxBusy
  /\ chain' \in Chains
  /\ frame' \in Frames \ {frame}
  /\ pc' = "copy" /\ q' = 1 /\ offset' = 0
  /\ UNCHANGED <<data, spilled, mem, etxnd, txrts, bTxBusy, wire>>

\* memcpy of one pbuf, wherever that ends
Copy ==
  /\ pc = "copy" /\ q <= Len(chain)
  /\ data' = [i \in 1 .. DataLen |->
                IF i \in offset + 1 .. offset + chain[q] THEN <<frame, i>>
                ELSE data[i]]
  /\ spilled' = (spilled \/ offset + chain[q] > DataLen)
  /\ offset' = offset + chain[q]
  /\ q' = q + 1
  /\ UNCHANGED <<pc, chain, frame, mem, etxnd, txrts, bTxBusy, wire>>

\* offset must equal total length, else ERR_BUF
Check ==
  /\ pc = "copy" /\ q > Len(chain)
  /\ pc' = IF offset = Total(chain) THEN "load" ELSE "idle"
  /\ UNCHANGED <<chain, frame, q, offset, data, spilled, mem, etxnd, txrts,
                 bTxBusy, wire>>

\* EWRPT and ETXST are set to the start; then one WBM command with the
\* control byte and the data.  What was written behind data is read there.
Load ==
  /\ pc = "load"
  /\ mem' = [a \in DOMAIN mem |->
               IF a = TxStart THEN Control
               ELSE IF a \in TxStart + 1 .. TxStart + Total(chain)
               THEN IF a - TxStart <= DataLen THEN data[a - TxStart]
                    ELSE <<frame, a - TxStart>>
               ELSE mem[a]]
  /\ pc' = "end"
  /\ UNCHANGED <<chain, frame, q, offset, data, spilled, etxnd, txrts, bTxBusy,
                 wire>>

\* ETXND points to the frame's last byte
LastByte(len) == TxStart + len

SetEnd ==
  /\ pc = "end"
  /\ etxnd' = LastByte(Total(chain))
  /\ pc' = "start"
  /\ UNCHANGED <<chain, frame, q, offset, data, spilled, mem, txrts, bTxBusy,
                 wire>>

\* TXRTS, and back in enc28j60_translate bTxBusy
Start ==
  /\ pc = "start"
  /\ txrts' = TRUE /\ bTxBusy' = TRUE
  /\ pc' = "idle"
  /\ UNCHANGED <<chain, frame, q, offset, data, spilled, mem, etxnd, wire>>

\* The chip sends what is behind the control byte, then writes its status
\* vector; main() is told and clears bTxBusy
ChipSend ==
  /\ txrts
  /\ wire' = [i \in 1 .. etxnd - TxStart |-> mem[TxStart + i]]
  /\ mem' = [a \in DOMAIN mem |->
               IF a \in etxnd + 1 .. etxnd + StatusLen THEN Status ELSE mem[a]]
  /\ txrts' = FALSE /\ bTxBusy' = FALSE
  /\ UNCHANGED <<pc, chain, frame, q, offset, data, spilled, etxnd>>

Next == Translate \/ Copy \/ Check \/ Load \/ SetEnd \/ Start \/ ChipSend

Spec == Init /\ [][Next]_vars

-----------------------------------------------------------------------------
(* Properties.                                                             *)

\* What the chip sends is the frame lwIP handed over, whole and in order,
\* however its pbufs are cut and whatever the buffers held before.
SendsFrame == [][wire' # wire => wire' = Bytes(frame, Total(chain))]_vars

\* Neither the driver nor the chip's status vector leaves the transmit buffer
\* of the chip's memory, behind which memory wraps to the receive ring.
StaysInTxBuffer ==
  (txrts => etxnd + StatusLen <= TxEnd)
    /\ (pc = "load" => TxStart + Total(chain) <= TxEnd)

\* main.c:658 "Copy the full chained pbuf into linear ENC buffer": the buffer
\* holds it.
BufferHoldsFrame == ~spilled
=============================================================================
