---------------------------- MODULE EncIrqProofs ----------------------------
(***************************************************************************)
(* Proofs about EncIrq, for every MaxPkt and MaxCounter.  The safety       *)
(* properties are not inductive: what main may conclude from its copy of   *)
(* EIR, when the chip owes an end of transmission, and who still knows     *)
(* about a low INT pin are the parts of IInv (ServiceInv, TxInv, WakeInv). *)
(* TypeOK is part of it because it is not inductive either: the bound of   *)
(* the counter in Store rests on WakeInv, that of cnt in IntSet on         *)
(* ServiceInv.                                                             *)
(***************************************************************************)
EXTENDS EncIrq, TLAPS

\* The latch of the INT pin's edge stays a Boolean.
LEMMA LatchType == LatchEdge => extiPend' \in BOOLEAN
  BY DEF LatchEdge

\* The state enc28j60_strtDr leaves satisfies the inductive invariant.
LEMMA InitInv == Init => IInv
<1> USE MaxPktAssumption, MaxCounterAssumption
<1> SUFFICES ASSUME Init PROVE IInv
  OBVIOUS
<1>1. TypeOK
  <2>1. extiPend \in BOOLEAN
    BY DEF Init
  <2>2. flags \subseteq {RXERIF, TXERIF, TXIF, LINKIF}
    BY DEF Init
  <2>3. pktcnt \in 0 .. MaxPkt /\ counter \in 0 .. MaxCounter
        /\ tmp \in 0 .. MaxCounter /\ cnt \in 0 .. 8
    BY DEF Init
  <2> QED
    BY <2>1, <2>2, <2>3 DEF Init, TypeOK, Points, PktifAfter
<1>2. ServiceInv /\ TxInv /\ EnabledLinkClearable
  BY DEF Init, ServiceInv, TxInv, EnabledLinkClearable, RXERIF, TXERIF, TXIF,
     LINKIF, DMAIF, PKTIF, TxPoints
<1>3. WakeInv
  BY DEF Init, WakeInv, IntLow, Enabled, EIR, RXERIF, TXERIF, TXIF, LINKIF,
     DMAIF, PKTIF, TxPoints
<1> QED
  BY <1>1, <1>2, <1>3 DEF IInv

\* Every step of the chip, of the EXTI handler and of main preserves it.
LEMMA StepInv == IInv /\ [Next]_vars => IInv'
<1> SUFFICES ASSUME IInv, [Next]_vars PROVE IInv'
  OBVIOUS
<1> USE MaxPktAssumption, MaxCounterAssumption
<1> USE DEF IInv
<1>1. CASE ChipReceive
  BY <1>1 DEF ChipReceive, TypeOK, ServiceInv, TxInv, EnabledLinkClearable,
     WakeInv, EIR, Enabled, IntLow, LatchEdge, RXERIF, TXERIF, TXIF, LINKIF,
     DMAIF, PKTIF, TxPoints, ServicePoints, Points, Goto, chip, main
<1>1b. CASE ChipPktif
  <2>1. pktif' \in BOOLEAN /\ pktif' # pktif /\ pktcnt > 0
    BY <1>1b DEF ChipPktif, PktifAfter, TypeOK
  <2>2. UNCHANGED <<flags, pktcnt, linkie, intie, txrts, counter, main>>
    BY <1>1b DEF ChipPktif
  <2>3. TypeOK'
    BY <1>1b, <2>1, <2>2, LatchType DEF ChipPktif, PktifAfter, TypeOK, main
  <2>4. ServiceInv' /\ TxInv' /\ EnabledLinkClearable'
    BY <2>2 DEF ServiceInv, TxInv, EnabledLinkClearable, main
  <2>5. WakeInv'
    BY <1>1b, <2>2 DEF ChipPktif, TypeOK, WakeInv, IntLow, LatchEdge, main
  <2> QED
    BY <2>3, <2>4, <2>5
<1>2. CASE ChipRaise
  BY <1>2 DEF ChipRaise, TypeOK, ServiceInv, TxInv, EnabledLinkClearable,
     WakeInv, EIR, Enabled, IntLow, LatchEdge, RXERIF, TXERIF, TXIF, LINKIF,
     DMAIF, PKTIF, TxPoints, ServicePoints, Points, Goto, chip, main
<1>3. CASE ChipTxDone
  <2>1. TypeOK'
    <3>1. extiPend' \in BOOLEAN /\ txrts' \in BOOLEAN
      BY <1>3, LatchType DEF ChipTxDone
    <3>2. flags' \subseteq {RXERIF, TXERIF, TXIF, LINKIF}
      BY <1>3 DEF ChipTxDone, TypeOK
    <3>3. UNCHANGED <<pktcnt, pktif, linkie, intie, counter, bTxBusy, bnBank, pc, tmp,
                      u8Value, cnt, ret>>
      BY <1>3 DEF ChipTxDone, main
    <3> QED
      BY <3>1, <3>2, <3>3 DEF TypeOK, PktifAfter
  <2>2. ServiceInv'
    BY <1>3 DEF ChipTxDone, TypeOK, ServiceInv, RXERIF, TXERIF, TXIF, LINKIF,
       DMAIF, PKTIF, TxPoints, ServicePoints, Points, Goto, chip, main
  <2>3. TxInv'
    BY <1>3 DEF ChipTxDone, TypeOK, ServiceInv, TxInv, RXERIF, TXERIF, TXIF,
       LINKIF, DMAIF, PKTIF, TxPoints, ServicePoints, Points, Goto, chip, main
  <2>4. EnabledLinkClearable'
    BY <1>3 DEF ChipTxDone, TypeOK, EnabledLinkClearable, Goto, chip, main
  <2>5. WakeInv'
    BY <1>3 DEF ChipTxDone, TypeOK, ServiceInv, WakeInv, EIR, Enabled, IntLow,
       LatchEdge, RXERIF, TXERIF, TXIF, LINKIF, DMAIF, PKTIF, TxPoints,
       ServicePoints, Points, Goto, chip, main
  <2> QED
    BY <2>1, <2>2, <2>3, <2>4, <2>5
<1>4. CASE ExtiIsr
  <2>1. TypeOK'
    <3>1. counter' \in 0 .. MaxCounter
      BY <1>4 DEF ExtiIsr, TypeOK
    <3>2. extiPend' \in BOOLEAN
      BY <1>4 DEF ExtiIsr
    <3> QED
      BY <3>1, <3>2, <1>4 DEF ExtiIsr, TypeOK, chip, main
  <2>2. ServiceInv'
    BY <1>4 DEF ExtiIsr, TypeOK, ServiceInv, RXERIF, TXERIF, TXIF, LINKIF,
       DMAIF, PKTIF, TxPoints, ServicePoints, Points, Goto, chip, main
  <2>3. TxInv'
    BY <1>4 DEF ExtiIsr, TypeOK, ServiceInv, TxInv, RXERIF, TXERIF, TXIF,
       LINKIF, DMAIF, PKTIF, TxPoints, ServicePoints, Points, Goto, chip, main
  <2>4. EnabledLinkClearable'
    BY <1>4 DEF ExtiIsr, TypeOK, EnabledLinkClearable, Goto, chip, main
  <2>5. WakeInv'
    BY <1>4 DEF ExtiIsr, TypeOK, ServiceInv, WakeInv, EIR, Enabled, IntLow,
       LatchEdge, RXERIF, TXERIF, TXIF, LINKIF, DMAIF, PKTIF, TxPoints,
       ServicePoints, Points, Goto, chip, main
  <2> QED
    BY <2>1, <2>2, <2>3, <2>4, <2>5
<1>5. CASE Translate
  BY <1>5 DEF Translate, TypeOK, ServiceInv, TxInv, EnabledLinkClearable,
     WakeInv, EIR, Enabled, IntLow, LatchEdge, RXERIF, TXERIF, TXIF, LINKIF,
     DMAIF, PKTIF, TxPoints, ServicePoints, Points, Goto, chip, main
<1>6. CASE TxLoad
  BY <1>6 DEF TxLoad, TypeOK, ServiceInv, TxInv, EnabledLinkClearable,
     WakeInv, EIR, Enabled, IntLow, LatchEdge, RXERIF, TXERIF, TXIF, LINKIF,
     DMAIF, PKTIF, TxPoints, ServicePoints, Points, Goto, chip, main
<1>7. CASE TxClearIf
  BY <1>7 DEF TxClearIf, TypeOK, ServiceInv, TxInv, EnabledLinkClearable,
     WakeInv, EIR, Enabled, IntLow, LatchEdge, RXERIF, TXERIF, TXIF, LINKIF,
     DMAIF, PKTIF, TxPoints, ServicePoints, Points, Goto, chip, main
<1>8. CASE TxEnable
  BY <1>8 DEF TxEnable, TypeOK, ServiceInv, TxInv, EnabledLinkClearable,
     WakeInv, EIR, Enabled, IntLow, LatchEdge, RXERIF, TXERIF, TXIF, LINKIF,
     DMAIF, PKTIF, TxPoints, ServicePoints, Points, Goto, chip, main
<1>9. CASE TxRts
  BY <1>9 DEF TxRts, TypeOK, ServiceInv, TxInv, EnabledLinkClearable, WakeInv,
     EIR, Enabled, IntLow, LatchEdge, RXERIF, TXERIF, TXIF, LINKIF, DMAIF,
     PKTIF, TxPoints, ServicePoints, Points, Goto, chip, main
<1>10. CASE TxSetBusy
  BY <1>10 DEF TxSetBusy, TypeOK, ServiceInv, TxInv, EnabledLinkClearable,
     WakeInv, EIR, Enabled, IntLow, LatchEdge, RXERIF, TXERIF, TXIF, LINKIF,
     DMAIF, PKTIF, TxPoints, ServicePoints, Points, Goto, chip, main
<1>11. CASE LwipDone
  BY <1>11 DEF LwipDone, TypeOK, ServiceInv, TxInv, EnabledLinkClearable,
     WakeInv, EIR, Enabled, IntLow, LatchEdge, RXERIF, TXERIF, TXIF, LINKIF,
     DMAIF, PKTIF, TxPoints, ServicePoints, Points, Goto, chip, main
<1>12. CASE Check
  BY <1>12 DEF Check, TypeOK, ServiceInv, TxInv, EnabledLinkClearable,
     WakeInv, EIR, Enabled, IntLow, LatchEdge, RXERIF, TXERIF, TXIF, LINKIF,
     DMAIF, PKTIF, TxPoints, ServicePoints, Points, Goto, chip, main
<1>13. CASE Store
  BY <1>13 DEF Store, TypeOK, ServiceInv, TxInv, EnabledLinkClearable,
     WakeInv, EIR, Enabled, IntLow, LatchEdge, RXERIF, TXERIF, TXIF, LINKIF,
     DMAIF, PKTIF, TxPoints, ServicePoints, Points, Goto, chip, main
<1>14. CASE ReadEir
  <2>1. TypeOK'
    BY <1>14, LatchType DEF ReadEir, TypeOK, EIR, RXERIF, TXERIF, TXIF,
       LINKIF, DMAIF, PKTIF, TxPoints, ServicePoints, Points, Goto, chip, main
  <2>2. ServiceInv'
    <3>1. PKTIF \in EIR => pktcnt > 0
      <4>1. PKTIF \notin flags
        BY DEF TypeOK, RXERIF, TXERIF, TXIF, LINKIF, PKTIF
      <4>2. PKTIF \in EIR => pktif
        BY <4>1 DEF EIR
      <4>3. pktif => pktcnt > 0
        BY DEF TypeOK, PktifAfter
      <4> QED
        BY <4>2, <4>3
    <3>2. TXIF \in EIR => TXIF \in flags
      BY DEF EIR, TXIF, PKTIF
    <3> QED
      BY <3>1, <3>2, <1>14 DEF ReadEir, ServiceInv, TXIF, PKTIF, TxPoints,
         Goto, chip
  <2>3. TxInv'
    BY <1>14 DEF ReadEir, TypeOK, ServiceInv, TxInv, RXERIF, TXERIF, TXIF,
       LINKIF, DMAIF, PKTIF, TxPoints, ServicePoints, Points, Goto, chip, main
  <2>4. EnabledLinkClearable'
    BY <1>14 DEF ReadEir, TypeOK, EnabledLinkClearable, Goto, chip, main
  <2>5. WakeInv'
    <3>1. ASSUME IntLow' PROVE \E b \in u8Value' : b >= cnt'
      <4>1. EIR # {} /\ EIR \subseteq Nat
        BY <1>14, <3>1 DEF ReadEir, TypeOK, IntLow, Enabled, EIR, chip,
           RXERIF, TXERIF, TXIF, LINKIF, DMAIF, PKTIF
      <4>2. PICK b \in EIR : b \in Nat
        BY <4>1
      <4>3. b \in u8Value' /\ b >= cnt'
        BY <4>2, <1>14 DEF ReadEir
      <4> QED
        BY <4>3
    <3> QED
      BY <3>1, <1>14 DEF ReadEir, WakeInv, Goto, TxPoints, chip
  <2> QED
    BY <2>1, <2>2, <2>3, <2>4, <2>5
<1>15. CASE Scan
  BY <1>15 DEF Scan, TypeOK, ServiceInv, TxInv, EnabledLinkClearable, WakeInv,
     EIR, Enabled, IntLow, LatchEdge, RXERIF, TXERIF, TXIF, LINKIF, DMAIF,
     PKTIF, TxPoints, ServicePoints, Points, Goto, chip, main
<1>16. CASE IntClear
  BY <1>16 DEF IntClear, TypeOK, ServiceInv, TxInv, EnabledLinkClearable,
     WakeInv, EIR, Enabled, IntLow, LatchEdge, RXERIF, TXERIF, TXIF, LINKIF,
     DMAIF, PKTIF, TxPoints, ServicePoints, Points, Goto, chip, main
<1>17. CASE Handle
  <2>1. TypeOK'
    BY <1>17, LatchType DEF Handle, TypeOK, RXERIF, TXERIF, TXIF, LINKIF,
       DMAIF, PKTIF, TxPoints, ServicePoints, Points, Goto, chip, main
  <2>2. ServiceInv'
    BY <1>17 DEF Handle, TypeOK, ServiceInv, RXERIF, TXERIF, TXIF, LINKIF,
       DMAIF, PKTIF, TxPoints, ServicePoints, Points, Goto, chip, main
  <2>3. TxInv'
    <3>1. CASE cnt = TXIF
      <4>1. TXIF \in flags /\ ~txrts
        BY <1>17, <3>1 DEF Handle, ServiceInv, TxInv, TXIF
      <4> QED
        BY <4>1, <1>17, <3>1 DEF Handle, TxInv, RXERIF, TXERIF, TXIF, LINKIF,
           DMAIF, PKTIF, TxPoints, Goto
    <3>2. CASE cnt # TXIF
      <4>1. (TXIF \in flags') <=> (TXIF \in flags)
        BY <1>17, <3>2 DEF Handle, RXERIF, TXERIF, TXIF, LINKIF, DMAIF, PKTIF
      <4>2. bTxBusy' = bTxBusy
        BY <1>17, <3>2 DEF Handle, TypeOK
      <4> QED
        BY <4>1, <4>2, <1>17 DEF Handle, TxInv, TxPoints, Goto
    <3> QED
      BY <3>1, <3>2
  <2>4. EnabledLinkClearable'
    BY <1>17 DEF Handle, TypeOK, EnabledLinkClearable, Goto, chip, main
  <2>5. WakeInv'
    BY <1>17 DEF Handle, TypeOK, ServiceInv, WakeInv, EIR, Enabled, IntLow,
       LatchEdge, RXERIF, TXERIF, TXIF, LINKIF, DMAIF, PKTIF, TxPoints,
       ServicePoints, Points, Goto, chip, main
  <2> QED
    BY <2>1, <2>2, <2>3, <2>4, <2>5
<1>18. CASE LinkRead
  BY <1>18 DEF LinkRead, TypeOK, ServiceInv, TxInv, EnabledLinkClearable,
     WakeInv, EIR, Enabled, IntLow, LatchEdge, RXERIF, TXERIF, TXIF, LINKIF,
     DMAIF, PKTIF, TxPoints, ServicePoints, Points, Goto, chip, main
<1>19. CASE LinkMask
  <2>1. TypeOK'
    BY <1>19, LatchType DEF LinkMask, TypeOK, RXERIF, TXERIF, TXIF, LINKIF,
       DMAIF, PKTIF, TxPoints, ServicePoints, Points, Goto, chip, main
  <2>2. ServiceInv'
    BY <1>19 DEF LinkMask, TypeOK, ServiceInv, RXERIF, TXERIF, TXIF, LINKIF,
       DMAIF, PKTIF, TxPoints, ServicePoints, Points, Goto, chip, main
  <2>3. TxInv'
    BY <1>19 DEF LinkMask, TypeOK, ServiceInv, TxInv, RXERIF, TXERIF, TXIF,
       LINKIF, DMAIF, PKTIF, TxPoints, ServicePoints, Points, Goto, chip, main
  <2>4. EnabledLinkClearable'
    BY <1>19 DEF LinkMask, TypeOK, EnabledLinkClearable, Goto, chip, main
  <2>5. WakeInv'
    BY <1>19 DEF LinkMask, TypeOK, ServiceInv, WakeInv, EIR, Enabled, IntLow,
       LatchEdge, RXERIF, TXERIF, TXIF, LINKIF, DMAIF, PKTIF, TxPoints,
       ServicePoints, Points, Goto, chip, main
  <2> QED
    BY <2>1, <2>2, <2>3, <2>4, <2>5
<1>20. CASE EtherReceive
  BY <1>20 DEF EtherReceive, TypeOK, ServiceInv, TxInv, EnabledLinkClearable,
     WakeInv, EIR, Enabled, IntLow, LatchEdge, RXERIF, TXERIF, TXIF, LINKIF,
     DMAIF, PKTIF, TxPoints, ServicePoints, Points, Goto, chip, main
<1>21. CASE PktDec
  BY <1>21 DEF PktDec, TypeOK, ServiceInv, TxInv, EnabledLinkClearable,
     WakeInv, EIR, Enabled, IntLow, LatchEdge, RXERIF, TXERIF, TXIF, LINKIF,
     DMAIF, PKTIF, TxPoints, ServicePoints, Points, Goto, chip, main
<1>22. CASE InputDone
  BY <1>22 DEF InputDone, TypeOK, ServiceInv, TxInv, EnabledLinkClearable,
     WakeInv, EIR, Enabled, IntLow, LatchEdge, RXERIF, TXERIF, TXIF, LINKIF,
     DMAIF, PKTIF, TxPoints, ServicePoints, Points, Goto, chip, main
<1>23. CASE IntSet
  <2>1. TypeOK'
    BY <1>23, LatchType DEF IntSet, TypeOK, ServiceInv, RXERIF, TXERIF, TXIF,
       LINKIF, DMAIF, PKTIF, TxPoints, ServicePoints, Points, Goto, chip, main
  <2>2. ServiceInv'
    BY <1>23 DEF IntSet, TypeOK, ServiceInv, RXERIF, TXERIF, TXIF, LINKIF,
       DMAIF, PKTIF, TxPoints, ServicePoints, Points, Goto, chip, main
  <2>3. TxInv'
    BY <1>23 DEF IntSet, TypeOK, ServiceInv, TxInv, RXERIF, TXERIF, TXIF,
       LINKIF, DMAIF, PKTIF, TxPoints, ServicePoints, Points, Goto, chip, main
  <2>4. EnabledLinkClearable'
    BY <1>23 DEF IntSet, TypeOK, EnabledLinkClearable, Goto, chip, main
  <2>5. WakeInv'
    BY <1>23 DEF IntSet, TypeOK, ServiceInv, WakeInv, EIR, Enabled, IntLow,
       LatchEdge, RXERIF, TXERIF, TXIF, LINKIF, DMAIF, PKTIF, TxPoints,
       ServicePoints, Points, Goto, chip, main
  <2> QED
    BY <2>1, <2>2, <2>3, <2>4, <2>5
<1>24. CASE UNCHANGED vars
  BY <1>24 DEF vars, TypeOK, ServiceInv, TxInv, EnabledLinkClearable, WakeInv,
     EIR, Enabled, IntLow, chip, main
<1> QED
  BY <1>1, <1>1b, <1>2, <1>3, <1>4, <1>5, <1>6, <1>7, <1>8, <1>9, <1>10, <1>11,
     <1>12, <1>13, <1>14, <1>15, <1>16, <1>17, <1>18, <1>19, <1>20, <1>21,
     <1>22, <1>23, <1>24
     DEF Next, Chip, Main, Transmit, Service

\* The inductive invariant holds throughout.
THEOREM Invariance == Spec => []IInv
  BY InitInv, StepInv, PTL DEF Spec

\* All state keeps its type; in particular enc28j60intCounter-- never goes
\* below zero and the scan of EIR never runs past its last bit.
THEOREM TypeCorrect == Spec => []TypeOK
<1>1. IInv => TypeOK
  BY DEF IInv
<1> QED
  BY <1>1, Invariance, PTL

\* No enabled flag of the chip is forgotten, for every interleaving of the
\* chip's edges with the non-atomic decrement of enc28j60intCounter.
THEOREM WakeupsKept == Spec => []NoLostWakeup
<1>1. IInv => NoLostWakeup
  BY DEF IInv, WakeInv, NoLostWakeup, IntLow
<1> QED
  BY <1>1, Invariance, PTL

\* The transmit buffer in the chip is never touched while it is being sent.
THEOREM TransmitExclusive == Spec => []TxExclusive
<1>1. IInv => TxExclusive
  BY DEF IInv, TxInv, TxExclusive, TxPoints
<1> QED
  BY <1>1, Invariance, PTL

\* etherTransmit's clearing of TXIF never swallows an end of transmission,
\* and a taken buffer always has one on the way.
THEOREM CompletionsKept == Spec => []CompletionKept
<1>1. IInv => CompletionKept
  BY DEF IInv, TxInv, CompletionKept, TxPoints
<1> QED
  BY <1>1, Invariance, PTL

\* etherReceive is called, and PKTDEC given, only for packets that are there.
THEOREM ReadsArrived == Spec => []ReadsArrivedPacket
<1>1. IInv => ReadsArrivedPacket
  BY DEF IInv, ServiceInv, ReadsArrivedPacket, PKTIF
<1> QED
  BY <1>1, Invariance, PTL

\* An enabled link interrupt never meets the stale bank memory.
THEOREM LinkClearable == Spec => []EnabledLinkClearable
<1>1. IInv => EnabledLinkClearable
  BY DEF IInv
<1> QED
  BY <1>1, Invariance, PTL
=============================================================================
