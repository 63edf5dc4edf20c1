------------------------------- MODULE EncIrq -------------------------------
(***************************************************************************)
(* The interrupt-driven core of the firmware: the ENC28J60's interrupt     *)
(* logic, the EXTI interrupt handler of the MCU, and the superloop of      *)
(* main() that services the chip and calls into lwIP, which calls back     *)
(* into enc28j60_translate to send (Core/Src/main.c).                      *)
(*                                                                         *)
(* Three actors interleave: the chip raises flags and finishes             *)
(* transmissions at any time; the EXTI handler preempts main between any   *)
(* two instructions; main runs one SPI command at a time, and its          *)
(* `enc28j60intCounter--' is a load and a store.  The SPI commands are     *)
(* those of enc28j60_hwd.c, merged where the merged ones touch nothing     *)
(* another actor sees.  Frame contents and the receive ring are left to    *)
(* RxRing; this module is about who may act when.                          *)
(***************************************************************************)
EXTENDS Naturals

CONSTANTS
  MaxPkt,      \* the chip's packet counter saturates here (EPKTCNT)
  MaxCounter   \* bound of enc28j60intCounter, a uint32_t in the code

ASSUME MaxPktAssumption == MaxPkt \in Nat \ {0}
ASSUME MaxCounterAssumption == MaxCounter \in Nat \ {0}

VARIABLES
  flags,       \* the latched bits of EIR: RXERIF, TXERIF, TXIF, LINKIF
  pktcnt,      \* EPKTCNT, the received packets not yet counted down
  pktif,       \* EIR.PKTIF, which should say that there are some
  linkie,      \* EIE.LINKIE (the other enables are set at start and stay)
  intie,       \* EIE.INTIE
  txrts,       \* ECON1.TXRTS, a transmission is in progress
  extiPend,    \* the MCU latched a falling edge of the INT pin
  counter,     \* enc28j60intCounter
  bTxBusy,     \* the transmit buffer is taken
  bnBank,      \* dev->bnBank between driver calls (see EncBank!RestState)
  pc,          \* where main is
  tmp,         \* the loaded value of enc28j60intCounter--
  u8Value,     \* main's copy of EIR, as the set of its bits
  cnt,         \* main's bit index into u8Value
  ret          \* where enc28j60_translate returns to

chip == <<flags, pktcnt, pktif, linkie, intie, txrts>>
main == <<bTxBusy, bnBank, pc, tmp, u8Value, cnt, ret>>
vars == <<chip, extiPend, counter, main>>

-----------------------------------------------------------------------------
RXERIF == 0
TXERIF == 1
TXIF == 3
LINKIF == 4
DMAIF == 5
PKTIF == 6

EIR == flags \cup (IF pktif THEN {PKTIF} ELSE {})
Enabled == IF linkie THEN EIR ELSE EIR \ {LINKIF}

\* By issue 6 of the chip's errata (Documentation/Errata.pdf) PKTIF does not
\* reliably report pending packets: with packets in the buffer it may be up
\* or down, and change by itself.  Without any it is taken to be down.
PktifAfter(n) == IF n > 0 THEN BOOLEAN ELSE {FALSE}

\* The INT pin is low while the chip has something enabled to report; the
\* MCU latches the edge from high to low.
IntLow == intie /\ Enabled # {}
LatchEdge == extiPend' = (extiPend \/ (~IntLow /\ IntLow'))

\* main's program points, in the groups the invariants speak of
TxPoints == {"txLoad", "txClearIf", "txEnable", "txRts", "txSetBusy"}
ServicePoints == {"scan", "intClear", "handle", "linkRead", "linkMask",
                  "receive", "pktDec", "input", "intSet"}
Points == {"lwip", "check", "store", "readEir"} \cup TxPoints \cup ServicePoints

Goto(p) == pc' = p

-----------------------------------------------------------------------------
\* The state enc28j60_strtDr leaves: everything enabled, the PHY reporting
\* link changes since before EIE was written, the transmitter idle.
Init ==
  /\ flags \in {{}, {LINKIF}}
  /\ pktcnt = 0 /\ pktif = FALSE
  /\ linkie = TRUE /\ intie = TRUE
  /\ txrts = FALSE
  /\ extiPend = (flags # {})
  /\ counter = 0
  /\ bTxBusy = FALSE
  /\ bnBank = 1
  /\ pc = "lwip"
  /\ tmp = 0 /\ u8Value = {} /\ cnt = 0
  /\ ret = "lwip"

-----------------------------------------------------------------------------
(* The chip.                                                               *)

ChipReceive ==
  /\ pktcnt < MaxPkt
  /\ pktcnt' = pktcnt + 1
  /\ pktif' \in PktifAfter(pktcnt')
  /\ UNCHANGED <<flags, linkie, intie, txrts, counter, main>>
  /\ LatchEdge

\* PKTIF comes up late, or goes down with packets pending
ChipPktif ==
  /\ pktif' \in PktifAfter(pktcnt) \ {pktif}
  /\ UNCHANGED <<flags, pktcnt, linkie, intie, txrts, counter, main>>
  /\ LatchEdge

\* A frame is lost for want of buffer space, or the link changes
ChipRaise ==
  /\ \E f \in {RXERIF, LINKIF} : flags' = flags \cup {f}
  /\ UNCHANGED <<pktcnt, pktif, linkie, intie, txrts, counter, main>>
  /\ LatchEdge

\* The transmission ends, sent or aborted
ChipTxDone ==
  /\ txrts
  /\ txrts' = FALSE
  /\ \E err \in {{}, {TXERIF}} : flags' = flags \cup {TXIF} \cup err
  /\ UNCHANGED <<pktcnt, pktif, linkie, intie, counter, main>>
  /\ LatchEdge

Chip == ChipReceive \/ ChipPktif \/ ChipRaise \/ ChipTxDone

-----------------------------------------------------------------------------
\* EXTI9_5_IRQHandler: the latch is cleared, then HAL_GPIO_EXTI_Callback
\* counts.  It preempts main, so it is one step.
ExtiIsr ==
  /\ extiPend
  /\ counter < MaxCounter
  /\ extiPend' = FALSE
  /\ counter' = counter + 1
  /\ UNCHANGED <<chip, main>>

-----------------------------------------------------------------------------
(* enc28j60_translate, called by lwIP from its timers, from the connection *)
(* state machine, or while it handles a received frame.                    *)

\* Mutant: without the test of bTxBusy
TranslateAlways ==
  /\ pc \in {"lwip", "input"}
  /\ ret' = pc
  /\ Goto("txLoad")
  /\ UNCHANGED <<chip, extiPend, counter, bTxBusy, bnBank, tmp, u8Value, cnt>>

\* Only the free buffer is taken; otherwise the frame is refused and nothing
\* changes, as when the pbuf chain and its length disagree (ERR_BUF).
Translate ==
  /\ pc \in {"lwip", "input"}
  /\ ~bTxBusy
  /\ ret' = pc
  /\ Goto("txLoad")
  /\ UNCHANGED <<chip, extiPend, counter, bTxBusy, bnBank, tmp, u8Value, cnt>>

\* enc28j60_etherTransmit: the frame and its end pointer go to the chip
TxLoad ==
  /\ pc = "txLoad"
  /\ Goto("txClearIf")
  /\ UNCHANGED <<chip, extiPend, counter, bTxBusy, bnBank, tmp, u8Value, cnt,
                 ret>>

TxClearIf ==
  /\ pc = "txClearIf"
  /\ flags' = flags \ {TXIF}
  /\ Goto("txEnable")
  /\ UNCHANGED <<pktcnt, pktif, linkie, intie, txrts, counter,
                 bTxBusy, bnBank, tmp, u8Value, cnt, ret>>
  /\ LatchEdge

\* TXIE is set already; INTIE may have been cleared by the service loop
TxEnable ==
  /\ pc = "txEnable"
  /\ intie' = TRUE
  /\ Goto("txRts")
  /\ UNCHANGED <<flags, pktcnt, pktif, linkie, txrts, counter,
                 bTxBusy, bnBank, tmp, u8Value, cnt, ret>>
  /\ LatchEdge

TxRts ==
  /\ pc = "txRts"
  /\ txrts' = TRUE
  /\ Goto("txSetBusy")
  /\ UNCHANGED <<flags, pktcnt, pktif, linkie, intie, counter,
                 bTxBusy, bnBank, tmp, u8Value, cnt, ret>>
  /\ LatchEdge

\* Back in enc28j60_translate, after the transmission was started
TxSetBusy ==
  /\ pc = "txSetBusy"
  /\ bTxBusy' = TRUE
  /\ Goto(ret)
  /\ UNCHANGED <<chip, extiPend, counter, bnBank, tmp, u8Value, cnt, ret>>

Transmit == TxLoad \/ TxClearIf \/ TxEnable \/ TxRts \/ TxSetBusy

-----------------------------------------------------------------------------
(* The superloop.                                                          *)

\* Timers, sys_check_timeouts and the connection state machine are done
LwipDone ==
  /\ pc = "lwip"
  /\ Goto("check")
  /\ UNCHANGED <<chip, extiPend, counter, bTxBusy, bnBank, tmp, u8Value, cnt,
                 ret>>

\* if(enc28j60intCounter > 0), and the load of enc28j60intCounter--
Check ==
  /\ pc = "check"
  /\ IF counter > 0
     THEN tmp' = counter /\ Goto("store")
     ELSE UNCHANGED tmp /\ Goto("lwip")
  /\ UNCHANGED <<chip, extiPend, counter, bTxBusy, bnBank, u8Value, cnt, ret>>

\* The store of enc28j60intCounter--; a count made since the load is lost
Store ==
  /\ pc = "store"
  /\ counter' = tmp - 1
  /\ tmp' = 0
  /\ Goto("readEir")
  /\ UNCHANGED <<chip, extiPend, bTxBusy, bnBank, u8Value, cnt, ret>>

\* Mutant: EIR is OR-ed into the copy of the last round
ReadEirKeepsOld ==
  /\ pc = "readEir"
  /\ u8Value' = u8Value \cup EIR
  /\ cnt' = 0
  /\ Goto("scan")
  /\ UNCHANGED <<chip, extiPend, counter, bTxBusy, bnBank, tmp, ret>>

ReadEir ==
  /\ pc = "readEir"
  /\ u8Value' = EIR
  /\ cnt' = 0
  /\ Goto("scan")
  /\ UNCHANGED <<chip, extiPend, counter, bTxBusy, bnBank, tmp, ret>>

\* Mutant: cnt <= 8 in the loop
ScanNineBits ==
  /\ pc = "scan"
  /\ \/ cnt = 9 /\ Goto("lwip") /\ UNCHANGED cnt
     \/ cnt < 9 /\ cnt \notin u8Value /\ cnt' = cnt + 1 /\ UNCHANGED pc
     \/ cnt < 9 /\ cnt \in u8Value /\ Goto("intClear") /\ UNCHANGED cnt
  /\ UNCHANGED <<chip, extiPend, counter, bTxBusy, bnBank, tmp, u8Value, ret>>

\* The for loop over the eight bits of the copy
Scan ==
  /\ pc = "scan"
  /\ \/ cnt = 8 /\ Goto("lwip") /\ UNCHANGED cnt
     \/ cnt < 8 /\ cnt \notin u8Value /\ cnt' = cnt + 1 /\ UNCHANGED pc
     \/ cnt < 8 /\ cnt \in u8Value /\ Goto("intClear") /\ UNCHANGED cnt
  /\ UNCHANGED <<chip, extiPend, counter, bTxBusy, bnBank, tmp, u8Value, ret>>

\* Mutant: INTIE stays set, so the INT pin never goes back high
IntClearNot ==
  /\ pc = "intClear"
  /\ Goto(CASE cnt = LINKIF -> "linkRead"
            [] cnt = PKTIF -> "receive"
            [] OTHER -> "handle")
  /\ UNCHANGED <<chip, extiPend, counter, bTxBusy, bnBank, tmp, u8Value, cnt,
                 ret>>

\* enc28j60_global_int_Clear, and the dispatch on the bit
IntClear ==
  /\ pc = "intClear"
  /\ intie' = FALSE
  /\ Goto(CASE cnt = LINKIF -> "linkRead"
            [] cnt = PKTIF -> "receive"
            [] OTHER -> "handle")
  /\ UNCHANGED <<flags, pktcnt, pktif, linkie, txrts, counter,
                 bTxBusy, bnBank, tmp, u8Value, cnt, ret>>
  /\ LatchEdge

\* Mutants of the dispatch: clear all of EIR; forget bTxBusy
Handling(cleared, frees) ==
  /\ pc = "handle"
  /\ flags' = flags \ cleared
  /\ bTxBusy' = (bTxBusy /\ ~frees)
  /\ Goto("intSet")
  /\ UNCHANGED <<pktcnt, pktif, linkie, intie, txrts, counter,
                 bnBank, tmp, u8Value, cnt, ret>>
  /\ LatchEdge
HandleClearsAll == Handling(flags, cnt = TXIF)
HandleKeepsBusy == Handling({cnt}, FALSE)

\* The cases whose service is enc28j60_clear_interrupt; TXIF also frees the
\* transmit buffer.  WOLIF is left set.
Handle ==
  /\ pc = "handle"
  /\ flags' = flags \ ({cnt} \cap {RXERIF, TXERIF, TXIF, DMAIF})
  /\ bTxBusy' = (bTxBusy /\ cnt # TXIF)
  /\ Goto("intSet")
  /\ UNCHANGED <<pktcnt, pktif, linkie, intie, txrts, counter,
                 bnBank, tmp, u8Value, cnt, ret>>
  /\ LatchEdge

\* enc28j60_readPhyReg(PHIR): the chip drops LINKIF if the MII access lands,
\* which it does unless the stale bank memory already says bank 2.
LinkRead ==
  /\ pc = "linkRead"
  /\ flags' = IF bnBank = 2 THEN flags ELSE flags \ {LINKIF}
  /\ bnBank' = 2
  /\ Goto("linkMask")
  /\ UNCHANGED <<pktcnt, pktif, linkie, intie, txrts, counter,
                 bTxBusy, tmp, u8Value, cnt, ret>>
  /\ LatchEdge

\* Mutant: the link interrupt stays enabled
LinkMaskNot ==
  /\ pc = "linkMask"
  /\ Goto("intSet")
  /\ UNCHANGED <<chip, extiPend, counter, bTxBusy, bnBank, tmp, u8Value, cnt,
                 ret>>

\* enc28j60_link_change_int_clear masks the interrupt for good
LinkMask ==
  /\ pc = "linkMask"
  /\ linkie' = FALSE
  /\ Goto("intSet")
  /\ UNCHANGED <<flags, pktcnt, pktif, intie, txrts, counter,
                 bTxBusy, bnBank, tmp, u8Value, cnt, ret>>
  /\ LatchEdge

\* enc28j60_etherReceive: see RxRing for what it reads
EtherReceive ==
  /\ pc = "receive"
  /\ Goto("pktDec")
  /\ UNCHANGED <<chip, extiPend, counter, bTxBusy, bnBank, tmp, u8Value, cnt,
                 ret>>

\* enc28j60_clear_interrupt(PKTIF) counts the packet down, read or rejected;
\* it goes to lwIP unless it was rejected or no pbuf is free.
PktDec ==
  /\ pc = "pktDec"
  /\ pktcnt' = IF pktcnt > 0 THEN pktcnt - 1 ELSE 0
  /\ pktif' \in PktifAfter(pktcnt')
  /\ \/ Goto("input")
     \/ Goto("intSet")
  /\ UNCHANGED <<flags, linkie, intie, txrts, counter,
                 bTxBusy, bnBank, tmp, u8Value, cnt, ret>>
  /\ LatchEdge

\* netif_input returns
InputDone ==
  /\ pc = "input"
  /\ Goto("intSet")
  /\ UNCHANGED <<chip, extiPend, counter, bTxBusy, bnBank, tmp, u8Value, cnt,
                 ret>>

\* Mutant: INTIE is not set again after the service
IntSetNot ==
  /\ pc = "intSet"
  /\ cnt' = cnt + 1
  /\ Goto("scan")
  /\ UNCHANGED <<chip, extiPend, counter, bTxBusy, bnBank, tmp, u8Value, ret>>

\* enc28j60_global_Int_Set, and the next bit
IntSet ==
  /\ pc = "intSet"
  /\ intie' = TRUE
  /\ cnt' = cnt + 1
  /\ Goto("scan")
  /\ UNCHANGED <<flags, pktcnt, pktif, linkie, txrts, counter,
                 bTxBusy, bnBank, tmp, u8Value, ret>>
  /\ LatchEdge

Service == IntClear \/ Handle \/ LinkRead \/ LinkMask \/ EtherReceive
           \/ PktDec \/ InputDone \/ IntSet

Main == Translate \/ Transmit \/ LwipDone \/ Check \/ Store \/ ReadEir
        \/ Scan \/ Service

Next == Chip \/ ExtiIsr \/ Main

Spec == Init /\ [][Next]_vars

\* Main never blocks, an interrupt the MCU has latched is taken, and the chip
\* ends every transmission: its transmit logic stalls after an abort in
\* half-duplex mode only (issue 12 of the errata, whose workaround hwd.c:341
\* leaves out).  Nothing makes the chip raise PKTIF.
Fairness == WF_vars(Main) /\ WF_vars(ExtiIsr) /\ WF_vars(ChipTxDone)

FairSpec == Spec /\ Fairness

-----------------------------------------------------------------------------
(* Properties.                                                             *)

\* The range of every variable: the bits of EIR main knows, the uint8_t index
\* of its for loop, and the two bank memories EncBank!RestState leaves.
TypeOK ==
  /\ flags \subseteq {RXERIF, TXERIF, TXIF, LINKIF}
  /\ pktcnt \in 0 .. MaxPkt
  /\ pktif \in PktifAfter(pktcnt)
  /\ linkie \in BOOLEAN /\ intie \in BOOLEAN /\ txrts \in BOOLEAN
  /\ extiPend \in BOOLEAN
  /\ counter \in 0 .. MaxCounter
  /\ bTxBusy \in BOOLEAN
  /\ bnBank \in {1, 2}
  /\ pc \in Points
  /\ tmp \in 0 .. MaxCounter
  /\ u8Value \subseteq {RXERIF, TXERIF, TXIF, LINKIF, PKTIF}
  /\ cnt \in 0 .. 8
  /\ ret \in {"lwip", "input"}

\* Whenever main is back at the top of its loop and the chip has an enabled
\* flag up, main will look at the chip again: the edge is latched or counted.
\* It holds although `enc28j60intCounter--' (main.c:293) can lose a count,
\* although the edges are no image of the flags, and although
\* etherTransmit sets INTIE in the middle of a service.
NoLostWakeup ==
  (pc = "lwip" /\ Enabled # {}) => (extiPend \/ counter > 0)

\* The frame in the chip's transmit buffer is neither rewritten nor restarted
\* while the chip is sending it: bTxBusy, set after TXRTS and dropped on
\* TXIF, guards every path into enc28j60_etherTransmit.
TxExclusive == pc \in TxPoints \ {"txSetBusy"} => ~txrts

\* The BFC of EIR.TXIF in etherTransmit (hwd.c:332) never erases the report
\* of a finished transmission, which would leave bTxBusy set for ever.
CompletionKept ==
  /\ pc = "txClearIf" => TXIF \notin flags
  /\ bTxBusy => (txrts \/ TXIF \in flags)

\* Every packet main reads from the ring is one the chip has counted, so
\* PKTDEC never counts below zero, however old the copy of EIR is.
ReadsArrivedPacket == pc \in {"receive", "pktDec"} => pktcnt > 0

\* A link interrupt that is still enabled is one whose PHIR read will land:
\* the stale bank memory never meets an enabled LINKIF, which main could not
\* clear and would be called for without end.
EnabledLinkClearable == linkie /\ pc # "linkMask" => bnBank = 1

\* Nothing EIR goes on reporting is left unserved, whatever main and the
\* handler lose on the way: while PKTIF stays up main takes packets from the
\* chip (PKTDEC), and a reported error is cleared.
FlagsServiced ==
  /\ PKTIF \in EIR ~> (pc = "pktDec" \/ PKTIF \notin EIR)
  /\ \A f \in {RXERIF, TXERIF} : f \in flags ~> f \notin flags

\* Every packet the chip has counted is taken from it.  The errata ask for
\* EPKTCNT to be read for this; main dispatches on PKTIF alone (main.c:296,
\* 338), so EncIrqErratum.cfg finds a packet that stays in the chip.
PacketsTaken == pktcnt > 0 ~> pc = "pktDec"

\* The transmit buffer is always given back (main.c:325): lwIP can send again
\* after every frame, sent or aborted.
TxReleased == bTxBusy ~> ~bTxBusy

-----------------------------------------------------------------------------
(* The inductive invariant behind the safety properties.                   *)

\* Where each part of a service can be, and what main knows of a bit it has
\* copied but not yet served: nobody else clears it.
ServiceInv ==
  /\ pc = "intClear" => cnt \in u8Value
  /\ pc = "handle" => cnt \in u8Value \ {LINKIF, PKTIF}
  /\ pc \in {"linkRead", "linkMask"} => cnt = LINKIF
  /\ pc \in {"receive", "pktDec", "input"} => cnt = PKTIF
  /\ pc \in TxPoints /\ ret = "input" => cnt = PKTIF
  /\ pc = "intSet" => cnt < 8
  /\ pc \in {"scan", "intClear", "handle"} /\ TXIF \in u8Value /\ cnt <= TXIF
       => TXIF \in flags
  /\ pc = "intSet" /\ TXIF \in u8Value /\ cnt < TXIF => TXIF \in flags
  /\ pc \in {"scan", "intClear", "handle", "linkRead", "linkMask", "receive",
             "pktDec"} /\ PKTIF \in u8Value /\ cnt <= PKTIF => pktcnt > 0
  /\ pc = "intSet" /\ PKTIF \in u8Value /\ cnt < PKTIF => pktcnt > 0
  /\ pc \in {"receive", "pktDec"} => PKTIF \in u8Value

\* The transmit buffer is taken exactly while the chip owes an end of
\* transmission, save between TXRTS and the assignment to bTxBusy.
TxInv ==
  /\ txrts => TXIF \notin flags
  /\ txrts \/ TXIF \in flags => bTxBusy \/ pc = "txSetBusy"
  /\ bTxBusy \/ pc = "txSetBusy" => txrts \/ TXIF \in flags
  /\ pc \in TxPoints => ~bTxBusy

\* The INT pin is low only if its edge is on the way to main, or main is about
\* to read EIR or to raise the pin by clearing INTIE.
WakeInv ==
  /\ IntLow => \/ extiPend
               \/ counter > 0
               \/ pc \in {"readEir", "intClear"}
               \/ pc = "scan" /\ \E b \in u8Value : b >= cnt
  /\ pc \in {"lwip", "check", "store", "readEir", "scan", "intClear"} => intie
  /\ pc \in TxPoints /\ ret = "lwip" => intie
  /\ pc = "store" => 1 <= tmp /\ tmp <= counter

IInv == TypeOK /\ ServiceInv /\ TxInv /\ EnabledLinkClearable /\ WakeInv
=============================================================================
