------------------------------ MODULE EncBank ------------------------------
(***************************************************************************)
(* The register-access layer of the ENC28J60 driver                        *)
(* (enc28j60_driver/Src/enc28j60_hwd.c).  The chip shows one of four       *)
(* register banks at a time; the driver remembers in dev->bnBank which one *)
(* it selected last and sends the bank-select commands only when a call    *)
(* needs another bank than the remembered one.  The variables put the      *)
(* driver's memory (bnBank) beside the chip's true selection (bsel), so    *)
(* that an access can land in a register the driver did not mean.          *)
(*                                                                         *)
(* A driver function is the sequence of the register accesses it makes, in *)
(* program order; one step of the model is one access, bank switch         *)
(* included.  Register contents are sets of tokens: a bitwise OR is a      *)
(* union, a bitwise AND NOT a difference, and the reset contents of a      *)
(* register is its own address, which makes the origin of a value visible. *)
(***************************************************************************)
EXTENDS Naturals, Sequences

VARIABLES
  bnBank,   \* dev->bnBank, the bank the driver believes is selected
  bsel,     \* ECON1.BSEL, the bank the chip really shows
  file,     \* the chip's control registers, by 8-bit address
  phy,      \* the PHY's registers, behind the MII registers of bank 2
  linkif,   \* EIR.LINKIF, which only a read of PHIR clears
  acc,      \* the local variable holding the value read last
  prog,     \* the accesses the running driver function still has to make
  started   \* enc28j60_strtDr has been called since the last MCU reset

vars == <<bnBank, bsel, file, phy, linkif, acc, prog, started>>

-----------------------------------------------------------------------------
(* Register addresses: the bank in bits 7..6, the offset in bits 4..0.     *)

bank_0 == 0
bank_1 == 64
bank_2 == 128
bank_3 == 192
Banks == {bank_0, bank_1, bank_2, bank_3}

\* dev->bank0, with the registers common to all banks (offsets 1B..1F)
bank0 == [ERDPTL |-> 0, ERDPTH |-> 1, EWRPTL |-> 2, EWRPTH |-> 3,
          ETXSTL |-> 4, ETXSTH |-> 5, ETXNDL |-> 6, ETXNDH |-> 7,
          ERXSTL |-> 8, ERXSTH |-> 9, ERXNDL |-> 10, ERXNDH |-> 11,
          ERXRDPTL |-> 12, ERXRDPTH |-> 13, EDMANDL |-> 18, EDMADSTL |-> 20,
          EIE |-> 27, EIR |-> 28, ESTAT |-> 29, ECON2 |-> 30, ECON1 |-> 31]

bank1 == [ERXFCON |-> bank_1 + 24]

bank2 == [MACON1 |-> bank_2, MACON3 |-> bank_2 + 2, MABBIPG |-> bank_2 + 4,
          MAIPGL |-> bank_2 + 6, MACLCON2 |-> bank_2 + 9,
          MAMXFLL |-> bank_2 + 10, MAMXFLH |-> bank_2 + 11,
          MICMD |-> bank_2 + 18, MIREGADR |-> bank_2 + 20,
          MIWRL |-> bank_2 + 22, MIWRH |-> bank_2 + 23,
          MIRDL |-> bank_2 + 24, MIRDH |-> bank_2 + 25]

bank3 == [MAADR1 |-> bank_3, MAADR0 |-> bank_3 + 1, MAADR3 |-> bank_3 + 2,
          MAADR2 |-> bank_3 + 3, MAADR5 |-> bank_3 + 4, MAADR4 |-> bank_3 + 5,
          MISTAT |-> bank_3 + 10]

\* dev->phyReg, shifted out of the range of the control registers
phyReg == [PHCON1 |-> 256, PHID1 |-> 258, PHID2 |-> 259, PHIE |-> 274,
           PHIR |-> 275]

Registers == {bank0[f] : f \in DOMAIN bank0}
             \cup {bank1.ERXFCON}
             \cup {bank2[f] : f \in DOMAIN bank2}
             \cup {bank3[f] : f \in DOMAIN bank3}
PhyRegisters == {phyReg[f] : f \in DOMAIN phyReg}

\* Tokens for register bits, one per name, and for whole configured values
bit == [MIIRD |-> 300, INTIE |-> 301, LINKIE |-> 302, PKTDEC |-> 303,
        TXRTS |-> 304, TXIF |-> 305, AUTOINC |-> 306, RXEN |-> 307,
        MARST |-> 308, MARXEN |-> 309, MACON3 |-> 310, PDPXMD |-> 311,
        PLNKIE |-> 312, ALLIE |-> 313, TXIE |-> 314]
Cfg(r) == 400 + r

-----------------------------------------------------------------------------
(* Register accesses and the driver functions made of them.                *)

Rd(r) == [op |-> "read", reg |-> r, set |-> {}, clr |-> {}]
Wr(r, v) == [op |-> "write", reg |-> r, set |-> v, clr |-> {}]
Modify(r, s, c) == [op |-> "modify", reg |-> r, set |-> s, clr |-> c]
BitFieldSet(r, b) == [op |-> "bfs", reg |-> r, set |-> {b}, clr |-> {}]
BitFieldClear(r, b) == [op |-> "bfc", reg |-> r, set |-> {}, clr |-> {b}]
Configure(regs) == [i \in 1 .. Len(regs) |-> Wr(regs[i], {Cfg(regs[i])})]

\* enc28j60_readPhyReg: the wait on MISTAT.BUSY is its last, successful, read
readPhyReg(addr) ==
  << Wr(bank2.MIREGADR, {addr}),
     Rd(bank2.MICMD), Modify(bank2.MICMD, {bit.MIIRD}, {}),
     Rd(bank3.MISTAT),
     Rd(bank2.MICMD), Modify(bank2.MICMD, {}, {bit.MIIRD}),
     Rd(bank2.MIRDH), Rd(bank2.MIRDL) >>

\* enc28j60_writePhyReg of the value read last with the bits s OR-ed in
writePhyReg(addr, s) ==
  << Wr(bank2.MIREGADR, {addr}),
     Modify(bank2.MIWRL, s, {}), Modify(bank2.MIWRH, s, {}),
     Rd(bank3.MISTAT) >>

phyInit ==
  readPhyReg(phyReg.PHCON1) \o writePhyReg(phyReg.PHCON1, {bit.PDPXMD})
  \o readPhyReg(phyReg.PHIE) \o writePhyReg(phyReg.PHIE, {bit.PLNKIE})

macInit ==
  << Rd(bank2.MACLCON2), Modify(bank2.MACLCON2, {}, {bit.MARST}),
     Rd(bank2.MACON1), Modify(bank2.MACON1, {bit.MARXEN}, {}),
     Rd(bank2.MACON3), Modify(bank2.MACON3, {bit.MACON3}, {}) >>
  \o Configure(<<bank2.MAMXFLL, bank2.MAMXFLH, bank2.MABBIPG, bank2.MAIPGL,
                 bank3.MAADR0, bank3.MAADR1, bank3.MAADR2, bank3.MAADR3,
                 bank3.MAADR4, bank3.MAADR5>>)

rxSetFilters == Configure(<<bank1.ERXFCON>>)

\* enc28j60_strtDr after its soft reset
strtDr ==
  <<Rd(bank0.ESTAT)>>
  \o readPhyReg(phyReg.PHID2)                                \* revision
  \o readPhyReg(phyReg.PHID2)                                \* part number
  \o readPhyReg(phyReg.PHID1) \o readPhyReg(phyReg.PHID2)    \* identifier
  \o Configure(<<bank0.ERXSTL, bank0.ERXSTH, bank0.ERDPTL, bank0.ERDPTH,
                 bank0.ERXNDL, bank0.ERXNDH, bank0.ERXRDPTL, bank0.ERXRDPTH,
                 bank0.ETXSTL, bank0.ETXSTH, bank0.ETXNDL, bank0.ETXNDH>>)
  \o phyInit \o macInit \o rxSetFilters
  \o << Wr(bank0.EIE, {bit.ALLIE, bit.INTIE, bit.LINKIE, bit.TXIE}),
        BitFieldSet(bank0.ECON2, bit.AUTOINC),
        BitFieldSet(bank0.ECON1, bit.RXEN) >>

etherReceive ==
  Configure(<<bank0.ERDPTL, bank0.ERDPTH, bank0.ERXRDPTL, bank0.ERXRDPTH>>)

etherTransmit ==
  Configure(<<bank0.EWRPTL, bank0.EWRPTH, bank0.ETXSTL, bank0.ETXSTH,
              bank0.ETXNDL, bank0.ETXNDH>>)
  \o << BitFieldClear(bank0.EIR, bit.TXIF), BitFieldSet(bank0.EIE, bit.TXIE),
        BitFieldSet(bank0.EIE, bit.INTIE), BitFieldSet(bank0.ECON1, bit.TXRTS) >>

readEir == <<Rd(bank0.EIR)>>
global_int_Clear == <<BitFieldClear(bank0.EIE, bit.INTIE)>>
global_Int_Set == <<BitFieldSet(bank0.EIE, bit.INTIE)>>

\* enc28j60_clear_interrupt: PKTIF is cleared by counting the packet down
clear_interrupt(pktif) ==
  IF pktif THEN <<BitFieldSet(bank0.ECON2, bit.PKTDEC)>>
           ELSE <<BitFieldClear(bank0.EIR, bit.TXIF)>>

\* Mutant: without the mask, whose access to EIE selects bank 0 again
linkServiceNoMask == readPhyReg(phyReg.PHIR)

\* The service of LINKIF in main(): read PHIR, then mask the interrupt
linkService ==
  readPhyReg(phyReg.PHIR) \o <<BitFieldClear(bank0.EIE, bit.LINKIE)>>

\* What main() asks of the driver once it runs
RunCalls == {readEir, global_int_Clear, global_Int_Set, clear_interrupt(TRUE),
             clear_interrupt(FALSE), etherReceive, etherTransmit, linkService}

-----------------------------------------------------------------------------
(* Bank selection.                                                         *)

convertRegValToBank(v) == v - (v % 64)
convertBankToBits(b) == b \div 64

\* Mutants of enc28j60_bankChange: the memory holds the two bits instead of
\* the bank; BSEL is not cleared before the bits are set; bank 0, having no
\* bits to set, sends no command at all.
bankChangeKeepsBits(b) == [selected |-> b, believed |-> convertBankToBits(b)]
bankChangeNoClear(b) ==
  [selected |-> IF b \in {bsel, bank_0} THEN bsel
                ELSE IF bsel = bank_0 THEN b ELSE bank_3,
   believed |-> IF convertBankToBits(b) # 0 THEN b ELSE bnBank]
bankChangeSkipsZero(b) ==
  IF convertBankToBits(b) # 0 THEN [selected |-> b, believed |-> b]
                              ELSE [selected |-> bsel, believed |-> bnBank]

\* enc28j60_bankChange: BSEL is cleared, then the bits of b are set; the
\* memory is updated in the branch that sets bits, so never for bank 0.
bankChange(b) ==
  [selected |-> b,
   believed |-> IF convertBankToBits(b) # 0 THEN b ELSE bnBank]

\* Mutant: the switch in enc28j60_bankChange lacks its case bank_3
SwitchForNoBank3(reg) ==
  LET b == convertRegValToBank(reg)
  IN  IF b # bnBank /\ bnBank \in Banks \ {bank_3}
      THEN bankChange(b)
      ELSE [selected |-> bsel, believed |-> bnBank]

\* The prologue of every register access
SwitchFor(reg) ==
  LET b == convertRegValToBank(reg)
  IN  IF b # bnBank /\ bnBank \in Banks
      THEN bankChange(b)
      ELSE [selected |-> bsel, believed |-> bnBank]

\* The register an access to reg hits with bank b selected: offsets 1B..1F
\* are the same registers in every bank.
HitIn(b, reg) == IF reg % 32 >= 27 THEN reg % 32 ELSE b + (reg % 32)
Hit(reg) == HitIn(SwitchFor(reg).selected, reg)

\* Contents after reset.  Every cell an access can hit is in the file.
ResetFile ==
  [a \in {HitIn(b, r) : b \in Banks, r \in Registers} |->
     IF a = bank2.MIREGADR THEN {phyReg.PHCON1} ELSE {a}]
ResetPhy == [r \in PhyRegisters |-> {r}]

-----------------------------------------------------------------------------
Init ==
  /\ bnBank = bank_0
  /\ bsel \in Banks          \* the chip may have been running before
  /\ file = ResetFile
  /\ phy = ResetPhy
  /\ linkif = FALSE
  /\ acc = {}
  /\ prog = <<>>
  /\ started = FALSE

\* main() calls enc28j60_strtDr, which begins with the soft reset
Start ==
  /\ ~started
  /\ started' = TRUE
  /\ bsel' = bank_0
  /\ file' = ResetFile
  /\ phy' = ResetPhy
  /\ linkif' = FALSE
  /\ prog' = strtDr
  /\ UNCHANGED <<bnBank, acc>>

Call ==
  /\ started /\ prog = <<>>
  /\ \E p \in RunCalls : prog' = p
  /\ UNCHANGED <<bnBank, bsel, file, phy, linkif, acc, started>>

\* The PHY register MIREGADR names
MiiTarget == CHOOSE r \in PhyRegisters : r \in file[bank2.MIREGADR]

\* What the chip does with a control register write of v to cell h: setting
\* MICMD.MIIRD fetches a PHY register (reading PHIR clears LINKIF), a write
\* of MIWRH stores one.
ChipWrite(h, v) ==
  IF h = bank2.MICMD /\ bit.MIIRD \in v
  THEN /\ file' = [file EXCEPT ![h] = v, ![bank2.MIRDL] = phy[MiiTarget],
                               ![bank2.MIRDH] = phy[MiiTarget]]
       /\ linkif' = (linkif /\ MiiTarget # phyReg.PHIR)
       /\ UNCHANGED phy
  ELSE /\ file' = [file EXCEPT ![h] = v]
       /\ phy' = IF h = bank2.MIWRH THEN [phy EXCEPT ![MiiTarget] = v] ELSE phy
       /\ UNCHANGED linkif

\* One register access: bank switch if the driver thinks it needs one, then
\* the SPI command
Access ==
  /\ prog # <<>>
  /\ LET a == Head(prog)
         h == Hit(a.reg)
     IN  /\ bsel' = SwitchFor(a.reg).selected
         /\ bnBank' = SwitchFor(a.reg).believed
         /\ \/ /\ a.op = "read"
               /\ acc' = file[h]
               /\ UNCHANGED <<file, phy, linkif>>
            \/ /\ a.op = "write"
               /\ ChipWrite(h, a.set)
               /\ UNCHANGED acc
            \/ /\ a.op = "modify"
               /\ ChipWrite(h, (acc \cup a.set) \ a.clr)
               /\ UNCHANGED acc
            \/ /\ a.op \in {"bfs", "bfc"}
               /\ ChipWrite(h, (file[h] \cup a.set) \ a.clr)
               /\ UNCHANGED acc
  /\ prog' = Tail(prog)
  /\ UNCHANGED started

\* The link goes up or down once strtDr has enabled the PHY's interrupt
LinkChange ==
  /\ bit.PLNKIE \in phy[phyReg.PHIE]
  /\ ~linkif
  /\ linkif' = TRUE
  /\ UNCHANGED <<bnBank, bsel, file, phy, acc, prog, started>>

\* The MCU restarts at any point; the chip keeps its state
McuReset ==
  /\ started
  /\ bnBank' = bank_0
  /\ acc' = {}
  /\ prog' = <<>>
  /\ started' = FALSE
  /\ UNCHANGED <<bsel, file, phy, linkif>>

Next == Start \/ Call \/ Access \/ LinkChange \/ McuReset

Spec == Init /\ [][Next]_vars

-----------------------------------------------------------------------------
(* Properties.                                                             *)

\* The driver's idea of the bank and the chip's are banks, and what is still
\* to be done is a sequence of register accesses.
AccessType == [op : {"read", "write", "modify", "bfs", "bfc"}, reg : Registers,
               set : SUBSET Nat, clr : SUBSET Nat]
TypeOK ==
  /\ bnBank \in Banks /\ bsel \in Banks
  /\ started \in BOOLEAN /\ linkif \in BOOLEAN
  /\ prog \in Seq(AccessType)

\* The memory enc28j60_bankChange keeps of the selected bank is stale in one
\* way only: the chip may be in bank 0 while the driver remembers another bank.
CacheSound == started => (bnBank = bsel \/ bsel = bank_0)

\* Despite the stale memory no access to a bank-0 or common register is ever
\* misdirected: reception, transmission and interrupt control, which use only
\* those (etherReceive, etherTransmit, clear_interrupt), always hit the
\* register the driver meant.
DataPathLands ==
  started => \A f \in DOMAIN bank0 : Hit(bank0[f]) = bank0[f]

\* The endless wait of enc28j60_readPhyReg and writePhyReg always polls MISTAT
\* itself and never, the bank memory being stale, some register whose low bit
\* would stay set and stop the firmware.
BusyWaitLands ==
  prog # <<>> /\ Head(prog).reg = bank3.MISTAT
    => Hit(bank3.MISTAT) = bank3.MISTAT

\* What enc28j60_strtDr leaves in the registers that nothing rewrites later
Expected(r) ==
  CASE r = bank2.MACLCON2 -> {r}
    [] r = bank2.MACON1 -> {r, bit.MARXEN}
    [] r = bank2.MACON3 -> {r, bit.MACON3}
    [] OTHER -> {Cfg(r)}
StaticConfig ==
  {bank0.ERXSTL, bank0.ERXSTH, bank0.ERXNDL, bank0.ERXNDH, bank1.ERXFCON}
  \cup {bank2[f] : f \in {"MACLCON2", "MACON1", "MACON3", "MAMXFLL", "MAMXFLH",
                          "MABBIPG", "MAIPGL"}}
  \cup {bank3[f] : f \in DOMAIN bank3 \ {"MISTAT"}}
\* Running: strtDr has returned, and no call after it is half done
AtRest == started /\ prog = <<>>

\* After enc28j60_strtDr, whatever the bank memory was, wherever the MCU was
\* reset before, and whatever calls follow, the receive buffer, the filters,
\* the MAC and its address hold exactly what the driver meant to program, and
\* the PHY reports link changes.
StartConfigured ==
  (AtRest) =>
     /\ \A r \in StaticConfig : file[r] = Expected(r)
     /\ phy[phyReg.PHIE] = {phyReg.PHIE, bit.PLNKIE}

\* Between calls the chip always rests in bank 0, and the driver remembers
\* bank 1 (from ERXFCON) until the first link service and bank 2 (from MIRDL)
\* ever after.  It is what the interrupt model takes for granted.
RestState == AtRest => bsel = bank_0 /\ bnBank \in {bank_1, bank_2}

\* enc28j60_hwd.c:63 "//Configure PHCON1": what phyInit writes back to PHCON1
\* is PHCON1's own contents with the duplex bit added.
Phcon1Configured ==
  AtRest => phy[phyReg.PHCON1] = {phyReg.PHCON1, bit.PDPXMD}

-----------------------------------------------------------------------------
(* The inductive invariant behind them.                                    *)

Bank(a) == convertRegValToBank(a.reg)

\* The registers through which the PHY is reached.  Accesses to these may be
\* misdirected; in bank 0 their offsets belong to registers nobody uses.
Mii == {bank2.MIREGADR, bank2.MICMD, bank2.MIWRL, bank2.MIWRH, bank2.MIRDL,
        bank2.MIRDH}
Careful(a) == Bank(a) # bank_0 /\ a.reg \notin Mii

\* What is left to do has only accesses that hit what they mean, MII apart:
\* one outside bank 0 comes directly behind one in another bank, or behind
\* one that hit its register in the same bank.
Lands(s) ==
  \A i \in 2 .. Len(s) :
    Careful(s[i]) => /\ Bank(s[i - 1]) # bank_0
                     /\ Bank(s[i - 1]) # Bank(s[i]) \/ s[i - 1].reg \notin Mii
LandInv ==
  /\ Lands(prog) /\ (prog # <<>> => started)
  /\ prog # <<>> /\ Careful(prog[1]) => bnBank # Bank(prog[1]) \/ bnBank = bsel

\* What is left to do ends in bank 0, and an access to bank 3 is not the last
\* one outside bank 0.
Settles(s) ==
  /\ s # <<>> => Bank(s[Len(s)]) = bank_0
  /\ \A i \in 1 .. Len(s) : Bank(s[i]) = bank_3 =>
       \E j \in i + 1 .. Len(s) : Bank(s[j]) \in {bank_1, bank_2}
RestInv ==
  /\ Settles(prog)
  /\ AtRest => bsel = bank_0
  /\ started /\ (\A i \in 1 .. Len(prog) : Bank(prog[i]) = bank_0)
       => bnBank \in {bank_1, bank_2}

\* The static registers that are written as a whole, and the others
Modified == {bank2.MACLCON2, bank2.MACON1, bank2.MACON3}
Written == StaticConfig \ Modified

\* What is left to do gives a static register no other value than the meant
\* one; a modified one was read directly before, now or to come.
Writes(a) == a = Wr(a.reg, Expected(a.reg))
Modifies(a) == /\ a.op = "modify" /\ a.set = Expected(a.reg) \ {a.reg}
               /\ a.clr \cap Expected(a.reg) = {}
Configures(s, value) ==
  \A i \in 1 .. Len(s) :
    /\ s[i].reg \in Written => Writes(s[i])
    /\ s[i].reg \in Modified =>
         \/ s[i] = Rd(s[i].reg)
         \/ /\ Modifies(s[i])
            /\ IF i = 1 THEN value \in {{s[i].reg}, Expected(s[i].reg)}
                        ELSE s[i - 1] = Rd(s[i].reg)

\* A static register has its value or will get it; a modified one is as the
\* reset left it until then.
FileInv ==
  /\ DOMAIN file = DOMAIN ResetFile
  /\ Configures(prog, acc)
  /\ started => \A r \in StaticConfig :
       \/ file[r] = Expected(r)
       \/ /\ \E i \in 1 .. Len(prog) : prog[i].reg = r /\ prog[i].op # "read"
          /\ r \in Modified => file[r] = {r}

\* strtDr behind phyInit: the number of accesses is where the driver is
AfterPhyInit == Len(macInit) + Len(rxSetFilters) + 3

\* The accesses left, while strtDr is at access i of reading and writing back
\* PHCON1, then PHIE, in phyInit
AtPhcon1(i) == Len(prog) = AfterPhyInit + 25 - i
AtPhie(i) == Len(prog) = AfterPhyInit + 13 - i

\* The MII registers while phyInit reads and writes back PHIE, which begins
\* with another bank selected: what it writes to PHIE is PHIE's own value with
\* the link bit added.  PHCON1 is written in between, so MIREGADR names it.
PhyInv ==
  /\ DOMAIN phy = PhyRegisters
  /\ started =>
       /\ IF Len(prog) > AfterPhyInit
          THEN /\ Len(prog) <= Len(strtDr)
               /\ \A i \in 1 .. Len(prog) :
                    prog[i] = strtDr[(Len(strtDr) - Len(prog)) + i]
          ELSE \A i \in 1 .. Len(prog) : prog[i].reg # bank2.MIWRH
       /\ phy[phyReg.PHIE] = IF Len(prog) > AfterPhyInit + 1 THEN {phyReg.PHIE}
                             ELSE {phyReg.PHIE, bit.PLNKIE}
       /\ AtPhcon1(5) \/ AtPhie(1) \/ AtPhie(5) => bnBank = bank_3
       /\ \A i \in 6 .. 11 : AtPhcon1(i) => bnBank = bank_2 /\ bsel = bank_2
       /\ \A i \in (2 .. 4) \cup (6 .. 11) :
            AtPhie(i) => bnBank = bank_2 /\ bsel = bank_2
       /\ AtPhcon1(10) \/ AtPhcon1(11) => file[bank2.MIREGADR] = {phyReg.PHCON1}
       /\ \A i \in 2 .. 11 : AtPhie(i) => file[bank2.MIREGADR] = {phyReg.PHIE}
       /\ \A i \in 4 .. 8 : AtPhie(i) => file[bank2.MIRDL] = {phyReg.PHIE}
       /\ \A i \in 9 .. 11 : AtPhie(i) => acc = {phyReg.PHIE}

BankInv == TypeOK /\ CacheSound
IInv == BankInv /\ LandInv /\ RestInv /\ FileInv /\ PhyInv
=============================================================================
