---------------------------- MODULE EncBankProofs ----------------------------
(***************************************************************************)
(* Proofs about EncBank: whatever functions the driver runs, in whatever   *)
(* order, its memory of the selected bank is stale in one way only, and    *)
(* that way does not touch the data path.  Where the stale memory does     *)
(* send an access astray, it is one to the MII registers, so start-up      *)
(* leaves what it should and every wait looks at the right register.       *)
(***************************************************************************)
EXTENDS EncBank, SequenceTheorems, TLAPS

-----------------------------------------------------------------------------
(* Registers.                                                              *)

\* Where the registers of each bank are.
LEMMA BankRanges ==
  /\ \A f \in DOMAIN bank0 : bank0[f] \in 0 .. 31
  /\ \A f \in DOMAIN bank1 : bank1[f] \in 64 .. 90
  /\ \A f \in DOMAIN bank2 : bank2[f] \in 128 .. 154
  /\ \A f \in DOMAIN bank3 : bank3[f] \in 192 .. 218
  BY DEF bank0, bank1, bank2, bank3, bank_1, bank_2, bank_3

\* Bit 5 of an address is never set, and only bank 0 has the common registers.
LEMMA RegisterRange ==
  \A r \in Registers :
     r \in (0 .. 31) \cup (64 .. 90) \cup (128 .. 154) \cup (192 .. 218)
<1>1. bank1.ERXFCON \in 64 .. 90
  BY DEF bank1, bank_1
<1> QED
  BY <1>1, BankRanges DEF Registers

\* The registers the driver names are registers.
LEMMA InRegisters ==
  /\ \A f \in DOMAIN bank0 : bank0[f] \in Registers
  /\ \A f \in DOMAIN bank2 : bank2[f] \in Registers
  /\ \A f \in DOMAIN bank3 : bank3[f] \in Registers
  /\ bank1.ERXFCON \in Registers
  BY DEF Registers

\* Their names, for the records' sake.
LEMMA RegisterNames ==
  /\ DOMAIN bank0 = {"ERDPTL", "ERDPTH", "EWRPTL", "EWRPTH", "ETXSTL", "ETXSTH",
                     "ETXNDL", "ETXNDH", "ERXSTL", "ERXSTH", "ERXNDL", "ERXNDH",
                     "ERXRDPTL", "ERXRDPTH", "EDMANDL", "EDMADSTL", "EIE", "EIR",
                     "ESTAT", "ECON2", "ECON1"}
  /\ DOMAIN bank2 = {"MACON1", "MACON3", "MABBIPG", "MAIPGL", "MACLCON2", "MAMXFLL",
                     "MAMXFLH", "MICMD", "MIREGADR", "MIWRL", "MIWRH", "MIRDL",
                     "MIRDH"}
  /\ DOMAIN bank3 = {"MAADR1", "MAADR0", "MAADR3", "MAADR2", "MAADR5", "MAADR4",
                     "MISTAT"}
  BY DEF bank0, bank2, bank3

\* The tokens the driver sets and clears are numbers.
LEMMA BitType ==
  /\ bit.MARST \in Nat /\ bit.MARXEN \in Nat /\ bit.MACON3 \in Nat
  /\ bit.ALLIE \in Nat /\ bit.INTIE \in Nat /\ bit.LINKIE \in Nat
  /\ bit.TXIE \in Nat /\ bit.AUTOINC \in Nat /\ bit.RXEN \in Nat
  /\ bit.PKTDEC \in Nat /\ bit.TXIF \in Nat /\ bit.TXRTS \in Nat
  BY DEF bit

\* With its own bank selected, an access hits its register.
LEMMA OwnBank ==
  \A r \in Registers : /\ convertRegValToBank(r) \in Banks
                        /\ HitIn(convertRegValToBank(r), r) = r
  BY RegisterRange
     DEF HitIn, convertRegValToBank, Banks, bank_0, bank_1, bank_2, bank_3

\* In which bank a register is follows from its address.
LEMMA BankOf ==
  \A r \in Registers :
     /\ convertRegValToBank(r) = bank_0 <=> r \in 0 .. 31
     /\ convertRegValToBank(r) = bank_1 <=> r \in 64 .. 90
     /\ convertRegValToBank(r) = bank_2 <=> r \in 128 .. 154
     /\ convertRegValToBank(r) = bank_3 <=> r \in 192 .. 218
  BY RegisterRange DEF convertRegValToBank, bank_0, bank_1, bank_2, bank_3

\* The addresses of the MII registers,
LEMMA MiiAddresses ==
  /\ bank2.MIREGADR = 148 /\ bank2.MICMD = 146 /\ bank2.MIWRL = 150
  /\ bank2.MIWRH = 151 /\ bank2.MIRDL = 152 /\ bank2.MIRDH = 153
  /\ bank3.MISTAT = 202
  /\ Mii = {148, 146, 150, 151, 152, 153}
  BY DEF bank2, bank3, bank_2, bank_3, Mii

\* of the modified registers,
LEMMA ModifiedAddresses ==
  /\ bank2.MACLCON2 = 137 /\ bank2.MACON1 = 128 /\ bank2.MACON3 = 130
  /\ Modified = {137, 128, 130}
  BY DEF bank2, bank_2, Modified

\* and of all that stay as start-up leaves them.
LEMMA StaticAddresses ==
  /\ StaticConfig = {8, 9, 10, 11, 88, 137, 128, 130, 138, 139, 132, 134,
                     192, 193, 194, 195, 196, 197}
  /\ Written = {8, 9, 10, 11, 88, 138, 139, 132, 134,
                192, 193, 194, 195, 196, 197}
<1>1. {bank0.ERXSTL, bank0.ERXSTH, bank0.ERXNDL, bank0.ERXNDH, bank1.ERXFCON}
        = {8, 9, 10, 11, 88}
  BY DEF bank0, bank1, bank_1
<1>2. {bank2[f] : f \in {"MACLCON2", "MACON1", "MACON3", "MAMXFLL", "MAMXFLH",
                         "MABBIPG", "MAIPGL"}}
        = {137, 128, 130, 138, 139, 132, 134}
  BY DEF bank2, bank_2
<1>3. {bank3[f] : f \in DOMAIN bank3 \ {"MISTAT"}}
        = {192, 193, 194, 195, 196, 197}
  BY RegisterNames DEF bank3, bank_3
<1>4. StaticConfig = {8, 9, 10, 11, 88, 137, 128, 130, 138, 139, 132, 134,
                     192, 193, 194, 195, 196, 197}
  BY <1>1, <1>2, <1>3 DEF StaticConfig
<1> QED
  BY <1>4, ModifiedAddresses DEF Written

\* Static registers are registers, and none is an MII register or the cell an
\* MII access hits in bank 0.
LEMMA StaticApart ==
  \A r \in StaticConfig : /\ r \in Registers /\ r \in Nat
                          /\ r \notin Mii /\ r + 128 \notin Mii
                          /\ r # bank3.MISTAT
<1>1. StaticConfig \subseteq Registers
  BY RegisterNames, InRegisters DEF StaticConfig
<1> QED
  BY <1>1, StaticAddresses, MiiAddresses

-----------------------------------------------------------------------------
(* Every driver function is a sequence of register accesses.               *)

\* The parts of enc28j60_strtDr around phyInit, macInit and rxSetFilters
identify ==
  <<Rd(bank0.ESTAT)>>
  \o readPhyReg(phyReg.PHID2) \o readPhyReg(phyReg.PHID2)
  \o readPhyReg(phyReg.PHID1) \o readPhyReg(phyReg.PHID2)
pointers ==
  <<bank0.ERXSTL, bank0.ERXSTH, bank0.ERDPTL, bank0.ERDPTH,
    bank0.ERXNDL, bank0.ERXNDH, bank0.ERXRDPTL, bank0.ERXRDPTH,
    bank0.ETXSTL, bank0.ETXSTH, bank0.ETXNDL, bank0.ETXNDH>>
enable ==
  << Wr(bank0.EIE, {bit.ALLIE, bit.INTIE, bit.LINKIE, bit.TXIE}),
     BitFieldSet(bank0.ECON2, bit.AUTOINC),
     BitFieldSet(bank0.ECON1, bit.RXEN) >>

\* and those of macInit
macModes ==
  << Rd(bank2.MACLCON2), Modify(bank2.MACLCON2, {}, {bit.MARST}),
     Rd(bank2.MACON1), Modify(bank2.MACON1, {bit.MARXEN}, {}),
     Rd(bank2.MACON3), Modify(bank2.MACON3, {bit.MACON3}, {}) >>
macValues ==
  <<bank2.MAMXFLL, bank2.MAMXFLH, bank2.MABBIPG, bank2.MAIPGL,
    bank3.MAADR0, bank3.MAADR1, bank3.MAADR2, bank3.MAADR3,
    bank3.MAADR4, bank3.MAADR5>>

\* A sequence of accesses followed by another is one.
LEMMA ConcatType ==
  ASSUME NEW s \in Seq(AccessType), NEW t \in Seq(AccessType)
  PROVE  s \o t \in Seq(AccessType)
  OBVIOUS

\* What is left of a sequence of accesses after one step is one.
LEMMA TailType ==
  ASSUME NEW s \in Seq(AccessType), s # <<>>
  PROVE  Head(s) \in AccessType /\ Tail(s) \in Seq(AccessType)
  OBVIOUS

\* A register read is an access.
LEMMA ReadType == \A r \in Registers : Rd(r) \in AccessType
  BY DEF Rd, AccessType

\* So is a register write (enc28j60_writeReg),
LEMMA WriteType == \A r \in Registers, v \in SUBSET Nat : Wr(r, v) \in AccessType
  BY DEF Wr, AccessType

\* a write of the value read last with bits changed,
LEMMA ModifyType ==
  \A r \in Registers, s \in SUBSET Nat, c \in SUBSET Nat :
     Modify(r, s, c) \in AccessType
  BY DEF Modify, AccessType

\* and a bit field set or clear.
LEMMA BitFieldType ==
  \A r \in Registers, b \in Nat : /\ BitFieldSet(r, b) \in AccessType
                                 /\ BitFieldClear(r, b) \in AccessType
  BY DEF BitFieldSet, BitFieldClear, AccessType

\* The elements of a sequence.
LEMMA ElementOfSequence ==
  ASSUME NEW R, NEW s \in Seq(R), NEW i \in 1 .. Len(s)
  PROVE  s[i] \in R
  OBVIOUS

\* A configured value is a token.
LEMMA CfgType == \A r \in Registers : Cfg(r) \in Nat
  BY RegisterRange DEF Cfg

\* A run of configuration writes (macInit, strtDr, etherTransmit).
LEMMA ConfigureType ==
  ASSUME NEW regs \in Seq(Registers)
  PROVE  Configure(regs) \in Seq(AccessType)
<1>1. ASSUME NEW i \in 1 .. Len(regs)
      PROVE  Wr(regs[i], {Cfg(regs[i])}) \in AccessType
  <2>1. regs[i] \in Registers
    BY ElementOfSequence
  <2>2. Cfg(regs[i]) \in Nat
    BY <2>1, CfgType
  <2> QED
    BY <2>1, <2>2, WriteType
<1>2. Len(regs) \in Nat
  OBVIOUS
<1>3. [i \in 1 .. Len(regs) |-> Wr(regs[i], {Cfg(regs[i])})]
        \in [1 .. Len(regs) -> AccessType]
  BY <1>1
<1>4. ASSUME NEW n \in Nat, NEW f \in [1 .. n -> AccessType]
      PROVE  f \in Seq(AccessType)
  OBVIOUS
<1> QED
  BY <1>2, <1>3, <1>4 DEF Configure

\* The registers the PHY is reached through.
LEMMA MiiType ==
  /\ bank2.MIREGADR \in Registers /\ bank2.MICMD \in Registers
  /\ bank2.MIWRL \in Registers /\ bank2.MIWRH \in Registers
  /\ bank2.MIRDL \in Registers /\ bank2.MIRDH \in Registers
  /\ bank3.MISTAT \in Registers /\ bit.MIIRD \in Nat
<1>1. bit.MIIRD \in Nat
  BY DEF bit
<1> QED
  BY <1>1, RegisterNames, InRegisters

\* enc28j60_readPhyReg is a sequence of accesses,
LEMMA ReadPhyType ==
  ASSUME NEW addr \in Nat
  PROVE  readPhyReg(addr) \in Seq(AccessType)
<1>1. /\ Wr(bank2.MIREGADR, {addr}) \in AccessType
      /\ Rd(bank2.MICMD) \in AccessType
      /\ Modify(bank2.MICMD, {bit.MIIRD}, {}) \in AccessType
      /\ Rd(bank3.MISTAT) \in AccessType
      /\ Modify(bank2.MICMD, {}, {bit.MIIRD}) \in AccessType
      /\ Rd(bank2.MIRDH) \in AccessType
      /\ Rd(bank2.MIRDL) \in AccessType
  BY MiiType, ReadType, WriteType, ModifyType
<1> QED
  BY <1>1 DEF readPhyReg

\* and so is enc28j60_writePhyReg.
LEMMA WritePhyType ==
  ASSUME NEW addr \in Nat, NEW s \in SUBSET Nat
  PROVE  writePhyReg(addr, s) \in Seq(AccessType)
<1>1. /\ Wr(bank2.MIREGADR, {addr}) \in AccessType
      /\ Modify(bank2.MIWRL, s, {}) \in AccessType
      /\ Modify(bank2.MIWRH, s, {}) \in AccessType
      /\ Rd(bank3.MISTAT) \in AccessType
  BY MiiType, ReadType, WriteType, ModifyType
<1> QED
  BY <1>1 DEF writePhyReg

\* So are the parts of macInit.
LEMMA MacPartsType ==
  macModes \in Seq(AccessType) /\ macValues \in Seq(Registers)
<1>1. /\ bank2.MACLCON2 \in Registers /\ bank2.MACON1 \in Registers
      /\ bank2.MACON3 \in Registers
  BY RegisterNames, InRegisters
<1>2. /\ Rd(bank2.MACLCON2) \in AccessType
      /\ Modify(bank2.MACLCON2, {}, {bit.MARST}) \in AccessType
      /\ Rd(bank2.MACON1) \in AccessType
      /\ Modify(bank2.MACON1, {bit.MARXEN}, {}) \in AccessType
      /\ Rd(bank2.MACON3) \in AccessType
      /\ Modify(bank2.MACON3, {bit.MACON3}, {}) \in AccessType
  BY <1>1, BitType, ReadType, ModifyType
<1>3. macModes \in Seq(AccessType)
  BY <1>2 DEF macModes
<1>4. macValues \in Seq(Registers)
  BY RegisterNames, InRegisters DEF macValues
<1> QED
  BY <1>3, <1>4

\* The start-up functions are sequences of accesses.
LEMMA StartUpType ==
  /\ phyInit \in Seq(AccessType)
  /\ macInit \in Seq(AccessType)
  /\ rxSetFilters \in Seq(AccessType)
<1>1. phyInit \in Seq(AccessType)
  <2>1. /\ phyReg.PHCON1 \in Nat /\ phyReg.PHIE \in Nat
        /\ {bit.PDPXMD} \in SUBSET Nat /\ {bit.PLNKIE} \in SUBSET Nat
    BY DEF phyReg, bit
  <2>2. /\ readPhyReg(phyReg.PHCON1) \in Seq(AccessType)
        /\ writePhyReg(phyReg.PHCON1, {bit.PDPXMD}) \in Seq(AccessType)
        /\ readPhyReg(phyReg.PHIE) \in Seq(AccessType)
        /\ writePhyReg(phyReg.PHIE, {bit.PLNKIE}) \in Seq(AccessType)
    BY <2>1, ReadPhyType, WritePhyType
  <2> QED
    BY <2>2, ConcatType DEF phyInit
<1>2. macInit \in Seq(AccessType)
  BY MacPartsType, ConfigureType, ConcatType DEF macInit, macModes, macValues
<1>3. rxSetFilters \in Seq(AccessType)
  <2>1. <<bank1.ERXFCON>> \in Seq(Registers)
    BY InRegisters
  <2> QED
    BY <2>1, ConfigureType DEF rxSetFilters
<1> QED
  BY <1>1, <1>2, <1>3

\* And so are the parts of strtDr around them.
LEMMA PartsType ==
  /\ identify \in Seq(AccessType)
  /\ pointers \in Seq(Registers)
  /\ enable \in Seq(AccessType)
<1>1. identify \in Seq(AccessType)
  <2>1. <<Rd(bank0.ESTAT)>> \in Seq(AccessType)
    <3>1. bank0.ESTAT \in Registers
      BY RegisterNames, InRegisters
    <3> QED
      BY <3>1, ReadType
  <2>2. phyReg.PHID2 \in Nat /\ phyReg.PHID1 \in Nat
    BY DEF phyReg
  <2>3. /\ readPhyReg(phyReg.PHID2) \in Seq(AccessType)
        /\ readPhyReg(phyReg.PHID1) \in Seq(AccessType)
    BY <2>2, ReadPhyType
  <2> QED
    BY <2>1, <2>3, ConcatType DEF identify
<1>2. pointers \in Seq(Registers)
  BY RegisterNames, InRegisters DEF pointers
<1>3. enable \in Seq(AccessType)
  <2>1. /\ bank0.EIE \in Registers /\ bank0.ECON2 \in Registers
        /\ bank0.ECON1 \in Registers
        /\ {bit.ALLIE, bit.INTIE, bit.LINKIE, bit.TXIE} \in SUBSET Nat
    BY RegisterNames, InRegisters, BitType
  <2>2. /\ Wr(bank0.EIE, {bit.ALLIE, bit.INTIE, bit.LINKIE, bit.TXIE})
              \in AccessType
        /\ BitFieldSet(bank0.ECON2, bit.AUTOINC) \in AccessType
        /\ BitFieldSet(bank0.ECON1, bit.RXEN) \in AccessType
    BY <2>1, BitType, WriteType, BitFieldType
  <2> QED
    BY <2>2 DEF enable
<1> QED
  BY <1>1, <1>2, <1>3

\* enc28j60_strtDr is made of these parts.
LEMMA StrtDrParts ==
  strtDr = identify \o Configure(pointers) \o phyInit \o macInit
           \o rxSetFilters \o enable
<1>1. identify \o Configure(pointers) =
        <<Rd(bank0.ESTAT)>>
        \o readPhyReg(phyReg.PHID2) \o readPhyReg(phyReg.PHID2)
        \o readPhyReg(phyReg.PHID1) \o readPhyReg(phyReg.PHID2)
        \o Configure(pointers)
  BY DEF identify
<1> QED
  BY <1>1 DEF strtDr, pointers, enable

\* enc28j60_strtDr is a sequence of accesses.
LEMMA StrtDrType == strtDr \in Seq(AccessType)
  BY PartsType, StartUpType, StrtDrParts, ConfigureType, ConcatType

\* Every call main() makes of the running driver is a sequence of accesses.
LEMMA RunCallsType == \A p \in RunCalls : p \in Seq(AccessType)
<1>1. /\ bank0.EIR \in Registers /\ bank0.EIE \in Registers
      /\ bank0.ECON2 \in Registers /\ bank0.ECON1 \in Registers
      /\ bit.INTIE \in Nat /\ bit.PKTDEC \in Nat /\ bit.TXIF \in Nat
      /\ bit.TXIE \in Nat /\ bit.TXRTS \in Nat /\ bit.LINKIE \in Nat
  BY RegisterNames, InRegisters, BitType
<1>2. /\ Rd(bank0.EIR) \in AccessType
      /\ BitFieldClear(bank0.EIE, bit.INTIE) \in AccessType
      /\ BitFieldSet(bank0.EIE, bit.INTIE) \in AccessType
      /\ BitFieldSet(bank0.EIE, bit.TXIE) \in AccessType
      /\ BitFieldClear(bank0.EIE, bit.LINKIE) \in AccessType
      /\ BitFieldSet(bank0.ECON2, bit.PKTDEC) \in AccessType
      /\ BitFieldSet(bank0.ECON1, bit.TXRTS) \in AccessType
      /\ BitFieldClear(bank0.EIR, bit.TXIF) \in AccessType
  BY <1>1, ReadType, BitFieldType
<1>3. /\ readEir \in Seq(AccessType)
      /\ global_int_Clear \in Seq(AccessType)
      /\ global_Int_Set \in Seq(AccessType)
      /\ clear_interrupt(TRUE) \in Seq(AccessType)
      /\ clear_interrupt(FALSE) \in Seq(AccessType)
  BY <1>2 DEF readEir, global_int_Clear, global_Int_Set, clear_interrupt
<1>4. etherReceive \in Seq(AccessType)
  <2>1. <<bank0.ERDPTL, bank0.ERDPTH, bank0.ERXRDPTL, bank0.ERXRDPTH>>
          \in Seq(Registers)
    BY RegisterNames, InRegisters
  <2> QED
    BY <2>1, ConfigureType DEF etherReceive
<1>5. etherTransmit \in Seq(AccessType)
  <2>1. <<bank0.EWRPTL, bank0.EWRPTH, bank0.ETXSTL, bank0.ETXSTH,
          bank0.ETXNDL, bank0.ETXNDH>> \in Seq(Registers)
    BY RegisterNames, InRegisters
  <2>2. << BitFieldClear(bank0.EIR, bit.TXIF), BitFieldSet(bank0.EIE, bit.TXIE),
           BitFieldSet(bank0.EIE, bit.INTIE),
           BitFieldSet(bank0.ECON1, bit.TXRTS) >> \in Seq(AccessType)
    BY <1>2
  <2> QED
    BY <2>1, <2>2, ConfigureType, ConcatType DEF etherTransmit
<1>6. linkService \in Seq(AccessType)
  <2>1. phyReg.PHIR \in Nat
    BY DEF phyReg
  <2>2. <<BitFieldClear(bank0.EIE, bit.LINKIE)>> \in Seq(AccessType)
    BY <1>2
  <2> QED
    BY <2>1, <2>2, ReadPhyType, ConcatType DEF linkService
<1> QED
  BY <1>3, <1>4, <1>5, <1>6 DEF RunCalls

-----------------------------------------------------------------------------
(* What the driver functions are made of.                                  *)

\* One sequence behind another: length and elements.
LEMMA ConcatAt ==
  ASSUME NEW s \in Seq(AccessType), NEW t \in Seq(AccessType),
         NEW w, w = s \o t
  PROVE  /\ w \in Seq(AccessType)
         /\ Len(w) = Len(s) + Len(t)
         /\ \A i \in 1 .. Len(s) + Len(t) :
              w[i] = IF i <= Len(s) THEN s[i] ELSE t[i - Len(s)]
  BY ConcatProperties

\* A run of configuration writes: length and elements.
LEMMA ConfigureAt ==
  ASSUME NEW regs \in Seq(Registers)
  PROVE  /\ Len(Configure(regs)) = Len(regs)
         /\ \A i \in 1 .. Len(regs) :
              Configure(regs)[i] = Wr(regs[i], {Cfg(regs[i])})
<1>1. Len(regs) \in Nat
  OBVIOUS
<1> QED
  BY <1>1 DEF Configure

\* The accesses of enc28j60_readPhyReg,
LEMMA ReadPhyAt ==
  ASSUME NEW addr \in Nat
  PROVE  /\ Len(readPhyReg(addr)) = 8
         /\ readPhyReg(addr)[1] = Wr(bank2.MIREGADR, {addr})
         /\ readPhyReg(addr)[2] = Rd(bank2.MICMD)
         /\ readPhyReg(addr)[3] = Modify(bank2.MICMD, {bit.MIIRD}, {})
         /\ readPhyReg(addr)[4] = Rd(bank3.MISTAT)
         /\ readPhyReg(addr)[5] = Rd(bank2.MICMD)
         /\ readPhyReg(addr)[6] = Modify(bank2.MICMD, {}, {bit.MIIRD})
         /\ readPhyReg(addr)[7] = Rd(bank2.MIRDH)
         /\ readPhyReg(addr)[8] = Rd(bank2.MIRDL)
  BY DEF readPhyReg

\* and of enc28j60_writePhyReg.
LEMMA WritePhyAt ==
  ASSUME NEW addr \in Nat, NEW s \in SUBSET Nat
  PROVE  /\ Len(writePhyReg(addr, s)) = 4
         /\ writePhyReg(addr, s)[1] = Wr(bank2.MIREGADR, {addr})
         /\ writePhyReg(addr, s)[2] = Modify(bank2.MIWRL, s, {})
         /\ writePhyReg(addr, s)[3] = Modify(bank2.MIWRH, s, {})
         /\ writePhyReg(addr, s)[4] = Rd(bank3.MISTAT)
  BY DEF writePhyReg

\* The accesses of phyInit.
LEMMA PhyInitAt ==
  /\ Len(phyInit) = 24
  /\ \A i \in 1 .. 8 : phyInit[i] = readPhyReg(phyReg.PHCON1)[i]
  /\ \A i \in 1 .. 4 :
       phyInit[8 + i] = writePhyReg(phyReg.PHCON1, {bit.PDPXMD})[i]
  /\ \A i \in 1 .. 8 : phyInit[12 + i] = readPhyReg(phyReg.PHIE)[i]
  /\ \A i \in 1 .. 4 :
       phyInit[20 + i] = writePhyReg(phyReg.PHIE, {bit.PLNKIE})[i]
<1> DEFINE r1 == readPhyReg(phyReg.PHCON1)
           w1 == writePhyReg(phyReg.PHCON1, {bit.PDPXMD})
           r2 == readPhyReg(phyReg.PHIE)
           w2 == writePhyReg(phyReg.PHIE, {bit.PLNKIE})
<1>1. /\ phyReg.PHCON1 \in Nat /\ phyReg.PHIE \in Nat
      /\ {bit.PDPXMD} \in SUBSET Nat /\ {bit.PLNKIE} \in SUBSET Nat
  BY DEF phyReg, bit
<1>2. /\ r1 \in Seq(AccessType) /\ w1 \in Seq(AccessType)
      /\ r2 \in Seq(AccessType) /\ w2 \in Seq(AccessType)
  BY <1>1, ReadPhyType, WritePhyType
<1>3. Len(r1) = 8 /\ Len(w1) = 4 /\ Len(r2) = 8 /\ Len(w2) = 4
  BY <1>1, ReadPhyAt, WritePhyAt
<1>2r. r2 \in Seq(AccessType)
  BY <1>2
<1>2w. w2 \in Seq(AccessType)
  BY <1>2
<1>4. phyInit = ((r1 \o w1) \o r2) \o w2
  BY DEF phyInit
<1> HIDE DEF r1, w1, r2, w2
<1> DEFINE u == r1 \o w1
<1>5. /\ u \in Seq(AccessType) /\ Len(u) = 12
      /\ \A i \in 1 .. 12 : u[i] = IF i <= 8 THEN r1[i] ELSE w1[i - 8]
  <2> HIDE DEF u
  <2>1. u = r1 \o w1
    BY DEF u
  <2>2. /\ u \in Seq(AccessType) /\ Len(u) = Len(r1) + Len(w1)
        /\ \A i \in 1 .. Len(r1) + Len(w1) :
             u[i] = IF i <= Len(r1) THEN r1[i] ELSE w1[i - Len(r1)]
    BY <1>2, <1>3, <2>1, ConcatAt, ZenonT(60)
  <2> QED
    BY <1>2, <1>3, <2>2
<1>5a. u \in Seq(AccessType)
  BY <1>5
<1> HIDE DEF u
<1> DEFINE v == u \o r2
<1>6. /\ v \in Seq(AccessType) /\ Len(v) = 20
      /\ \A i \in 1 .. 20 : v[i] = IF i <= 12 THEN u[i] ELSE r2[i - 12]
  <2> HIDE DEF v
  <2>1. v = u \o r2
    BY DEF v
  <2>2. /\ v \in Seq(AccessType) /\ Len(v) = Len(u) + Len(r2)
        /\ \A i \in 1 .. Len(u) + Len(r2) :
             v[i] = IF i <= Len(u) THEN u[i] ELSE r2[i - Len(u)]
    BY <1>2r, <1>5a, <2>1, ConcatAt, Zenon
  <2> QED
    BY <1>2, <1>3, <1>5, <2>2
<1>6a. v \in Seq(AccessType)
  BY <1>6
<1> HIDE DEF v
<1>7. /\ Len(phyInit) = 24
      /\ \A i \in 1 .. 24 : phyInit[i] = IF i <= 20 THEN v[i] ELSE w2[i - 20]
  <2>1. phyInit = v \o w2
    BY <1>4 DEF u, v
  <2>2. /\ phyInit \in Seq(AccessType) /\ Len(phyInit) = Len(v) + Len(w2)
        /\ \A i \in 1 .. Len(v) + Len(w2) :
             phyInit[i] = IF i <= Len(v) THEN v[i] ELSE w2[i - Len(v)]
    BY <1>2w, <1>6a, <2>1, ConcatAt, Zenon
  <2> QED
    BY <1>2, <1>3, <1>6, <2>2
<1> QED
  BY <1>5, <1>6, <1>7 DEF r1, w1, r2, w2

\* The registers macInit writes as a whole, in order.
LEMMA MacValuesAt ==
  /\ Len(macValues) = 10
  /\ macValues[1] = 138 /\ macValues[2] = 139 /\ macValues[3] = 132
  /\ macValues[4] = 134 /\ macValues[5] = 193 /\ macValues[6] = 192
  /\ macValues[7] = 195 /\ macValues[8] = 194 /\ macValues[9] = 197
  /\ macValues[10] = 196
  BY DEF macValues, bank2, bank3, bank_2, bank_3

\* The accesses of macInit.
LEMMA MacInitAt ==
  /\ Len(macInit) = 16
  /\ \A i \in 1 .. 6 : macInit[i] = macModes[i]
  /\ \A i \in 1 .. 10 :
       macInit[6 + i] = Wr(macValues[i], {Cfg(macValues[i])})
<1> DEFINE c == Configure(macValues)
<1>1. macInit = macModes \o c
  BY DEF macInit, macModes, macValues
<1>2. Len(macModes) = 6
  BY DEF macModes
<1>3. /\ c \in Seq(AccessType) /\ Len(c) = Len(macValues)
      /\ \A i \in 1 .. Len(macValues) : c[i] = Wr(macValues[i], {Cfg(macValues[i])})
  BY MacPartsType, ConfigureType, ConfigureAt, Zenon
<1>4. c \in Seq(AccessType) /\ macModes \in Seq(AccessType) /\ Len(c) = 10
  BY <1>3, MacPartsType, MacValuesAt
<1> HIDE DEF c
<1>5. /\ Len(macInit) = Len(macModes) + Len(c)
      /\ \A i \in 1 .. Len(macModes) + Len(c) :
           macInit[i] = IF i <= Len(macModes) THEN macModes[i]
                                              ELSE c[i - Len(macModes)]
  BY <1>1, <1>4, ConcatAt, Zenon
<1>6. /\ Len(macInit) = 16
      /\ \A i \in 1 .. 16 :
           macInit[i] = IF i <= 6 THEN macModes[i] ELSE c[i - 6]
  BY <1>2, <1>4, <1>5
<1>7. \A i \in 1 .. 10 : c[i] = Wr(macValues[i], {Cfg(macValues[i])})
  <2>1. Len(macValues) = 10
    BY MacValuesAt
  <2> QED
    BY <1>3, <2>1
<1> QED
  BY <1>6, <1>7

\* The first access stays the first.
LEMMA ConcatFront ==
  ASSUME NEW s \in Seq(AccessType), NEW t \in Seq(AccessType),
         NEW w, w = s \o t, Len(s) > 0
  PROVE  w[1] = s[1]
<1>1. /\ 1 \in 1 .. Len(s) + Len(t) /\ 1 <= Len(s)
      /\ \A i \in 1 .. Len(s) + Len(t) :
           w[i] = IF i <= Len(s) THEN s[i] ELSE t[i - Len(s)]
  BY ConcatAt
<1> QED
  BY <1>1

\* A function on the PHY: accesses to the registers in R, and waits on MISTAT
\* behind an access to an MII register.
Polls(s, R) ==
  \A i \in 1 .. Len(s) :
     \/ s[i].reg \in R
     \/ i > 1 /\ s[i].reg = bank3.MISTAT /\ s[i - 1].reg \in Mii

\* One such function behind another is one.
LEMMA PollsConcat ==
  ASSUME NEW s \in Seq(AccessType), NEW t \in Seq(AccessType),
         NEW w, w = s \o t, NEW R, Polls(s, R), Polls(t, R)
  PROVE  Polls(w, R)
<1>1. /\ Len(w) = Len(s) + Len(t) /\ Len(s) \in Nat /\ Len(t) \in Nat
      /\ \A i \in 1 .. Len(s) + Len(t) :
           w[i] = IF i <= Len(s) THEN s[i] ELSE t[i - Len(s)]
  BY ConcatAt
<1> SUFFICES ASSUME NEW i \in 1 .. Len(w), w[i].reg \notin R
             PROVE  i > 1 /\ w[i].reg = bank3.MISTAT /\ w[i - 1].reg \in Mii
  BY DEF Polls
<1>2. CASE i <= Len(s)
  <2>1. i \in 1 .. Len(s) /\ w[i] = s[i]
    BY <1>1, <1>2
  <2>2. i > 1 /\ s[i].reg = bank3.MISTAT /\ s[i - 1].reg \in Mii
    BY <2>1 DEF Polls
  <2>3. w[i - 1] = s[i - 1]
    BY <1>1, <1>2, <2>2
  <2> QED
    BY <2>1, <2>2, <2>3
<1>3. CASE i > Len(s)
  <2> DEFINE j == i - Len(s)
  <2>1. j \in 1 .. Len(t) /\ w[i] = t[j]
    BY <1>1, <1>3
  <2>2. j > 1 /\ t[j].reg = bank3.MISTAT /\ t[j - 1].reg \in Mii
    BY <2>1 DEF Polls
  <2>3. w[i - 1] = t[j - 1]
    <3>1. i - 1 \in 1 .. Len(s) + Len(t) /\ i - 1 > Len(s)
      BY <1>1, <1>3, <2>1, <2>2
    <3>2. w[i - 1] = t[(i - 1) - Len(s)]
      BY <1>1, <3>1
    <3>3. (i - 1) - Len(s) = j - 1
      BY <1>1
    <3> QED
      BY <3>2, <3>3
  <2> QED
    BY <1>1, <1>3, <2>1, <2>2, <2>3
<1> QED
  BY <1>1, <1>2, <1>3

\* enc28j60_readPhyReg is one, and does not write the PHY;
LEMMA ReadPhyPolls ==
  ASSUME NEW addr \in Nat
  PROVE  Polls(readPhyReg(addr), Mii \ {bank2.MIWRH})
<1> DEFINE s == readPhyReg(addr)
<1>1. Len(s) = 8
  BY ReadPhyAt
<1>2. /\ s[1].reg = 148 /\ s[2].reg = 146 /\ s[3].reg = 146
      /\ s[4].reg = 202 /\ s[5].reg = 146 /\ s[6].reg = 146
      /\ s[7].reg = 153 /\ s[8].reg = 152
  <2>1. /\ s[1] = Wr(bank2.MIREGADR, {addr}) /\ s[2] = Rd(bank2.MICMD)
        /\ s[3] = Modify(bank2.MICMD, {bit.MIIRD}, {})
        /\ s[4] = Rd(bank3.MISTAT) /\ s[5] = Rd(bank2.MICMD)
        /\ s[6] = Modify(bank2.MICMD, {}, {bit.MIIRD})
        /\ s[7] = Rd(bank2.MIRDH) /\ s[8] = Rd(bank2.MIRDL)
    BY ReadPhyAt, Zenon
  <2> HIDE DEF s
  <2> QED
    BY <2>1, MiiAddresses DEF Wr, Rd, Modify
<1> HIDE DEF s
<1>3. Polls(s, Mii \ {bank2.MIWRH})
  BY <1>1, <1>2, MiiAddresses DEF Polls
<1> QED
  BY <1>3 DEF s

\* so is enc28j60_writePhyReg,
LEMMA WritePhyPolls ==
  ASSUME NEW addr \in Nat, NEW v \in SUBSET Nat
  PROVE  Polls(writePhyReg(addr, v), Mii)
<1> DEFINE s == writePhyReg(addr, v)
<1>1. Len(s) = 4
  BY WritePhyAt
<1>2. s[1].reg = 148 /\ s[2].reg = 150 /\ s[3].reg = 151 /\ s[4].reg = 202
  <2>1. /\ s[1] = Wr(bank2.MIREGADR, {addr})
        /\ s[2] = Modify(bank2.MIWRL, v, {})
        /\ s[3] = Modify(bank2.MIWRH, v, {}) /\ s[4] = Rd(bank3.MISTAT)
    BY WritePhyAt, Zenon
  <2> HIDE DEF s
  <2> QED
    BY <2>1, MiiAddresses DEF Wr, Rd, Modify
<1> HIDE DEF s
<1>3. Polls(s, Mii)
  BY <1>1, <1>2, MiiAddresses DEF Polls
<1> QED
  BY <1>3 DEF s

\* and so is phyInit.
LEMMA PhyInitPolls == Polls(phyInit, Mii)
<1> DEFINE r1 == readPhyReg(phyReg.PHCON1)
           w1 == writePhyReg(phyReg.PHCON1, {bit.PDPXMD})
           r2 == readPhyReg(phyReg.PHIE)
           w2 == writePhyReg(phyReg.PHIE, {bit.PLNKIE})
<1>1. /\ phyReg.PHCON1 \in Nat /\ phyReg.PHIE \in Nat
      /\ {bit.PDPXMD} \in SUBSET Nat /\ {bit.PLNKIE} \in SUBSET Nat
  BY DEF phyReg, bit
<1>2. /\ r1 \in Seq(AccessType) /\ w1 \in Seq(AccessType)
      /\ r2 \in Seq(AccessType) /\ w2 \in Seq(AccessType)
  BY <1>1, ReadPhyType, WritePhyType
<1>3. ASSUME NEW s, Polls(s, Mii \ {bank2.MIWRH})
      PROVE  Polls(s, Mii)
  BY <1>3, Zenon DEF Polls
<1>4. /\ Polls(r1, Mii) /\ Polls(w1, Mii)
      /\ Polls(r2, Mii) /\ Polls(w2, Mii)
  BY <1>1, <1>3, ReadPhyPolls, WritePhyPolls, Zenon
<1>5. phyInit = ((r1 \o w1) \o r2) \o w2
  BY DEF phyInit
<1> HIDE DEF r1, w1, r2, w2
<1> DEFINE u == r1 \o w1
           v == u \o r2
<1>6. u \in Seq(AccessType) /\ Polls(u, Mii)
  BY <1>2, <1>4, ConcatType, PollsConcat, Zenon
<1> HIDE DEF u
<1>7. v \in Seq(AccessType) /\ Polls(v, Mii)
  <2>1. r2 \in Seq(AccessType) /\ Polls(r2, Mii)
    BY <1>2, <1>4
  <2> QED
    BY <1>6, <2>1, ConcatType, PollsConcat, Zenon
<1> HIDE DEF v
<1>8. Polls(v \o w2, Mii)
  <2>1. w2 \in Seq(AccessType) /\ Polls(w2, Mii)
    BY <1>2, <1>4
  <2> QED
    BY <1>7, <2>1, PollsConcat, Zenon
<1> QED
  BY <1>5, <1>8, Zenon DEF u, v

\* strtDr begins with one, apart from its first access.
LEMMA IdentifyPolls ==
  /\ Len(identify) = 33 /\ identify[1] = Rd(bank0.ESTAT)
  /\ Polls(identify, (Mii \ {bank2.MIWRH}) \cup {bank0.ESTAT})
<1> DEFINE R == (Mii \ {bank2.MIWRH}) \cup {bank0.ESTAT}
           e == <<Rd(bank0.ESTAT)>>
           r == readPhyReg(phyReg.PHID2)
           q == readPhyReg(phyReg.PHID1)
<1>1. phyReg.PHID2 \in Nat /\ phyReg.PHID1 \in Nat
  BY DEF phyReg
<1>2. /\ r \in Seq(AccessType) /\ q \in Seq(AccessType)
      /\ Len(r) = 8 /\ Len(q) = 8
  BY <1>1, ReadPhyType, ReadPhyAt
<1>3. e \in Seq(AccessType) /\ Len(e) = 1 /\ e[1] = Rd(bank0.ESTAT)
  <2>1. bank0.ESTAT \in Registers
    BY RegisterNames, InRegisters
  <2> QED
    BY <2>1, ReadType
<1>4. Polls(e, R) /\ Polls(r, R) /\ Polls(q, R)
  <2>1. Polls(e, R)
    BY <1>3 DEF Polls, Rd
  <2>2. ASSUME NEW s, Polls(s, Mii \ {bank2.MIWRH})
        PROVE  Polls(s, R)
    BY <2>2, Zenon DEF Polls
  <2> QED
    BY <1>1, <2>1, <2>2, ReadPhyPolls, Zenon
<1>5. identify = (((e \o r) \o r) \o q) \o r
  BY DEF identify
<1> HIDE DEF R, e, r, q
<1> DEFINE t == e \o r
           u == t \o r
           v == u \o q
<1>6. t \in Seq(AccessType) /\ Len(t) = 9 /\ t[1] = e[1]
  <2> HIDE DEF t
  <2>1. t = e \o r
    BY DEF t
  <2>2. e \in Seq(AccessType) /\ r \in Seq(AccessType) /\ Len(e) > 0
    BY <1>2, <1>3
  <2>3. t \in Seq(AccessType) /\ Len(t) = Len(e) + Len(r)
    BY <2>1, <2>2, ConcatAt, Zenon
  <2>4. t[1] = e[1]
    BY <2>1, <2>2, ConcatFront, Zenon
  <2> QED
    BY <1>2, <1>3, <2>3, <2>4
<1>7. Polls(t, R)
  BY <1>2, <1>3, <1>4, PollsConcat, Zenon
<1> HIDE DEF t
<1>8. u \in Seq(AccessType) /\ Len(u) = 17 /\ u[1] = e[1]
  <2> HIDE DEF u
  <2>1. u = t \o r
    BY DEF u
  <2>2. t \in Seq(AccessType) /\ r \in Seq(AccessType) /\ Len(t) > 0
    BY <1>2, <1>6
  <2>3. u \in Seq(AccessType) /\ Len(u) = Len(t) + Len(r)
    BY <2>1, <2>2, ConcatAt, Zenon
  <2>4. u[1] = t[1]
    BY <2>1, <2>2, ConcatFront, Zenon
  <2> QED
    BY <1>2, <1>6, <2>3, <2>4
<1>9. Polls(u, R)
  BY <1>2, <1>4, <1>6, <1>7, PollsConcat, Zenon
<1> HIDE DEF u
<1>10. v \in Seq(AccessType) /\ Len(v) = 25 /\ v[1] = e[1]
  <2> HIDE DEF v
  <2>1. v = u \o q
    BY DEF v
  <2>2. u \in Seq(AccessType) /\ q \in Seq(AccessType) /\ Len(u) > 0
    BY <1>2, <1>8
  <2>3. v \in Seq(AccessType) /\ Len(v) = Len(u) + Len(q)
    BY <2>1, <2>2, ConcatAt, Zenon
  <2>4. v[1] = u[1]
    BY <2>1, <2>2, ConcatFront, Zenon
  <2> QED
    BY <1>2, <1>8, <2>3, <2>4
<1>11. Polls(v, R)
  BY <1>2, <1>4, <1>8, <1>9, PollsConcat, Zenon
<1> HIDE DEF v
<1>12. identify = v \o r
  BY <1>5 DEF t, u, v
<1>13. Len(identify) = 33 /\ identify[1] = e[1]
  <2>2. v \in Seq(AccessType) /\ r \in Seq(AccessType) /\ Len(v) > 0
    BY <1>2, <1>10
  <2>3. identify \in Seq(AccessType) /\ Len(identify) = Len(v) + Len(r)
    BY <1>12, <2>2, ConcatAt, Zenon
  <2>4. identify[1] = v[1]
    BY <1>12, <2>2, ConcatFront, Zenon
  <2> QED
    BY <1>2, <1>10, <2>3, <2>4
<1>14. Polls(identify, R)
  BY <1>2, <1>4, <1>10, <1>11, <1>12, PollsConcat, Zenon
<1> QED
  BY <1>3, <1>13, <1>14 DEF R

\* The pointers strtDr sets; the receive buffer's bounds are among them.
LEMMA PointersAt ==
  /\ Len(pointers) = 12
  /\ pointers[1] = 8 /\ pointers[2] = 9 /\ pointers[3] = 0 /\ pointers[4] = 1
  /\ pointers[5] = 10 /\ pointers[6] = 11 /\ pointers[7] = 12
  /\ pointers[8] = 13 /\ pointers[9] = 4 /\ pointers[10] = 5
  /\ pointers[11] = 6 /\ pointers[12] = 7
  BY DEF pointers, bank0

\* The accesses that set them,
LEMMA SetPointersAt ==
  /\ Configure(pointers) \in Seq(AccessType) /\ Len(Configure(pointers)) = 12
  /\ \A i \in 1 .. 12 :
       Configure(pointers)[i] = Wr(pointers[i], {Cfg(pointers[i])})
<1>1. /\ Configure(pointers) \in Seq(AccessType)
      /\ Len(Configure(pointers)) = Len(pointers)
      /\ \A i \in 1 .. Len(pointers) :
           Configure(pointers)[i] = Wr(pointers[i], {Cfg(pointers[i])})
  BY PartsType, ConfigureType, ConfigureAt, Zenon
<1>2. Len(pointers) = 12
  BY PointersAt
<1> QED
  BY <1>1, <1>2

\* the receive filter,
LEMMA SetFiltersAt ==
  /\ Len(rxSetFilters) = 1
  /\ rxSetFilters[1] = Wr(88, {Cfg(88)})
<1> DEFINE regs == <<bank1.ERXFCON>>
<1>1. bank1.ERXFCON = 88
  BY DEF bank1, bank_1
<1>2. regs \in Seq(Registers) /\ Len(regs) = 1 /\ regs[1] = 88
  BY <1>1, InRegisters
<1>3. rxSetFilters = Configure(regs)
  BY DEF rxSetFilters
<1> HIDE DEF regs
<1>4. /\ Len(Configure(regs)) = Len(regs)
      /\ \A i \in 1 .. Len(regs) :
           Configure(regs)[i] = Wr(regs[i], {Cfg(regs[i])})
  BY <1>2, ConfigureAt, Zenon
<1>5. 1 \in 1 .. Len(regs) /\ Len(regs) = 1 /\ regs[1] = 88
  BY <1>2
<1> QED
  BY <1>3, <1>4, <1>5, Zenon

\* and the interrupt enables.
LEMMA EnableAt ==
  Len(enable) = 3 /\ \A i \in 1 .. 3 : enable[i].reg \in {27, 30, 31}
<1>1. bank0.EIE = 27 /\ bank0.ECON2 = 30 /\ bank0.ECON1 = 31
  BY DEF bank0
<1> QED
  BY <1>1 DEF enable, Wr, BitFieldSet

\* The accesses of enc28j60_strtDr, part by part.
LEMMA StrtDrAt ==
  /\ Len(strtDr) = 89
  /\ \A i \in 1 .. 33 : strtDr[i] = identify[i]
  /\ \A i \in 34 .. 45 : strtDr[i] = Configure(pointers)[i - 33]
  /\ \A i \in 46 .. 69 : strtDr[i] = phyInit[i - 45]
  /\ \A i \in 70 .. 85 : strtDr[i] = macInit[i - 69]
  /\ strtDr[86] = rxSetFilters[1]
  /\ \A i \in 87 .. 89 : strtDr[i] = enable[i - 86]
<1> DEFINE c == Configure(pointers)
           s == identify \o c
           t == s \o phyInit
           u == t \o macInit
           v == u \o rxSetFilters
<1>1. /\ identify \in Seq(AccessType) /\ c \in Seq(AccessType)
      /\ phyInit \in Seq(AccessType) /\ macInit \in Seq(AccessType)
      /\ rxSetFilters \in Seq(AccessType) /\ enable \in Seq(AccessType)
  BY PartsType, SetPointersAt, StartUpType
<1>2. /\ Len(identify) = 33 /\ Len(c) = 12 /\ Len(phyInit) = 24
      /\ Len(macInit) = 16 /\ Len(rxSetFilters) = 1 /\ Len(enable) = 3
  BY IdentifyPolls, SetPointersAt, PhyInitAt, MacInitAt, SetFiltersAt, EnableAt
<1>3. strtDr = v \o enable
  BY StrtDrParts
<1> HIDE DEF c
<1>4. /\ s \in Seq(AccessType) /\ Len(s) = 45
      /\ \A i \in 1 .. 45 : s[i] = IF i <= 33 THEN identify[i] ELSE c[i - 33]
  <2> HIDE DEF s
  <2>1. s = identify \o c
    BY DEF s
  <2>2. identify \in Seq(AccessType)
    BY <1>1
  <2>3. c \in Seq(AccessType)
    BY <1>1
  <2>4. /\ s \in Seq(AccessType) /\ Len(s) = Len(identify) + Len(c)
        /\ \A i \in 1 .. Len(identify) + Len(c) :
             s[i] = IF i <= Len(identify) THEN identify[i] ELSE c[i - Len(identify)]
    BY <2>1, <2>2, <2>3, ConcatAt, Zenon
  <2>5. Len(identify) = 33 /\ Len(c) = 12
    BY <1>2
  <2> QED
    BY <2>4, <2>5
<1> HIDE DEF s
<1>5. /\ t \in Seq(AccessType) /\ Len(t) = 69
      /\ \A i \in 1 .. 69 : t[i] = IF i <= 45 THEN s[i] ELSE phyInit[i - 45]
  <2> HIDE DEF t
  <2>1. t = s \o phyInit
    BY DEF t
  <2>2. s \in Seq(AccessType)
    BY <1>4
  <2>3. phyInit \in Seq(AccessType)
    BY <1>1
  <2>4. /\ t \in Seq(AccessType) /\ Len(t) = Len(s) + Len(phyInit)
        /\ \A i \in 1 .. Len(s) + Len(phyInit) :
             t[i] = IF i <= Len(s) THEN s[i] ELSE phyInit[i - Len(s)]
    BY <2>1, <2>2, <2>3, ConcatAt, Zenon
  <2>5. Len(s) = 45 /\ Len(phyInit) = 24
    BY <1>2, <1>4
  <2> QED
    BY <2>4, <2>5
<1> HIDE DEF t
<1>6. /\ u \in Seq(AccessType) /\ Len(u) = 85
      /\ \A i \in 1 .. 85 : u[i] = IF i <= 69 THEN t[i] ELSE macInit[i - 69]
  <2> HIDE DEF u
  <2>1. u = t \o macInit
    BY DEF u
  <2>2. t \in Seq(AccessType)
    BY <1>5
  <2>3. macInit \in Seq(AccessType)
    BY <1>1
  <2>4. /\ u \in Seq(AccessType) /\ Len(u) = Len(t) + Len(macInit)
        /\ \A i \in 1 .. Len(t) + Len(macInit) :
             u[i] = IF i <= Len(t) THEN t[i] ELSE macInit[i - Len(t)]
    BY <2>1, <2>2, <2>3, ConcatAt, Zenon
  <2>5. Len(t) = 69 /\ Len(macInit) = 16
    BY <1>2, <1>5
  <2> QED
    BY <2>4, <2>5
<1> HIDE DEF u
<1>7. /\ v \in Seq(AccessType) /\ Len(v) = 86
      /\ \A i \in 1 .. 86 :
           v[i] = IF i <= 85 THEN u[i] ELSE rxSetFilters[i - 85]
  <2> HIDE DEF v
  <2>1. v = u \o rxSetFilters
    BY DEF v
  <2>2. u \in Seq(AccessType)
    BY <1>6
  <2>3. rxSetFilters \in Seq(AccessType)
    BY <1>1
  <2>4. /\ v \in Seq(AccessType) /\ Len(v) = Len(u) + Len(rxSetFilters)
        /\ \A i \in 1 .. Len(u) + Len(rxSetFilters) :
             v[i] = IF i <= Len(u) THEN u[i] ELSE rxSetFilters[i - Len(u)]
    BY <2>1, <2>2, <2>3, ConcatAt, Zenon
  <2>5. Len(u) = 85 /\ Len(rxSetFilters) = 1
    BY <1>2, <1>6
  <2> QED
    BY <2>4, <2>5
<1> HIDE DEF v
<1>8. /\ Len(strtDr) = 89
      /\ \A i \in 1 .. 89 : strtDr[i] = IF i <= 86 THEN v[i] ELSE enable[i - 86]
  <2>1. strtDr = v \o enable
    BY <1>3
  <2>2. v \in Seq(AccessType)
    BY <1>7
  <2>3. enable \in Seq(AccessType)
    BY <1>1
  <2>4. /\ strtDr \in Seq(AccessType) /\ Len(strtDr) = Len(v) + Len(enable)
        /\ \A i \in 1 .. Len(v) + Len(enable) :
             strtDr[i] = IF i <= Len(v) THEN v[i] ELSE enable[i - Len(v)]
    BY <2>1, <2>2, <2>3, ConcatAt, Zenon
  <2>5. Len(v) = 86 /\ Len(enable) = 3
    BY <1>2, <1>7
  <2> QED
    BY <2>4, <2>5
<1>9. /\ \A i \in 1 .. 86 : strtDr[i] = v[i]
      /\ \A i \in 87 .. 89 : strtDr[i] = enable[i - 86]
  BY <1>8
<1>10. /\ \A i \in 1 .. 85 : strtDr[i] = u[i]
       /\ \A i \in 86 .. 86 : strtDr[i] = rxSetFilters[i - 85]
  <2>1. ASSUME NEW i \in 1 .. 86
        PROVE  strtDr[i] = IF i <= 85 THEN u[i] ELSE rxSetFilters[i - 85]
    <3>1. strtDr[i] = v[i]
      BY <1>9
    <3>2. v[i] = IF i <= 85 THEN u[i] ELSE rxSetFilters[i - 85]
      BY <1>7
    <3> QED
      BY <3>1, <3>2
  <2> QED
    BY <2>1
<1>11. /\ \A i \in 1 .. 69 : strtDr[i] = t[i]
       /\ \A i \in 70 .. 85 : strtDr[i] = macInit[i - 69]
  <2>1. ASSUME NEW i \in 1 .. 85
        PROVE  strtDr[i] = IF i <= 69 THEN t[i] ELSE macInit[i - 69]
    <3>1. strtDr[i] = u[i]
      BY <1>10
    <3>2. u[i] = IF i <= 69 THEN t[i] ELSE macInit[i - 69]
      BY <1>6
    <3> QED
      BY <3>1, <3>2
  <2> QED
    BY <2>1
<1>12. /\ \A i \in 1 .. 45 : strtDr[i] = s[i]
       /\ \A i \in 46 .. 69 : strtDr[i] = phyInit[i - 45]
  <2>1. ASSUME NEW i \in 1 .. 69
        PROVE  strtDr[i] = IF i <= 45 THEN s[i] ELSE phyInit[i - 45]
    <3>1. strtDr[i] = t[i]
      BY <1>11
    <3>2. t[i] = IF i <= 45 THEN s[i] ELSE phyInit[i - 45]
      BY <1>5
    <3> QED
      BY <3>1, <3>2
  <2> QED
    BY <2>1
<1>13. /\ \A i \in 1 .. 33 : strtDr[i] = identify[i]
       /\ \A i \in 34 .. 45 : strtDr[i] = c[i - 33]
  <2>1. ASSUME NEW i \in 1 .. 45
        PROVE  strtDr[i] = IF i <= 33 THEN identify[i] ELSE c[i - 33]
    <3>1. strtDr[i] = s[i]
      BY <1>12
    <3>2. s[i] = IF i <= 33 THEN identify[i] ELSE c[i - 33]
      BY <1>4
    <3> QED
      BY <3>1, <3>2
  <2> QED
    BY <2>1
<1>14. strtDr[86] = rxSetFilters[1]
  <2>1. 86 \in 86 .. 86 /\ 86 - 85 = 1
    OBVIOUS
  <2> QED
    BY <1>10, <2>1, ZenonT(60)
<1> QED
  BY <1>8, <1>9, <1>11, <1>12, <1>13, <1>14, Zenon DEF c

\* The values a static register is meant to have.
LEMMA ExpectedValues ==
  /\ \A r \in Written : Expected(r) = {Cfg(r)}
  /\ Expected(137) = {137} /\ Expected(128) = {128, bit.MARXEN}
  /\ Expected(130) = {130, bit.MACON3}
<1>1. \A r \in Written : r # 137 /\ r # 128 /\ r # 130
  BY StaticAddresses
<1> QED
  BY <1>1, ModifiedAddresses DEF Expected

\* The accesses to the registers that are modified.
LEMMA MacModesAt ==
  /\ macModes[1] = Rd(137) /\ macModes[2] = Modify(137, {}, {bit.MARST})
  /\ macModes[3] = Rd(128) /\ macModes[4] = Modify(128, {bit.MARXEN}, {})
  /\ macModes[5] = Rd(130) /\ macModes[6] = Modify(130, {bit.MACON3}, {})
  BY ModifiedAddresses DEF macModes

\* They add what was meant.
LEMMA MacModesModify ==
  Modifies(macModes[2]) /\ Modifies(macModes[4]) /\ Modifies(macModes[6])
<1>1. bit.MARST = 308 /\ bit.MARXEN = 309 /\ bit.MACON3 = 310
  BY DEF bit
<1>2. Modifies(Modify(137, {}, {bit.MARST}))
  BY <1>1, ExpectedValues DEF Modifies, Modify
<1>3. Modifies(Modify(128, {bit.MARXEN}, {}))
  BY <1>1, ExpectedValues DEF Modifies, Modify
<1>4. Modifies(Modify(130, {bit.MACON3}, {}))
  BY <1>1, ExpectedValues DEF Modifies, Modify
<1> QED
  BY <1>2, <1>3, <1>4, MacModesAt

\* The registers of macInit.
LEMMA MacInitRegs ==
  /\ \A i \in 1 .. 6 : macInit[i].reg \in {137, 128, 130}
  /\ \A i \in 7 .. 16 : macInit[i].reg = macValues[i - 6]
  /\ \A i \in 1 .. 10 : macValues[i] \in Written
<1>1. \A i \in 1 .. 6 : macModes[i].reg \in {137, 128, 130}
  BY MacModesAt DEF Rd, Modify
<1>2. \A i \in 7 .. 16 : macInit[i].reg = macValues[i - 6]
  <2> TAKE i \in 7 .. 16
  <2> DEFINE j == i - 6
  <2>1. j \in 1 .. 10 /\ 6 + j = i
    OBVIOUS
  <2>2. macInit[6 + j] = Wr(macValues[j], {Cfg(macValues[j])})
    BY <2>1, MacInitAt
  <2> QED
    BY <2>1, <2>2 DEF Wr
<1>3. \A i \in 1 .. 10 : macValues[i] \in Written
  BY MacValuesAt, StaticAddresses
<1> QED
  BY <1>1, <1>2, <1>3, MacInitAt

\* The registers of strtDr: none is static before the pointers are set, and
\* none but PHCON1 and PHIE is written through MII.
LEMMA StrtDrRegs ==
  /\ \A i \in 1 .. 33 : strtDr[i].reg \in (Mii \ {151}) \cup {29, 202}
  /\ \A i \in 34 .. 45 : strtDr[i].reg = pointers[i - 33]
  /\ \A i \in 46 .. 69 : strtDr[i].reg \in Mii \cup {202}
  /\ \A i \in 70 .. 75 : strtDr[i].reg \in {137, 128, 130}
  /\ \A i \in 76 .. 85 : strtDr[i].reg = macValues[i - 75]
  /\ strtDr[86].reg = 88
  /\ \A i \in 87 .. 89 : strtDr[i].reg \in {27, 30, 31}
<1>1. \A i \in 1 .. 33 : strtDr[i].reg \in (Mii \ {151}) \cup {29, 202}
  <2>1. bank0.ESTAT = 29
    BY DEF bank0
  <2>2. \A i \in 1 .. 33 : identify[i].reg \in (Mii \ {151}) \cup {29, 202}
    BY <2>1, IdentifyPolls, MiiAddresses DEF Polls
  <2> QED
    BY <2>2, StrtDrAt
<1>2. \A i \in 34 .. 45 : strtDr[i].reg = pointers[i - 33]
  <2> TAKE i \in 34 .. 45
  <2> DEFINE j == i - 33
  <2>1. j \in 1 .. 12
    OBVIOUS
  <2>2. strtDr[i] = Wr(pointers[j], {Cfg(pointers[j])})
    BY <2>1, StrtDrAt, SetPointersAt, ZenonT(60)
  <2> QED
    BY <2>2 DEF Wr
<1>3. \A i \in 46 .. 69 : strtDr[i].reg \in Mii \cup {202}
  <2>1. \A i \in 1 .. 24 : phyInit[i].reg \in Mii \cup {202}
    BY PhyInitPolls, PhyInitAt, MiiAddresses DEF Polls
  <2> TAKE i \in 46 .. 69
  <2>2. strtDr[i] = phyInit[i - 45] /\ i - 45 \in 1 .. 24
    BY StrtDrAt
  <2> QED
    BY <2>1, <2>2
<1>4. \A i \in 70 .. 75 : strtDr[i].reg \in {137, 128, 130}
  <2> TAKE i \in 70 .. 75
  <2>1. strtDr[i] = macInit[i - 69] /\ i - 69 \in 1 .. 6
    BY StrtDrAt
  <2> QED
    BY <2>1, MacInitRegs
<1>5. \A i \in 76 .. 85 : strtDr[i].reg = macValues[i - 75]
  <2> TAKE i \in 76 .. 85
  <2>1. strtDr[i] = macInit[i - 69] /\ i - 69 \in 7 .. 16 /\ (i - 69) - 6 = i - 75
    BY StrtDrAt
  <2> QED
    BY <2>1, MacInitRegs
<1>6. strtDr[86].reg = 88
  BY StrtDrAt, SetFiltersAt DEF Wr
<1>7. \A i \in 87 .. 89 : strtDr[i].reg \in {27, 30, 31}
  <2> TAKE i \in 87 .. 89
  <2>1. strtDr[i] = enable[i - 86] /\ i - 86 \in 1 .. 3
    BY StrtDrAt
  <2> QED
    BY <2>1, EnableAt
<1> QED
  BY <1>1, <1>2, <1>3, <1>4, <1>5, <1>6, <1>7

\* An element of a sequence of accesses is for a register, and its address
\* tells the bank.
LEMMA ElementBank ==
  ASSUME NEW s \in Seq(AccessType), NEW i \in 1 .. Len(s)
  PROVE  /\ s[i].reg \in Registers
         /\ Bank(s[i]) \in Banks
         /\ Bank(s[i]) = bank_0 <=> s[i].reg \in 0 .. 31
         /\ Bank(s[i]) = bank_1 <=> s[i].reg \in 64 .. 90
         /\ Bank(s[i]) = bank_2 <=> s[i].reg \in 128 .. 154
         /\ Bank(s[i]) = bank_3 <=> s[i].reg \in 192 .. 218
<1>1. s[i].reg \in Registers
  <2>1. s[i] \in AccessType
    BY ElementOfSequence
  <2> QED
    BY <2>1 DEF AccessType
<1> DEFINE a == s[i]
<1>2. a.reg \in Registers
  BY <1>1
<1> HIDE DEF a
<1>3. /\ Bank(a) = bank_0 <=> a.reg \in 0 .. 31
      /\ Bank(a) = bank_1 <=> a.reg \in 64 .. 90
      /\ Bank(a) = bank_2 <=> a.reg \in 128 .. 154
      /\ Bank(a) = bank_3 <=> a.reg \in 192 .. 218
  BY <1>2, BankOf DEF Bank
<1>4. Bank(a) \in Banks
  BY <1>2, OwnBank DEF Bank
<1> QED
  BY <1>1, <1>3, <1>4 DEF a

\* A function that only polls lands where it should.
LEMMA PollsLands ==
  ASSUME NEW s \in Seq(AccessType), NEW R, Polls(s, R),
         \A r \in R : r \in 0 .. 31 \/ r \in Mii
  PROVE  Lands(s)
<1> SUFFICES ASSUME NEW i \in 2 .. Len(s), Careful(s[i])
             PROVE  /\ Bank(s[i - 1]) # bank_0
                    /\ Bank(s[i - 1]) # Bank(s[i])
  BY DEF Lands
<1>1. i \in 1 .. Len(s) /\ i - 1 \in 1 .. Len(s)
  OBVIOUS
<1>2. s[i].reg \notin R
  BY <1>1, ElementBank DEF Careful
<1>3. s[i].reg = bank3.MISTAT /\ s[i - 1].reg \in Mii
  BY <1>1, <1>2 DEF Polls
<1>4. Bank(s[i]) = bank_3
  BY <1>1, <1>3, ElementBank, MiiAddresses
<1>5. Bank(s[i - 1]) = bank_2
  BY <1>1, <1>3, ElementBank, MiiAddresses
<1> QED
  BY <1>4, <1>5 DEF bank_0, bank_2, bank_3

\* No access of strtDr but those to MII registers can go astray.
LEMMA StrtDrLands == Lands(strtDr)
<1> SUFFICES ASSUME NEW i \in 2 .. 89, Careful(strtDr[i])
             PROVE  /\ Bank(strtDr[i - 1]) # bank_0
                    /\ \/ Bank(strtDr[i - 1]) # Bank(strtDr[i])
                       \/ strtDr[i - 1].reg \notin Mii
  BY StrtDrAt DEF Lands
<1> DEFINE a == strtDr[i]
           p == strtDr[i - 1]
<1>1. /\ i \in 1 .. Len(strtDr) /\ i - 1 \in 1 .. Len(strtDr)
  BY StrtDrAt
<1>2. /\ Bank(a) = bank_0 <=> a.reg \in 0 .. 31
      /\ Bank(a) = bank_2 <=> a.reg \in 128 .. 154
      /\ Bank(a) = bank_3 <=> a.reg \in 192 .. 218
      /\ Bank(p) = bank_0 <=> p.reg \in 0 .. 31
      /\ Bank(p) = bank_2 <=> p.reg \in 128 .. 154
      /\ Bank(p) = bank_3 <=> p.reg \in 192 .. 218
  <2>1. a.reg \in Registers /\ p.reg \in Registers
    BY <1>1, StrtDrType, ElementBank
  <2> HIDE DEF a, p
  <2> QED
    BY <2>1, BankOf DEF Bank
<1>3. a.reg \notin 0 .. 31 /\ a.reg \notin Mii
  BY <1>2 DEF Careful
<1>4. CASE i <= 33
  <2>1. a = identify[i] /\ p = identify[i - 1]
    BY <1>4, StrtDrAt
  <2>2. bank0.ESTAT = 29
    BY DEF bank0
  <2>3. a.reg = bank3.MISTAT /\ p.reg \in Mii
    BY <1>3, <1>4, <2>1, <2>2, IdentifyPolls DEF Polls
  <2> QED
    BY <1>2, <2>3, MiiAddresses DEF bank_0, bank_2, bank_3
<1>5. CASE i \in 34 .. 45
  <2>1. a.reg = pointers[i - 33] /\ i - 33 \in 1 .. 12
    BY <1>5, StrtDrRegs
  <2>2. \A j \in 1 .. 12 : pointers[j] \in 0 .. 31
    BY PointersAt
  <2> QED
    BY <1>3, <2>1, <2>2
<1>6. CASE i \in 46 .. 69
  <2> DEFINE j == i - 45
  <2>1. j \in 1 .. 24 /\ a = phyInit[j]
    BY <1>6, StrtDrAt
  <2>2. j > 1 /\ a.reg = bank3.MISTAT /\ phyInit[j - 1].reg \in Mii
    BY <1>3, <2>1, PhyInitPolls, PhyInitAt DEF Polls
  <2>3. p = phyInit[j - 1]
    <3>1. i - 1 \in 46 .. 69 /\ (i - 1) - 45 = j - 1
      BY <1>6, <2>2
    <3> QED
      BY <3>1, StrtDrAt
  <2> QED
    BY <1>2, <2>2, <2>3, MiiAddresses DEF bank_0, bank_2, bank_3
<1>7. CASE i = 70
  <2>1. a.reg \in {137, 128, 130}
    BY <1>7, StrtDrRegs
  <2>2. p = phyInit[24]
    BY <1>7, StrtDrAt
  <2>3. phyInit[24] = writePhyReg(phyReg.PHIE, {bit.PLNKIE})[4]
    BY PhyInitAt
  <2>4. phyReg.PHIE \in Nat /\ {bit.PLNKIE} \in SUBSET Nat
    BY DEF phyReg, bit
  <2>5. p = Rd(bank3.MISTAT)
    BY <2>2, <2>3, <2>4, WritePhyAt, Zenon
  <2>6. p.reg = 202
    BY <2>5, MiiAddresses DEF Rd
  <2> QED
    BY <1>2, <2>1, <2>6 DEF bank_0, bank_2, bank_3
<1>8. CASE i \in 71 .. 86
  <2>1. i - 1 \in 70 .. 75 \/ (i - 1 \in 76 .. 85 /\ (i - 1) - 75 \in 1 .. 10)
    BY <1>8
  <2>2. p.reg \in {137, 128, 130} \cup Written
    BY <2>1, StrtDrRegs, MacInitRegs
  <2>3. i - 1 \in 76 .. 85 => p.reg \in {138, 139, 132, 134, 192, 193, 194, 195, 196, 197}
    <3> SUFFICES ASSUME i - 1 \in 76 .. 85
                 PROVE  p.reg \in {138, 139, 132, 134, 192, 193, 194, 195, 196, 197}
      OBVIOUS
    <3>1. p.reg = macValues[(i - 1) - 75] /\ (i - 1) - 75 \in 1 .. 10
      BY StrtDrRegs
    <3>2. \A j \in 1 .. 10 : macValues[j]
             \in {138, 139, 132, 134, 192, 193, 194, 195, 196, 197}
      BY MacValuesAt
    <3> QED
      BY <3>1, <3>2
  <2>4. i - 1 \in 70 .. 75 => p.reg \in {137, 128, 130}
    BY StrtDrRegs
  <2> QED
    BY <1>2, <2>1, <2>3, <2>4, MiiAddresses DEF bank_0
<1>9. CASE i \in 87 .. 89
  BY <1>3, <1>9, StrtDrRegs
<1> QED
  BY <1>4, <1>5, <1>6, <1>7, <1>8, <1>9

\* strtDr ends in bank 0, with bank 1 the last other bank it uses.
LEMMA StrtDrSettles ==
  /\ Settles(strtDr)
  /\ \E i \in 1 .. Len(strtDr) : Bank(strtDr[i]) # bank_0
<1>1. /\ 86 \in 1 .. Len(strtDr) /\ 87 \in 1 .. Len(strtDr)
      /\ 88 \in 1 .. Len(strtDr) /\ 89 \in 1 .. Len(strtDr)
  BY StrtDrAt
<1>2. Bank(strtDr[86]) = bank_1
  <2>1. \A i \in 1 .. Len(strtDr) :
          strtDr[i].reg \in 64 .. 90 => Bank(strtDr[i]) = bank_1
    BY StrtDrType, ElementBank
  <2>2. strtDr[86].reg \in 64 .. 90
    BY StrtDrRegs
  <2> QED
    BY <1>1, <2>1, <2>2
<1>3. \A i \in 87 .. 89 : Bank(strtDr[i]) = bank_0
  <2> TAKE i \in 87 .. 89
  <2>1. i \in 1 .. Len(strtDr) /\ strtDr[i].reg \in {27, 30, 31}
    BY StrtDrAt, StrtDrRegs
  <2> QED
    BY <2>1, StrtDrType, ElementBank
<1>4. bank_0 # bank_1 /\ bank_0 # bank_3 /\ bank_1 # bank_3
  BY DEF bank_0, bank_1, bank_3
<1>5. Bank(strtDr[Len(strtDr)]) = bank_0
  BY <1>3, StrtDrAt
<1>6. ASSUME NEW i \in 1 .. Len(strtDr), Bank(strtDr[i]) = bank_3
      PROVE  \E j \in i + 1 .. Len(strtDr) : Bank(strtDr[j]) \in {bank_1, bank_2}
  <2>1. i # 86 /\ i \notin 87 .. 89
    BY <1>2, <1>3, <1>4, <1>6
  <2>2. 86 \in i + 1 .. Len(strtDr)
    BY <2>1, StrtDrAt
  <2> QED
    BY <1>2, <2>2
<1> QED
  BY <1>1, <1>2, <1>4, <1>5, <1>6 DEF Settles

\* A function that keeps off the static registers changes none.
LEMMA OffStatic ==
  ASSUME NEW s, NEW v,
         \A i \in 1 .. Len(s) : s[i].reg \notin StaticConfig
  PROVE  Configures(s, v)
<1>1. Written \subseteq StaticConfig /\ Modified \subseteq StaticConfig
  BY StaticAddresses, ModifiedAddresses
<1> QED
  BY <1>1 DEF Configures

\* A configuration write gives a static register its value.
LEMMA WritesCfg == \A r \in Written : Writes(Wr(r, {Cfg(r)}))
  BY ExpectedValues DEF Writes, Wr

\* What strtDr does to the static registers is what it should.
LEMMA StrtDrConfigures == \A v : Configures(strtDr, v)
<1> SUFFICES ASSUME NEW i \in 1 .. 89
             PROVE  /\ strtDr[i].reg \in Written => Writes(strtDr[i])
                    /\ strtDr[i].reg \in Modified =>
                         \/ strtDr[i] = Rd(strtDr[i].reg)
                         \/ /\ Modifies(strtDr[i]) /\ i # 1
                            /\ strtDr[i - 1] = Rd(strtDr[i].reg)
  BY StrtDrAt DEF Configures
<1> DEFINE a == strtDr[i]
<1>1. CASE i \in (1 .. 33) \cup (46 .. 69) \cup (87 .. 89)
  <2>1. a.reg \in Mii \cup {29, 202, 27, 30, 31}
    BY <1>1, StrtDrRegs, SMTT(60)
  <2> QED
    BY <2>1, MiiAddresses, StaticAddresses, ModifiedAddresses
<1>2. CASE i \in 34 .. 45
  <2> DEFINE j == i - 33
  <2>1. j \in 1 .. 12
    BY <1>2
  <2>2. a = Wr(pointers[j], {Cfg(pointers[j])}) /\ a.reg = pointers[j]
    <3>1. a = Configure(pointers)[j] /\ a.reg = pointers[j]
      BY <1>2, StrtDrAt, StrtDrRegs
    <3>2. Configure(pointers)[j] = Wr(pointers[j], {Cfg(pointers[j])})
      BY <2>1, SetPointersAt
    <3> QED
      BY <3>1, <3>2
  <2>3. pointers[j] \notin Modified
    BY <2>1, PointersAt, ModifiedAddresses
  <2> QED
    BY <2>2, <2>3, WritesCfg
<1>3. CASE i \in 70 .. 75
  <2> DEFINE j == i - 69
  <2>1. j \in 1 .. 6 /\ a = macModes[j] /\ (j > 1 => strtDr[i - 1] = macModes[j - 1])
    <3>1. j \in 1 .. 6 /\ j \in 1 .. 16
      BY <1>3
    <3>2. a = macInit[j] /\ macInit[j] = macModes[j]
      BY <1>3, <3>1, StrtDrAt, MacInitAt
    <3>3. ASSUME j > 1
          PROVE  strtDr[i - 1] = macModes[j - 1]
      <4>1. i - 1 \in 70 .. 85 /\ (i - 1) - 69 = j - 1 /\ j - 1 \in 1 .. 6
        BY <1>3, <3>3
      <4> QED
        BY <4>1, StrtDrAt, MacInitAt
    <3> QED
      BY <3>1, <3>2, <3>3
  <2> DEFINE b == strtDr[i - 1]
  <2> HIDE DEF a, b
  <2>2. (j > 1 => b = macModes[j - 1]) /\ a = macModes[j] /\ j \in 1 .. 6
    BY <2>1 DEF a, b
  <2>3. CASE j = 1 \/ j = 3 \/ j = 5
    <3>1. a = Rd(137) \/ a = Rd(128) \/ a = Rd(130)
      BY <2>2, <2>3, MacModesAt
    <3>2. a = Rd(a.reg) /\ a.reg \in {137, 128, 130}
      BY <3>1 DEF Rd
    <3>3. a.reg \notin Written
      BY <3>2, StaticAddresses
    <3> QED
      BY <3>2, <3>3 DEF a
  <2>4. CASE j = 2 \/ j = 4 \/ j = 6
    <3>1. \/ b = Rd(137) /\ a.reg = 137
          \/ b = Rd(128) /\ a.reg = 128
          \/ b = Rd(130) /\ a.reg = 130
      BY <2>2, <2>4, MacModesAt DEF Modify
    <3>2. Modifies(a)
      BY <2>2, <2>4, MacModesModify
    <3>3. a.reg \notin Written
      BY <3>1, StaticAddresses
    <3>4. b = Rd(a.reg)
      BY <3>1
    <3> QED
      BY <1>3, <3>2, <3>3, <3>4 DEF a, b
  <2> QED
    BY <2>2, <2>3, <2>4
<1>4. CASE i \in 76 .. 85
  <2> DEFINE j == i - 75
  <2>1. j \in 1 .. 10 /\ i - 69 = 6 + j
    BY <1>4
  <2>2. a = macInit[6 + j]
    BY <1>4, <2>1, StrtDrAt
  <2>3. a = Wr(macValues[j], {Cfg(macValues[j])}) /\ a.reg = macValues[j]
    BY <1>4, <2>1, <2>2, MacInitAt, StrtDrRegs
  <2>4. macValues[j] \in Written /\ macValues[j] \notin Modified
    BY <2>1, MacInitRegs DEF Written
  <2> QED
    BY <2>3, <2>4, WritesCfg
<1>5. CASE i = 86
  <2>1. a = Wr(88, {Cfg(88)}) /\ a.reg = 88
    BY <1>5, StrtDrAt, StrtDrRegs, SetFiltersAt
  <2>2. 88 \in Written /\ 88 \notin Modified
    BY StaticAddresses, ModifiedAddresses
  <2> QED
    BY <2>1, <2>2, WritesCfg
<1> QED
  BY <1>1, <1>2, <1>3, <1>4, <1>5

\* strtDr leaves no static register out.
LEMMA StrtDrCovers ==
  \A r \in StaticConfig :
    \E i \in 1 .. Len(strtDr) : strtDr[i].reg = r /\ strtDr[i].op # "read"
<1> TAKE r \in StaticConfig
<1> DEFINE n == Len(strtDr)
<1>0. n = 89
  BY StrtDrAt
<1> HIDE DEF n
<1> SUFFICES \E i \in 1 .. n : strtDr[i].reg = r /\ strtDr[i].op # "read"
  BY DEF n
<1>1. CASE r \in {8, 9, 10, 11}
  <2>1. PICK j \in 1 .. 12 : pointers[j] = r
    BY <1>1, PointersAt
  <2>2. 33 + j \in 34 .. 45 /\ (33 + j) - 33 = j
    OBVIOUS
  <2>3. strtDr[33 + j] = Wr(r, {Cfg(r)})
    <3>1. strtDr[33 + j] = Configure(pointers)[j]
      BY <2>2, StrtDrAt
    <3>2. Configure(pointers)[j] = Wr(pointers[j], {Cfg(pointers[j])})
      BY SetPointersAt
    <3> QED
      BY <2>1, <3>1, <3>2
  <2>4. strtDr[33 + j].reg = r /\ strtDr[33 + j].op = "write"
    BY <2>3 DEF Wr
  <2> QED
    BY <1>0, <2>4
<1>2. CASE r \in {138, 139, 132, 134, 192, 193, 194, 195, 196, 197}
  <2>1. PICK j \in 1 .. 10 : macValues[j] = r
    BY <1>2, MacValuesAt
  <2>2. 75 + j \in 70 .. 85 /\ (75 + j) - 69 = 6 + j
    OBVIOUS
  <2>3. strtDr[75 + j] = Wr(r, {Cfg(r)})
    <3>1. strtDr[75 + j] = macInit[6 + j]
      BY <2>2, StrtDrAt
    <3>2. macInit[6 + j] = Wr(macValues[j], {Cfg(macValues[j])})
      BY MacInitAt
    <3> QED
      BY <2>1, <3>1, <3>2
  <2>4. strtDr[75 + j].reg = r /\ strtDr[75 + j].op = "write"
    BY <2>3 DEF Wr
  <2> QED
    BY <1>0, <2>4
<1>3. CASE r = 88
  <2>1. strtDr[86].reg = r /\ strtDr[86].op = "write"
    BY <1>3, StrtDrAt, SetFiltersAt DEF Wr
  <2> QED
    BY <1>0, <2>1
<1>4. CASE r \in {137, 128, 130}
  <2>1. PICK j \in {2, 4, 6} : macModes[j].reg = r /\ macModes[j].op = "modify"
    BY <1>4, MacModesAt DEF Modify
  <2>2. 69 + j \in 70 .. 85 /\ (69 + j) - 69 = j /\ j \in 1 .. 6
    OBVIOUS
  <2>3. strtDr[69 + j] = macModes[j]
    BY <2>2, StrtDrAt, MacInitAt
  <2>4. strtDr[69 + j].reg = r /\ strtDr[69 + j].op = "modify"
    BY <2>1, <2>3
  <2> QED
    BY <1>0, <2>2, <2>4
<1> QED
  BY <1>1, <1>2, <1>3, <1>4, StaticAddresses

\* The registers of the running driver's data path: bank 0 without the bounds
\* of the receive buffer.
Plain(s) == \A i \in 1 .. Len(s) : s[i].reg \in (0 .. 31) \ (8 .. 11)

\* Setting pointers of the data path is plain.
LEMMA ConfigurePlain ==
  ASSUME NEW regs \in Seq(Registers),
         \A i \in 1 .. Len(regs) : regs[i] \in (0 .. 31) \ (8 .. 11)
  PROVE  Plain(Configure(regs)) /\ Len(Configure(regs)) = Len(regs)
<1> DEFINE s == Configure(regs)
<1>1. /\ Len(s) = Len(regs)
      /\ \A i \in 1 .. Len(regs) : s[i] = Wr(regs[i], {Cfg(regs[i])})
  BY ConfigureAt, Zenon
<1> HIDE DEF s
<1>2. ASSUME NEW i \in 1 .. Len(s)
      PROVE  s[i].reg \in (0 .. 31) \ (8 .. 11)
  <2>1. i \in 1 .. Len(regs)
    BY <1>1
  <2>2. s[i] = Wr(regs[i], {Cfg(regs[i])})
    BY <1>1, <2>1
  <2>3. s[i].reg = regs[i]
    BY <2>2 DEF Wr
  <2> QED
    BY <2>1, <2>3
<1> QED
  BY <1>1, <1>2 DEF Plain, s

\* etherReceive is plain,
LEMMA ReceivePlain == Plain(etherReceive) /\ Len(etherReceive) = 4
<1> DEFINE regs == <<bank0.ERDPTL, bank0.ERDPTH, bank0.ERXRDPTL, bank0.ERXRDPTH>>
<1>1. regs \in Seq(Registers)
  BY RegisterNames, InRegisters
<1>2. /\ bank0.ERDPTL = 0 /\ bank0.ERDPTH = 1
      /\ bank0.ERXRDPTL = 12 /\ bank0.ERXRDPTH = 13
  BY DEF bank0
<1>3. Len(regs) = 4 /\ \A i \in 1 .. Len(regs) : regs[i] \in (0 .. 31) \ (8 .. 11)
  BY <1>2
<1>4. etherReceive = Configure(regs)
  BY DEF etherReceive
<1> HIDE DEF regs
<1> QED
  BY <1>1, <1>3, <1>4, ConfigurePlain

\* so is etherTransmit,
LEMMA TransmitPlain == Plain(etherTransmit) /\ Len(etherTransmit) = 10
<1> DEFINE regs == <<bank0.EWRPTL, bank0.EWRPTH, bank0.ETXSTL, bank0.ETXSTH,
                     bank0.ETXNDL, bank0.ETXNDH>>
           s == Configure(regs)
           t == << BitFieldClear(bank0.EIR, bit.TXIF),
                   BitFieldSet(bank0.EIE, bit.TXIE),
                   BitFieldSet(bank0.EIE, bit.INTIE),
                   BitFieldSet(bank0.ECON1, bit.TXRTS) >>
<1>1. regs \in Seq(Registers)
  BY RegisterNames, InRegisters
<1>2. /\ bank0.EWRPTL = 2 /\ bank0.EWRPTH = 3 /\ bank0.ETXSTL = 4
      /\ bank0.ETXSTH = 5 /\ bank0.ETXNDL = 6 /\ bank0.ETXNDH = 7
      /\ bank0.EIR = 28 /\ bank0.EIE = 27 /\ bank0.ECON1 = 31
  BY DEF bank0
<1>3. Len(regs) = 6 /\ \A i \in 1 .. Len(regs) : regs[i] \in (0 .. 31) \ (8 .. 11)
  BY <1>2
<1>4. t \in Seq(AccessType)
  <2>1. bank0.EIR \in Registers /\ bank0.EIE \in Registers /\ bank0.ECON1 \in Registers
    BY RegisterNames, InRegisters
  <2>2. /\ BitFieldClear(bank0.EIR, bit.TXIF) \in AccessType
        /\ BitFieldSet(bank0.EIE, bit.TXIE) \in AccessType
        /\ BitFieldSet(bank0.EIE, bit.INTIE) \in AccessType
        /\ BitFieldSet(bank0.ECON1, bit.TXRTS) \in AccessType
    BY <2>1, BitType, BitFieldType
  <2> QED
    BY <2>2
<1>5. Len(t) = 4 /\ Plain(t)
  BY <1>2 DEF Plain, BitFieldClear, BitFieldSet
<1>6. etherTransmit = s \o t
  BY DEF etherTransmit
<1> HIDE DEF regs, t
<1>7. s \in Seq(AccessType) /\ Plain(s) /\ Len(s) = 6
  BY <1>1, <1>3, ConfigurePlain, ConfigureType
<1> HIDE DEF s
<1>8. /\ Len(etherTransmit) = Len(s) + Len(t)
      /\ \A i \in 1 .. Len(s) + Len(t) :
           etherTransmit[i] = IF i <= Len(s) THEN s[i] ELSE t[i - Len(s)]
  BY <1>4, <1>6, <1>7, ConcatAt, Zenon
<1> QED
  BY <1>5, <1>7, <1>8 DEF Plain

\* and so are the one-access functions.
LEMMA SinglePlain ==
  \A p \in {readEir, global_int_Clear, global_Int_Set, clear_interrupt(TRUE),
            clear_interrupt(FALSE)} : Plain(p) /\ Len(p) = 1
<1>1. bank0.EIR = 28 /\ bank0.EIE = 27 /\ bank0.ECON2 = 30
  BY DEF bank0
<1>2. Plain(readEir) /\ Len(readEir) = 1
  BY <1>1 DEF Plain, readEir, Rd
<1>3. Plain(global_int_Clear) /\ Len(global_int_Clear) = 1
  BY <1>1 DEF Plain, global_int_Clear, BitFieldClear
<1>4. Plain(global_Int_Set) /\ Len(global_Int_Set) = 1
  BY <1>1 DEF Plain, global_Int_Set, BitFieldSet
<1>5. Plain(clear_interrupt(TRUE)) /\ Len(clear_interrupt(TRUE)) = 1
  BY <1>1 DEF Plain, clear_interrupt, BitFieldSet
<1>6. Plain(clear_interrupt(FALSE)) /\ Len(clear_interrupt(FALSE)) = 1
  BY <1>1 DEF Plain, clear_interrupt, BitFieldClear
<1> QED
  BY <1>2, <1>3, <1>4, <1>5, <1>6

\* The link service: readPhyReg, then one access to bank 0.
LEMMA LinkServiceAt ==
  /\ linkService \in Seq(AccessType) /\ Len(linkService) = 9
  /\ linkService[4].reg = 202 /\ linkService[9].reg = 27
  /\ \A i \in {1, 2, 3, 5, 6, 7, 8} : linkService[i].reg \in Mii \ {151}
<1> DEFINE s == readPhyReg(phyReg.PHIR)
           t == <<BitFieldClear(bank0.EIE, bit.LINKIE)>>
<1>1. phyReg.PHIR \in Nat
  BY DEF phyReg
<1>2. /\ s[1] = Wr(bank2.MIREGADR, {phyReg.PHIR}) /\ s[2] = Rd(bank2.MICMD)
      /\ s[3] = Modify(bank2.MICMD, {bit.MIIRD}, {})
      /\ s[4] = Rd(bank3.MISTAT) /\ s[5] = Rd(bank2.MICMD)
      /\ s[6] = Modify(bank2.MICMD, {}, {bit.MIIRD})
      /\ s[7] = Rd(bank2.MIRDH) /\ s[8] = Rd(bank2.MIRDL) /\ Len(s) = 8
      /\ s \in Seq(AccessType)
  BY <1>1, ReadPhyAt, ReadPhyType, Zenon
<1>3. t \in Seq(AccessType) /\ Len(t) = 1 /\ t[1].reg = 27
  <2>1. bank0.EIE \in Registers
    BY RegisterNames, InRegisters
  <2>2. BitFieldClear(bank0.EIE, bit.LINKIE) \in AccessType
    BY <2>1, BitType, BitFieldType
  <2>3. bank0.EIE = 27
    BY DEF bank0
  <2> QED
    BY <2>2, <2>3 DEF BitFieldClear
<1>4. linkService = s \o t
  BY DEF linkService
<1> HIDE DEF s, t
<1>5. s \in Seq(AccessType) /\ t \in Seq(AccessType)
  BY <1>2, <1>3
<1>6. /\ Len(linkService) = Len(s) + Len(t) /\ linkService \in Seq(AccessType)
      /\ \A i \in 1 .. Len(s) + Len(t) :
           linkService[i] = IF i <= Len(s) THEN s[i] ELSE t[i - Len(s)]
  BY <1>4, <1>5, ConcatAt, ZenonT(60)
<1>7. \A i \in 1 .. 8 : linkService[i] = s[i]
  BY <1>2, <1>3, <1>6
<1>8. Len(linkService) = 9 /\ linkService[9] = t[1]
  BY <1>2, <1>3, <1>6
<1>9. /\ s[4].reg = 202
      /\ \A i \in {1, 2, 3, 5, 6, 7, 8} : s[i].reg \in Mii \ {151}
  BY <1>2, MiiAddresses DEF Wr, Rd, Modify
<1> QED
  <2>1. linkService[4].reg = 202 /\ linkService[9].reg = 27
    BY <1>3, <1>7, <1>8, <1>9
  <2>2. \A i \in {1, 2, 3, 5, 6, 7, 8} : i \in 1 .. 8
    OBVIOUS
  <2>3. \A i \in {1, 2, 3, 5, 6, 7, 8} : linkService[i].reg \in Mii \ {151}
    <3> TAKE i \in {1, 2, 3, 5, 6, 7, 8}
    <3>1. linkService[i] = s[i]
      BY <1>7, <2>2
    <3> QED
      BY <1>9, <3>1
  <2> QED
    BY <1>6, <1>8, <2>1, <2>3, Zenon

\* What every call of the running driver keeps to.
Harmless(p) ==
  /\ p # <<>> /\ Len(p) <= 10
  /\ ~Careful(p[1]) /\ Lands(p) /\ Settles(p)
  /\ \A i \in 1 .. Len(p) : p[i].reg \notin StaticConfig \cup {bank2.MIWRH}

\* A call makes at least one access and at most ten.
LEMMA ShortCall ==
  ASSUME NEW p \in Seq(AccessType), Len(p) \in 1 .. 10
  PROVE  p # <<>> /\ Len(p) <= 10 /\ Len(p) \in 1 .. Len(p)
<1> DEFINE n == Len(p)
<1>1. n \in 1 .. 10
  OBVIOUS
<1> HIDE DEF n
<1>2. n # 0 /\ n <= 10 /\ n \in 1 .. n
  BY <1>1
<1>3. p # <<>>
  BY <1>2, EmptySeq DEF n
<1> QED
  BY <1>2, <1>3 DEF n

\* A plain function does,
LEMMA PlainHarmless ==
  ASSUME NEW p \in Seq(AccessType), Plain(p), Len(p) \in 1 .. 10
  PROVE  Harmless(p)
<1>1. \A i \in 1 .. Len(p) : Bank(p[i]) = bank_0
  BY ElementBank DEF Plain
<1>2. p # <<>> /\ Len(p) <= 10 /\ Len(p) \in 1 .. Len(p)
  BY ShortCall, Zenon
<1>3. ~Careful(p[1]) /\ Lands(p)
  BY <1>1 DEF Careful, Lands
<1>4. Settles(p)
  BY <1>1, <1>2 DEF Settles, bank_0, bank_3
<1>5. \A i \in 1 .. Len(p) : p[i].reg \notin StaticConfig \cup {bank2.MIWRH}
  <2>1. \A r \in (0 .. 31) \ (8 .. 11) : r \notin StaticConfig \cup {bank2.MIWRH}
    BY StaticAddresses, MiiAddresses
  <2> QED
    BY <2>1, Zenon DEF Plain
<1> QED
  BY <1>2, <1>3, <1>4, <1>5 DEF Harmless

\* and so does the link service.
LEMMA LinkServiceHarmless == Harmless(linkService)
<1> DEFINE p == linkService
<1>1. p \in Seq(AccessType) /\ Len(p) = 9
  BY LinkServiceAt
<1>2. p[4].reg = 202 /\ p[9].reg = 27
  BY LinkServiceAt
<1>3. \A i \in {1, 2, 3, 5, 6, 7, 8} : p[i].reg \in Mii \ {151}
  BY LinkServiceAt
<1> HIDE DEF p
<1>4. \A i \in 1 .. 9 : i \in {1, 2, 3, 5, 6, 7, 8} \/ i = 4 \/ i = 9
  OBVIOUS
<1>5. /\ Bank(p[4]) = bank_3 /\ Bank(p[9]) = bank_0
      /\ \A i \in {1, 2, 3, 5, 6, 7, 8} : Bank(p[i]) = bank_2
  <2>1. /\ 4 \in 1 .. Len(p) /\ 9 \in 1 .. Len(p)
        /\ \A i \in {1, 2, 3, 5, 6, 7, 8} : i \in 1 .. Len(p)
    BY <1>1
  <2>2. \A i \in 1 .. Len(p) :
          /\ p[i].reg \in 0 .. 31 => Bank(p[i]) = bank_0
          /\ p[i].reg \in 128 .. 154 => Bank(p[i]) = bank_2
          /\ p[i].reg \in 192 .. 218 => Bank(p[i]) = bank_3
    BY <1>1, ElementBank, ZenonT(60)
  <2> QED
    <3>1. 202 \in 192 .. 218 /\ 27 \in 0 .. 31
      OBVIOUS
    <3>2. \A r \in Mii \ {151} : r \in 128 .. 154
      BY MiiAddresses
    <3>3. Bank(p[4]) = bank_3 /\ Bank(p[9]) = bank_0
      BY <1>2, <2>1, <2>2, <3>1
    <3>4. \A i \in {1, 2, 3, 5, 6, 7, 8} : Bank(p[i]) = bank_2
      <4> TAKE i \in {1, 2, 3, 5, 6, 7, 8}
      <4>1. p[i].reg \in Mii \ {151}
        BY <1>3
      <4>2. i \in 1 .. Len(p)
        BY <2>1, Zenon
      <4> QED
        BY <2>2, <3>2, <4>1, <4>2, Zenon
    <3> QED
      BY <3>3, <3>4
<1>6. p # <<>> /\ Len(p) <= 10 /\ ~Careful(p[1])
  <2>1. Len(<<>>) = 0
    OBVIOUS
  <2>2. p[1].reg \in Mii
    BY <1>3
  <2> QED
    BY <1>1, <2>1, <2>2 DEF Careful
<1>7. Lands(p)
  <2> SUFFICES ASSUME NEW i \in 2 .. Len(p), Careful(p[i])
               PROVE  Bank(p[i - 1]) # bank_0 /\ Bank(p[i - 1]) # Bank(p[i])
    BY DEF Lands
  <2>1. i = 4
    BY <1>1, <1>3, <1>4, <1>5 DEF Careful
  <2>2. Bank(p[3]) = bank_2 /\ i - 1 = 3
    BY <1>5, <2>1
  <2> QED
    BY <1>5, <2>1, <2>2 DEF bank_0, bank_2, bank_3
<1>8. Settles(p)
  <2>1. ASSUME NEW i \in 1 .. Len(p), Bank(p[i]) = bank_3
        PROVE  \E j \in i + 1 .. Len(p) : Bank(p[j]) \in {bank_1, bank_2}
    <3>1. i = 4
      BY <1>1, <1>4, <1>5, <2>1 DEF bank_0, bank_2, bank_3
    <3>2. 5 \in i + 1 .. Len(p) /\ Bank(p[5]) = bank_2
      BY <1>1, <1>5, <3>1
    <3> QED
      BY <3>2
  <2>2. Bank(p[Len(p)]) = bank_0
    BY <1>1, <1>5
  <2> QED
    BY <2>1, <2>2 DEF Settles
<1>9. \A i \in 1 .. Len(p) : p[i].reg \notin StaticConfig \cup {bank2.MIWRH}
  <2>1. \A r \in (Mii \ {151}) \cup {202, 27} :
          r \notin StaticConfig \cup {bank2.MIWRH}
    BY StaticAddresses, MiiAddresses
  <2>2. \A i \in 1 .. 9 : p[i].reg \in (Mii \ {151}) \cup {202, 27}
    BY <1>2, <1>3, <1>4
  <2> QED
    BY <1>1, <2>1, <2>2
<1>10. Harmless(p)
  BY <1>6, <1>7, <1>8, <1>9 DEF Harmless
<1> QED
  BY <1>10 DEF p

\* Every call main() makes of the running driver does.
LEMMA RunCallsHarmless == \A p \in RunCalls : Harmless(p)
<1> TAKE p \in RunCalls
<1>1. p \in Seq(AccessType)
  BY RunCallsType
<1>2. p = linkService \/ (Plain(p) /\ Len(p) \in 1 .. 10)
  <2>1. \/ p \in {readEir, global_int_Clear, global_Int_Set,
                  clear_interrupt(TRUE), clear_interrupt(FALSE)}
        \/ p = etherReceive \/ p = etherTransmit \/ p = linkService
    BY DEF RunCalls
  <2> QED
    <3>1. \A q \in {readEir, global_int_Clear, global_Int_Set,
                    clear_interrupt(TRUE), clear_interrupt(FALSE)} :
             Plain(q) /\ Len(q) \in 1 .. 10
      <4> TAKE q \in {readEir, global_int_Clear, global_Int_Set,
                      clear_interrupt(TRUE), clear_interrupt(FALSE)}
      <4>1. Plain(q) /\ Len(q) = 1
        BY SinglePlain, Zenon
      <4> QED
        BY <4>1
    <3>2. /\ Plain(etherReceive) /\ Len(etherReceive) \in 1 .. 10
          /\ Plain(etherTransmit) /\ Len(etherTransmit) \in 1 .. 10
      BY ReceivePlain, TransmitPlain
    <3> QED
      BY <2>1, <3>1, <3>2, Zenon
<1> QED
  BY <1>1, <1>2, PlainHarmless, LinkServiceHarmless

-----------------------------------------------------------------------------
(* The bank memory.                                                        *)

\* The bank of a register address is one of the four banks.
LEMMA BankOfRegister ==
  \A r \in Registers : convertRegValToBank(r) \in Banks
  BY OwnBank

\* Only bank 0 has no bits to set.
LEMMA OnlyBankZeroHasNoBits ==
  \A b \in Banks : convertBankToBits(b) = 0 <=> b = bank_0
  BY DEF convertBankToBits, Banks, bank_0, bank_1, bank_2, bank_3

\* One access, whichever register it is for: the chip ends in a bank, the
\* driver remembers one, and they differ only with the chip in bank 0.
LEMMA SwitchSound ==
  ASSUME NEW r \in Registers, bnBank \in Banks, bsel \in Banks
  PROVE  /\ SwitchFor(r).selected \in Banks
         /\ SwitchFor(r).believed \in Banks
         /\ bnBank = bsel \/ bsel = bank_0 =>
              \/ SwitchFor(r).believed = SwitchFor(r).selected
              \/ SwitchFor(r).selected = bank_0
  BY BankOfRegister, OnlyBankZeroHasNoBits DEF SwitchFor, bankChange

\* What the prologue of an access does, by whether the driver switches.
LEMMA SwitchFacts ==
  ASSUME NEW r \in Registers, bnBank \in Banks
  PROVE  LET b == convertRegValToBank(r)
         IN  /\ b # bnBank => /\ SwitchFor(r).selected = b
                              /\ SwitchFor(r).believed =
                                   IF b = bank_0 THEN bnBank ELSE b
             /\ b = bnBank => /\ SwitchFor(r).selected = bsel
                              /\ SwitchFor(r).believed = bnBank
  BY BankOfRegister, OnlyBankZeroHasNoBits DEF SwitchFor, bankChange

\* Every register is a cell of the chip.
LEMMA FileCells == \A r \in Registers : r \in DOMAIN ResetFile
  BY OwnBank DEF ResetFile

\* Where the next access hits: its register, or, in bank 0 with bank 2
\* remembered, the cell at the offset of an MII register.
LEMMA AccessHits ==
  ASSUME BankInv, LandInv, prog # <<>>
  PROVE  LET r == prog[1].reg
         IN  /\ started /\ r \in Registers
             /\ \/ Hit(r) = r
                \/ r \in Mii /\ Hit(r) = r - 128 /\ bnBank = bank_2
<1> DEFINE r == prog[1].reg
<1>1. started /\ prog[1] \in AccessType
  BY DEF BankInv, TypeOK, LandInv
<1>2. r \in Registers /\ bnBank \in Banks /\ bsel \in Banks
  BY <1>1 DEF BankInv, TypeOK, AccessType
<1>3. bnBank = bsel \/ bsel = bank_0
  BY <1>1 DEF BankInv, CacheSound
<1>4. Hit(r) = HitIn(SwitchFor(r).selected, r)
  BY DEF Hit
<1> DEFINE b == convertRegValToBank(r)
<1>5. CASE b # bnBank \/ bnBank = bsel
  <2>1. SwitchFor(r).selected = b
    BY <1>2, <1>5, SwitchFacts
  <2> QED
    BY <1>1, <1>2, <1>4, <2>1, OwnBank
<1>6. CASE b = bnBank /\ bnBank # bsel
  <2>1. SwitchFor(r).selected = bank_0 /\ b # bank_0
    BY <1>2, <1>3, <1>6, SwitchFacts
  <2>2. r \in Mii
    BY <1>6, <2>1 DEF LandInv, Careful, Bank
  <2>3. b = bank_2 /\ r \in 128 .. 154
    BY <1>2, <2>2, MiiAddresses, BankOf
  <2>4. HitIn(bank_0, r) = r - 128
    BY <2>2, MiiAddresses DEF HitIn, bank_0
  <2> QED
    BY <1>1, <1>2, <1>4, <1>6, <2>1, <2>2, <2>3, <2>4
<1> QED
  BY <1>5, <1>6

\* What an access does to the two banks.
LEMMA AccessBanks ==
  ASSUME BankInv, LandInv, Access
  PROVE  LET b == Bank(prog[1])
         IN  /\ b \in Banks
             /\ b = bank_0 => bsel' = bank_0 /\ bnBank' = bnBank
             /\ b # bank_0 => bnBank' = b
             /\ b # bank_0 /\ bnBank # b => bsel' = b
             /\ b # bank_0 /\ bnBank = b => bsel' = bsel
<1>1. prog # <<>> /\ prog[1] = Head(prog)
  BY DEF Access, BankInv, TypeOK
<1>2. started /\ prog[1].reg \in Registers
  BY <1>1, AccessHits
<1>3. bnBank \in Banks /\ (bnBank = bsel \/ bsel = bank_0)
  BY <1>2 DEF BankInv, TypeOK, CacheSound
<1>4. /\ bsel' = SwitchFor(prog[1].reg).selected
      /\ bnBank' = SwitchFor(prog[1].reg).believed
  BY <1>1 DEF Access
<1> QED
  BY <1>2, <1>3, <1>4, SwitchFacts, BankOfRegister DEF Bank

\* Every step keeps the memory sound.
LEMMA BankStep == BankInv /\ [Next]_vars => BankInv'
<1> SUFFICES ASSUME BankInv, [Next]_vars
             PROVE  BankInv'
  OBVIOUS
<1> USE DEF BankInv
<1>1. CASE Start
  BY <1>1, StrtDrType DEF Start, TypeOK, CacheSound, Banks
<1>2. CASE Call
  <2>1. prog' \in Seq(AccessType)
    BY <1>2, RunCallsType DEF Call
  <2> QED
    BY <1>2, <2>1 DEF Call, TypeOK, CacheSound
<1>3. CASE Access
  <2> DEFINE a == Head(prog)
  <2>1. a \in AccessType /\ prog' \in Seq(AccessType)
    BY <1>3, TailType DEF Access, TypeOK
  <2>2. a.reg \in Registers
    BY <2>1 DEF AccessType
  <2>3. /\ bsel' = SwitchFor(a.reg).selected
        /\ bnBank' = SwitchFor(a.reg).believed
        /\ started' = started
    BY <1>3 DEF Access
  <2>4. linkif' \in BOOLEAN
    BY <1>3 DEF Access, ChipWrite, TypeOK
  <2> QED
    BY <2>1, <2>2, <2>3, <2>4, SwitchSound DEF TypeOK, CacheSound
<1>4. CASE LinkChange
  BY <1>4 DEF LinkChange, TypeOK, CacheSound
<1>5. CASE McuReset
  <2>1. bank_0 \in Banks /\ <<>> \in Seq(AccessType)
    BY DEF Banks
  <2> QED
    BY <1>5, <2>1, Zenon DEF McuReset, TypeOK, CacheSound
<1>6. CASE UNCHANGED vars
  BY <1>6 DEF vars, TypeOK, CacheSound
<1> QED
  BY <1>1, <1>2, <1>3, <1>4, <1>5, <1>6 DEF Next

-----------------------------------------------------------------------------
(* Accesses land, and the chip comes to rest in bank 0.                    *)

\* What is left after one access.
LEMMA TailAt ==
  ASSUME NEW s \in Seq(AccessType), s # <<>>
  PROVE  /\ Head(s) = s[1] /\ Tail(s) \in Seq(AccessType)
         /\ Len(s) \in Nat /\ Len(s) >= 1 /\ Len(Tail(s)) = Len(s) - 1
         /\ \A i \in 1 .. Len(s) - 1 : Tail(s)[i] = s[i + 1]
  BY HeadTailProperties, EmptySeq

\* A function that lands, lands when it is half done.
LEMMA TailLands ==
  ASSUME NEW s \in Seq(AccessType), s # <<>>, Lands(s)
  PROVE  Lands(Tail(s))
<1> DEFINE t == Tail(s)
<1>1. /\ Len(s) \in Nat /\ Len(t) = Len(s) - 1
      /\ \A i \in 1 .. Len(s) - 1 : t[i] = s[i + 1]
  BY TailAt
<1> HIDE DEF t
<1> SUFFICES ASSUME NEW i \in 2 .. Len(t), Careful(t[i])
             PROVE  /\ Bank(t[i - 1]) # bank_0
                    /\ Bank(t[i - 1]) # Bank(t[i]) \/ t[i - 1].reg \notin Mii
  BY DEF Lands, t
<1>2. i + 1 \in 2 .. Len(s) /\ (i + 1) - 1 = i
  BY <1>1
<1>3. t[i] = s[i + 1]
  BY <1>1
<1>4. t[i - 1] = s[i]
  <2>1. i - 1 \in 1 .. Len(s) - 1 /\ (i - 1) + 1 = i
    BY <1>1
  <2> QED
    BY <1>1, <2>1
<1> QED
  BY <1>2, <1>3, <1>4 DEF Lands

\* Every step keeps the next access on course.
LEMMA LandStep == BankInv /\ LandInv /\ [Next]_vars => LandInv'
<1> SUFFICES ASSUME BankInv, LandInv, [Next]_vars
             PROVE  LandInv'
  OBVIOUS
<1>1. CASE Start
  <2>1. Lands(strtDr) /\ ~Careful(strtDr[1])
    <3>1. strtDr[1] = identify[1] /\ bank0.ESTAT = 29
      BY StrtDrAt DEF bank0
    <3>2. strtDr[1].reg \in 0 .. 31 /\ 1 \in 1 .. Len(strtDr)
      BY <3>1, IdentifyPolls, StrtDrAt DEF Rd
    <3> QED
      BY <3>2, StrtDrLands, StrtDrType, ElementBank DEF Careful
  <2> QED
    BY <1>1, <2>1 DEF Start, LandInv
<1>2. CASE Call
  <2>1. Lands(prog') /\ ~Careful(prog'[1])
    BY <1>2, RunCallsHarmless DEF Call, Harmless
  <2> QED
    BY <1>2, <2>1 DEF Call, LandInv
<1>3. CASE Access
  <2>1. prog # <<>> /\ prog \in Seq(AccessType) /\ prog' = Tail(prog)
    BY <1>3 DEF Access, BankInv, TypeOK
  <2>2. /\ prog' \in Seq(AccessType) /\ Len(prog') = Len(prog) - 1
        /\ Len(prog) \in Nat /\ Len(prog) >= 1
        /\ \A i \in 1 .. Len(prog) - 1 : prog'[i] = prog[i + 1]
    BY <2>1, TailAt
  <2>3. Lands(prog')
    BY <2>1, TailLands DEF LandInv
  <2>4. prog' # <<>> => started'
    BY <1>3, <2>1 DEF Access, LandInv
  <2>5. ASSUME prog' # <<>>, Careful(prog'[1])
        PROVE  bnBank' # Bank(prog'[1]) \/ bnBank' = bsel'
    <3>1. Len(prog') # 0
      BY <2>2, <2>5, EmptySeq
    <3>2. 2 \in 2 .. Len(prog) /\ prog'[1] = prog[2]
      BY <2>2, <3>1
    <3> DEFINE b == Bank(prog[1])
    <3>3. b # bank_0 /\ (b # Bank(prog[2]) \/ prog[1].reg \notin Mii)
      <4>1. 2 - 1 = 1
        OBVIOUS
      <4> QED
        BY <2>5, <3>2, <4>1 DEF LandInv, Lands
    <3>4. bnBank' = b /\ (bnBank # b => bsel' = b) /\ (bnBank = b => bsel' = bsel)
      BY <1>3, <3>3, AccessBanks
    <3>5. CASE b # Bank(prog[2])
      BY <3>2, <3>4, <3>5
    <3>6. CASE prog[1].reg \notin Mii
      <4>1. Careful(prog[1])
        BY <3>3, <3>6 DEF Careful
      <4> QED
        BY <2>1, <3>4, <4>1 DEF LandInv
    <3> QED
      BY <3>3, <3>5, <3>6
  <2> QED
    BY <2>3, <2>4, <2>5 DEF LandInv
<1>4. CASE LinkChange
  BY <1>4 DEF LinkChange, LandInv
<1>5. CASE McuReset
  <2>1. Lands(<<>>)
    BY DEF Lands
  <2> QED
    BY <1>5, <2>1 DEF McuReset, LandInv
<1>6. CASE UNCHANGED vars
  BY <1>6 DEF vars, LandInv
<1> QED
  BY <1>1, <1>2, <1>3, <1>4, <1>5, <1>6 DEF Next

\* A function that settles, settles when it is half done.
LEMMA TailSettles ==
  ASSUME NEW s \in Seq(AccessType), s # <<>>, Settles(s)
  PROVE  Settles(Tail(s))
<1> DEFINE t == Tail(s)
<1>1. /\ Len(s) \in Nat /\ Len(s) >= 1 /\ Len(t) = Len(s) - 1
      /\ \A i \in 1 .. Len(s) - 1 : t[i] = s[i + 1]
      /\ t \in Seq(AccessType)
  BY TailAt
<1> HIDE DEF t
<1>2. ASSUME t # <<>>
      PROVE  Bank(t[Len(t)]) = bank_0
  <2>1. Len(t) # 0
    BY <1>1, <1>2, EmptySeq
  <2>2. Len(t) \in 1 .. Len(s) - 1 /\ Len(t) + 1 = Len(s)
    BY <1>1, <2>1
  <2>3. t[Len(t)] = s[Len(s)]
    BY <1>1, <2>2
  <2> QED
    BY <2>3 DEF Settles
<1>3. ASSUME NEW i \in 1 .. Len(t), Bank(t[i]) = bank_3
      PROVE  \E j \in i + 1 .. Len(t) : Bank(t[j]) \in {bank_1, bank_2}
  <2>1. i + 1 \in 1 .. Len(s) /\ t[i] = s[i + 1]
    BY <1>1
  <2>2. PICK k \in (i + 1) + 1 .. Len(s) : Bank(s[k]) \in {bank_1, bank_2}
    BY <1>3, <2>1 DEF Settles
  <2>3. k - 1 \in i + 1 .. Len(t) /\ k - 1 \in 1 .. Len(s) - 1 /\ (k - 1) + 1 = k
    BY <1>1
  <2>4. t[k - 1] = s[k]
    BY <1>1, <2>3
  <2> QED
    BY <2>2, <2>3, <2>4
<1> QED
  BY <1>2, <1>3 DEF Settles, t

\* Every step keeps the way to bank 0.
LEMMA RestStep == BankInv /\ LandInv /\ RestInv /\ [Next]_vars => RestInv'
<1> SUFFICES ASSUME BankInv, LandInv, RestInv, [Next]_vars
             PROVE  RestInv'
  OBVIOUS
<1>1. CASE Start
  BY <1>1, StrtDrSettles DEF Start, RestInv, AtRest
<1>2. CASE Call
  <2>1. prog' # <<>> /\ Settles(prog')
    BY <1>2, RunCallsHarmless DEF Call, Harmless
  <2>2. bnBank' \in {bank_1, bank_2}
    BY <1>2 DEF Call, RestInv
  <2> QED
    BY <2>1, <2>2 DEF RestInv, AtRest
<1>3. CASE Access
  <2>1. prog # <<>> /\ prog \in Seq(AccessType) /\ prog' = Tail(prog)
    BY <1>3 DEF Access, BankInv, TypeOK
  <2>2. /\ prog' \in Seq(AccessType) /\ Len(prog') = Len(prog) - 1
        /\ Len(prog) \in Nat /\ Len(prog) >= 1
        /\ \A i \in 1 .. Len(prog) - 1 : prog'[i] = prog[i + 1]
    BY <2>1, TailAt
  <2>3. Settles(prog')
    BY <2>1, TailSettles DEF RestInv
  <2> DEFINE b == Bank(prog[1])
  <2>4. /\ b \in Banks
        /\ b = bank_0 => bsel' = bank_0 /\ bnBank' = bnBank
        /\ b # bank_0 => bnBank' = b
    BY <1>3, AccessBanks
  <2>5. AtRest' => bsel' = bank_0
    <3> SUFFICES ASSUME prog' = <<>>
                 PROVE  bsel' = bank_0
      BY DEF AtRest
    <3>1. Len(prog) = 1
      BY <2>2
    <3>2. b = bank_0
      BY <2>1, <3>1 DEF RestInv, Settles
    <3> QED
      BY <2>4, <3>2
  <2>6. ASSUME started', \A i \in 1 .. Len(prog') : Bank(prog'[i]) = bank_0
        PROVE  bnBank' \in {bank_1, bank_2}
    <3>1. \A i \in 2 .. Len(prog) : Bank(prog[i]) = bank_0
      <4> TAKE i \in 2 .. Len(prog)
      <4>1. i - 1 \in 1 .. Len(prog) - 1 /\ (i - 1) + 1 = i
        BY <2>2
      <4>2. prog'[i - 1] = prog[i] /\ i - 1 \in 1 .. Len(prog')
        BY <2>2, <4>1
      <4> QED
        BY <2>6, <4>2
    <3>2. started
      BY <1>3, <2>6 DEF Access
    <3>3. CASE b = bank_0
      <4>1. \A i \in 1 .. Len(prog) : Bank(prog[i]) = bank_0
        BY <2>2, <3>1, <3>3
      <4> QED
        BY <2>4, <3>2, <3>3, <4>1 DEF RestInv
    <3>4. CASE b = bank_3
      <4>1. 1 \in 1 .. Len(prog)
        BY <2>2
      <4>2. PICK j \in 1 + 1 .. Len(prog) : Bank(prog[j]) \in {bank_1, bank_2}
        BY <3>4, <4>1 DEF RestInv, Settles
      <4>3. Bank(prog[j]) = bank_0
        BY <3>1
      <4> QED
        BY <4>2, <4>3 DEF bank_0, bank_1, bank_2
    <3>5. CASE b \in {bank_1, bank_2}
      BY <2>4, <3>5 DEF bank_0, bank_1, bank_2
    <3> QED
      BY <2>4, <3>3, <3>4, <3>5 DEF Banks
  <2> QED
    BY <2>3, <2>5, <2>6 DEF RestInv
<1>4. CASE LinkChange
  BY <1>4 DEF LinkChange, RestInv, AtRest
<1>5. CASE McuReset
  <2>1. Settles(<<>>)
    BY DEF Settles
  <2> QED
    BY <1>5, <2>1 DEF McuReset, RestInv, AtRest
<1>6. CASE UNCHANGED vars
  BY <1>6 DEF vars, RestInv, AtRest
<1> QED
  BY <1>1, <1>2, <1>3, <1>4, <1>5, <1>6 DEF Next

-----------------------------------------------------------------------------
(* What start-up leaves in the static registers.                           *)

\* What an access does to the static registers and to the value read last.
LEMMA AccessStatic ==
  ASSUME BankInv, LandInv, DOMAIN file = DOMAIN ResetFile, Access
  PROVE  LET a == prog[1]
         IN  /\ DOMAIN file' = DOMAIN file
             /\ \A r \in StaticConfig \ {a.reg} : file'[r] = file[r]
             /\ a.op = "read" => file' = file
             /\ a.reg \in StaticConfig =>
                  /\ a.op = "read" => acc' = file[a.reg]
                  /\ a.op = "write" => file'[a.reg] = a.set
                  /\ a.op = "modify" => file'[a.reg] = (acc \cup a.set) \ a.clr
<1> DEFINE a == prog[1]
           h == Hit(a.reg)
<1>1. prog # <<>> /\ a = Head(prog)
  BY DEF Access, BankInv, TypeOK
<1>2. a.reg \in Registers /\ (h = a.reg \/ (a.reg \in Mii /\ h = a.reg - 128))
  BY <1>1, AccessHits
<1>3. ASSUME NEW r \in StaticConfig
      PROVE  /\ r \in DOMAIN file /\ r # bank2.MIRDL /\ r # bank2.MIRDH
             /\ r # bank2.MICMD /\ r # bank2.MIWRH
             /\ h = r <=> a.reg = r
  <2>1. r \in Registers /\ r \in Nat /\ r \notin Mii /\ r + 128 \notin Mii
    BY StaticApart
  <2>2. r \in DOMAIN file
    BY <2>1, FileCells
  <2>3. h = r <=> a.reg = r
    <3>1. a.reg \in Mii => a.reg \in Nat
      BY MiiAddresses
    <3> QED
      BY <1>2, <2>1, <3>1
  <2> QED
    BY <2>1, <2>2, <2>3 DEF Mii
<1>4. \/ a.op = "read" /\ acc' = file[h] /\ file' = file
      \/ a.op = "write" /\ ChipWrite(h, a.set)
      \/ a.op = "modify" /\ ChipWrite(h, (acc \cup a.set) \ a.clr)
      \/ a.op \in {"bfs", "bfc"} /\ ChipWrite(h, (file[h] \cup a.set) \ a.clr)
  BY <1>1 DEF Access
<1>5. ASSUME NEW v, ChipWrite(h, v)
      PROVE  /\ DOMAIN file' = DOMAIN file
             /\ \A r \in StaticConfig : file'[r] = IF r = h THEN v ELSE file[r]
  BY <1>3, <1>5 DEF ChipWrite
<1> HIDE DEF a, h
<1>6. DOMAIN file' = DOMAIN file
  BY <1>4, <1>5
<1>7. \A r \in StaticConfig \ {a.reg} : file'[r] = file[r]
  BY <1>3, <1>4, <1>5
<1>8. a.op = "read" => file' = file
  BY <1>4
<1>9. ASSUME a.reg \in StaticConfig
      PROVE  /\ a.op = "read" => acc' = file[a.reg]
             /\ a.op = "write" => file'[a.reg] = a.set
             /\ a.op = "modify" => file'[a.reg] = (acc \cup a.set) \ a.clr
  <2>1. h = a.reg
    BY <1>3, <1>9
  <2>2. CASE a.op = "read"
    BY <1>4, <2>1, <2>2
  <2>3. CASE a.op = "write"
    BY <1>4, <1>5, <1>9, <2>1, <2>3
  <2>4. CASE a.op = "modify"
    BY <1>4, <1>5, <1>9, <2>1, <2>4
  <2> QED
    BY <2>2, <2>3, <2>4
<1> QED
  BY <1>6, <1>7, <1>8, <1>9 DEF a

\* A modified register keeps its own bits.
LEMMA ExpectedModified == \A r \in Modified : r \in Expected(r)
  BY ExpectedValues, ModifiedAddresses

\* Every step brings a static register nearer to its value.
LEMMA FileStep == BankInv /\ LandInv /\ FileInv /\ [Next]_vars => FileInv'
<1> SUFFICES ASSUME BankInv, LandInv, FileInv, [Next]_vars
             PROVE  FileInv'
  OBVIOUS
<1>0. Modified \subseteq StaticConfig /\ Written = StaticConfig \ Modified
  BY StaticAddresses, ModifiedAddresses DEF Written
<1>1. CASE Start
  <2>1. file' = ResetFile /\ prog' = strtDr
    BY <1>1 DEF Start
  <2>2. \A r \in Modified : ResetFile[r] = {r}
    <3> TAKE r \in Modified
    <3>1. r \in DOMAIN ResetFile /\ r # bank2.MIREGADR
      BY <1>0, StaticApart, FileCells DEF Mii
    <3> QED
      BY <3>1 DEF ResetFile
  <2>3. Configures(prog', acc')
    BY <2>1, StrtDrConfigures
  <2>4. \A r \in StaticConfig :
          \E i \in 1 .. Len(prog') : prog'[i].reg = r /\ prog'[i].op # "read"
    BY <2>1, StrtDrCovers
  <2> QED
    BY <2>1, <2>2, <2>3, <2>4 DEF FileInv
<1>2. CASE Call
  <2>1. Configures(prog', acc')
    <3>1. \A i \in 1 .. Len(prog') : prog'[i].reg \notin StaticConfig
      BY <1>2, RunCallsHarmless DEF Call, Harmless
    <3> QED
      BY <3>1, OffStatic
  <2>2. started /\ prog = <<>> /\ file' = file
    BY <1>2 DEF Call
  <2>3. \A r \in StaticConfig : file[r] = Expected(r)
    BY <2>2 DEF FileInv
  <2> QED
    BY <2>1, <2>2, <2>3 DEF FileInv
<1>3. CASE Access
  <2> DEFINE a == prog[1]
  <2>1. prog # <<>> /\ prog \in Seq(AccessType) /\ prog' = Tail(prog)
    BY <1>3 DEF Access, BankInv, TypeOK
  <2>2. /\ Len(prog') = Len(prog) - 1 /\ Len(prog) \in Nat /\ Len(prog) >= 1
        /\ \A i \in 1 .. Len(prog) - 1 : prog'[i] = prog[i + 1]
    BY <2>1, TailAt
  <2>3. /\ DOMAIN file' = DOMAIN file
        /\ \A r \in StaticConfig \ {a.reg} : file'[r] = file[r]
        /\ a.op = "read" => file' = file
        /\ a.reg \in StaticConfig =>
             /\ a.op = "read" => acc' = file[a.reg]
             /\ a.op = "write" => file'[a.reg] = a.set
             /\ a.op = "modify" => file'[a.reg] = (acc \cup a.set) \ a.clr
    BY <1>3, AccessStatic DEF FileInv
  <2>4. started /\ started'
    BY <1>3, <2>1 DEF Access, LandInv
  <2>5. 1 \in 1 .. Len(prog)
    BY <2>2
  <2>6. /\ a.reg \in Written => Writes(a)
        /\ a.reg \in Modified =>
             \/ a = Rd(a.reg)
             \/ Modifies(a) /\ acc \in {{a.reg}, Expected(a.reg)}
    BY <2>5 DEF FileInv, Configures
  <2>7. ASSUME a.reg \in StaticConfig, a.op # "read"
        PROVE  file'[a.reg] = Expected(a.reg)
    <3>1. CASE a.reg \in Written
      <4>1. a = Wr(a.reg, Expected(a.reg))
        BY <2>6, <3>1 DEF Writes
      <4>2. a.op = "write" /\ a.set = Expected(a.reg)
        BY <4>1 DEF Wr
      <4> QED
        BY <2>3, <2>7, <4>2
    <3>2. CASE a.reg \in Modified
      <4>1. Modifies(a) /\ acc \in {{a.reg}, Expected(a.reg)}
        BY <2>6, <2>7, <3>2 DEF Rd
      <4>2. file'[a.reg] = (acc \cup a.set) \ a.clr
        BY <2>3, <2>7, <4>1 DEF Modifies
      <4>3. /\ a.set = Expected(a.reg) \ {a.reg}
            /\ a.clr \cap Expected(a.reg) = {} /\ a.reg \in Expected(a.reg)
        BY <3>2, <4>1, ExpectedModified DEF Modifies
      <4> QED
        BY <4>1, <4>2, <4>3
    <3> QED
      BY <1>0, <2>7, <3>1, <3>2
  <2>8. ASSUME NEW r \in StaticConfig
        PROVE  \/ file'[r] = Expected(r)
               \/ /\ \E i \in 1 .. Len(prog') :
                       prog'[i].reg = r /\ prog'[i].op # "read"
                  /\ r \in Modified => file'[r] = {r}
    <3>1. CASE a.reg = r /\ a.op # "read"
      BY <2>7, <3>1
    <3>2. CASE ~(a.reg = r /\ a.op # "read")
      <4>1. file'[r] = file[r]
        BY <2>3, <3>2
      <4>2. CASE file[r] = Expected(r)
        BY <4>1, <4>2
      <4>3. CASE /\ \E i \in 1 .. Len(prog) : prog[i].reg = r /\ prog[i].op # "read"
                 /\ r \in Modified => file[r] = {r}
        <5>1. PICK i \in 1 .. Len(prog) : prog[i].reg = r /\ prog[i].op # "read"
          BY <4>3
        <5>2. i # 1
          BY <3>2, <5>1
        <5>3. i - 1 \in 1 .. Len(prog') /\ prog'[i - 1] = prog[i]
          <6>1. i - 1 \in 1 .. Len(prog) - 1 /\ (i - 1) + 1 = i
            BY <2>2, <5>2
          <6> QED
            BY <2>2, <6>1
        <5> QED
          BY <4>1, <4>3, <5>1, <5>3
      <4> QED
        BY <2>4, <4>2, <4>3 DEF FileInv
    <3> QED
      BY <3>1, <3>2
  <2>9. Configures(prog', acc')
    <3> SUFFICES ASSUME NEW i \in 1 .. Len(prog')
                 PROVE  /\ prog'[i].reg \in Written => Writes(prog'[i])
                        /\ prog'[i].reg \in Modified =>
                             \/ prog'[i] = Rd(prog'[i].reg)
                             \/ /\ Modifies(prog'[i])
                                /\ IF i = 1
                                   THEN acc' \in {{prog'[i].reg},
                                                  Expected(prog'[i].reg)}
                                   ELSE prog'[i - 1] = Rd(prog'[i].reg)
      BY DEF Configures
    <3> DEFINE c == prog[i + 1]
    <3>1. prog'[i] = c /\ i + 1 \in 1 .. Len(prog) /\ i + 1 # 1 /\ (i + 1) - 1 = i
      BY <2>2
    <3>2. /\ c.reg \in Written => Writes(c)
          /\ c.reg \in Modified => \/ c = Rd(c.reg)
                                   \/ Modifies(c) /\ prog[i] = Rd(c.reg)
      BY <3>1 DEF FileInv, Configures
    <3>3. ASSUME c.reg \in Modified, Modifies(c), prog[i] = Rd(c.reg), i = 1
          PROVE  acc' \in {{c.reg}, Expected(c.reg)}
      <4>1. a = Rd(c.reg)
        BY <3>3
      <4>2. a.op = "read" /\ a.reg = c.reg
        BY <4>1 DEF Rd
      <4>3. acc' = file[c.reg] /\ c.reg \in StaticConfig
        BY <1>0, <2>3, <3>3, <4>2
      <4> QED
        BY <2>4, <3>3, <4>3 DEF FileInv
    <3>4. ASSUME i # 1
          PROVE  prog'[i - 1] = prog[i]
      <4>1. i - 1 \in 1 .. Len(prog) - 1 /\ (i - 1) + 1 = i
        BY <2>2, <3>4
      <4> QED
        BY <2>2, <4>1
    <3> QED
      BY <3>1, <3>2, <3>3, <3>4
  <2> QED
    BY <2>3, <2>8, <2>9 DEF FileInv
<1>4. CASE LinkChange
  BY <1>4 DEF LinkChange, FileInv
<1>5. CASE McuReset
  <2>1. Configures(<<>>, acc')
    BY DEF Configures
  <2> QED
    BY <1>5, <2>1 DEF McuReset, FileInv
<1>6. CASE UNCHANGED vars
  BY <1>6 DEF vars, FileInv
<1> QED
  BY <1>1, <1>2, <1>3, <1>4, <1>5, <1>6 DEF Next

-----------------------------------------------------------------------------
(* What phyInit writes to PHIE.                                            *)

\* Where phyInit ends in strtDr.
LEMMA AfterPhyInitIs20 == AfterPhyInit = 20
  BY MacInitAt, SetFiltersAt DEF AfterPhyInit

\* The accesses of phyInit by their place in strtDr.
LEMMA PhyInitPlaces ==
  /\ strtDr[46].reg = 148 /\ strtDr[47].reg = 146 /\ strtDr[48].reg = 146
  /\ strtDr[49] = Rd(202) /\ strtDr[50] = Rd(146) /\ strtDr[51].reg = 146
  /\ strtDr[52] = Rd(153) /\ strtDr[53] = Rd(152)
  /\ strtDr[54] = Wr(148, {phyReg.PHCON1}) /\ strtDr[55].reg = 150
  /\ strtDr[57] = Rd(202)
  /\ strtDr[58] = Wr(148, {phyReg.PHIE}) /\ strtDr[59] = Rd(146)
  /\ strtDr[60] = Modify(146, {bit.MIIRD}, {}) /\ strtDr[61] = Rd(202)
  /\ strtDr[62] = Rd(146) /\ strtDr[63] = Modify(146, {}, {bit.MIIRD})
  /\ strtDr[64] = Rd(153) /\ strtDr[65] = Rd(152)
  /\ strtDr[66] = Wr(148, {phyReg.PHIE})
  /\ strtDr[67] = Modify(150, {bit.PLNKIE}, {})
  /\ strtDr[68] = Modify(151, {bit.PLNKIE}, {})
  /\ strtDr[69] = Rd(202)
<1> DEFINE r1 == readPhyReg(phyReg.PHCON1)
           w1 == writePhyReg(phyReg.PHCON1, {bit.PDPXMD})
           r2 == readPhyReg(phyReg.PHIE)
           w2 == writePhyReg(phyReg.PHIE, {bit.PLNKIE})
<1>1. /\ phyReg.PHCON1 \in Nat /\ phyReg.PHIE \in Nat
      /\ {bit.PDPXMD} \in SUBSET Nat /\ {bit.PLNKIE} \in SUBSET Nat
  BY DEF phyReg, bit
<1>2. /\ r1[1] = Wr(bank2.MIREGADR, {phyReg.PHCON1}) /\ r1[2] = Rd(bank2.MICMD)
      /\ r1[3] = Modify(bank2.MICMD, {bit.MIIRD}, {})
      /\ r1[4] = Rd(bank3.MISTAT) /\ r1[5] = Rd(bank2.MICMD)
      /\ r1[6] = Modify(bank2.MICMD, {}, {bit.MIIRD})
      /\ r1[7] = Rd(bank2.MIRDH) /\ r1[8] = Rd(bank2.MIRDL)
  BY <1>1, ReadPhyAt, Zenon
<1>3. /\ r2[1] = Wr(bank2.MIREGADR, {phyReg.PHIE}) /\ r2[2] = Rd(bank2.MICMD)
      /\ r2[3] = Modify(bank2.MICMD, {bit.MIIRD}, {})
      /\ r2[4] = Rd(bank3.MISTAT) /\ r2[5] = Rd(bank2.MICMD)
      /\ r2[6] = Modify(bank2.MICMD, {}, {bit.MIIRD})
      /\ r2[7] = Rd(bank2.MIRDH) /\ r2[8] = Rd(bank2.MIRDL)
  BY <1>1, ReadPhyAt, Zenon
<1>4. /\ w1[1] = Wr(bank2.MIREGADR, {phyReg.PHCON1})
      /\ w1[2] = Modify(bank2.MIWRL, {bit.PDPXMD}, {})
      /\ w1[4] = Rd(bank3.MISTAT)
  BY <1>1, WritePhyAt, Zenon
<1>5. /\ w2[1] = Wr(bank2.MIREGADR, {phyReg.PHIE})
      /\ w2[2] = Modify(bank2.MIWRL, {bit.PLNKIE}, {})
      /\ w2[3] = Modify(bank2.MIWRH, {bit.PLNKIE}, {})
      /\ w2[4] = Rd(bank3.MISTAT)
  BY <1>1, WritePhyAt, Zenon
<1>6. /\ \A i \in 1 .. 8 : phyInit[i] = r1[i]
      /\ \A i \in 1 .. 4 : phyInit[8 + i] = w1[i]
      /\ \A i \in 1 .. 8 : phyInit[12 + i] = r2[i]
      /\ \A i \in 1 .. 4 : phyInit[20 + i] = w2[i]
  BY PhyInitAt
<1> HIDE DEF r1, w1, r2, w2
<1>7. /\ strtDr[46] = r1[1] /\ strtDr[47] = r1[2] /\ strtDr[48] = r1[3]
      /\ strtDr[49] = r1[4] /\ strtDr[50] = r1[5] /\ strtDr[51] = r1[6]
      /\ strtDr[52] = r1[7] /\ strtDr[53] = r1[8]
  BY <1>6, StrtDrAt
<1>8. strtDr[54] = w1[1] /\ strtDr[55] = w1[2] /\ strtDr[57] = w1[4]
  <2>1. phyInit[9] = w1[1] /\ phyInit[10] = w1[2] /\ phyInit[12] = w1[4]
    BY <1>6
  <2> QED
    BY <2>1, StrtDrAt
<1>9. /\ strtDr[58] = r2[1] /\ strtDr[59] = r2[2] /\ strtDr[60] = r2[3]
      /\ strtDr[61] = r2[4] /\ strtDr[62] = r2[5] /\ strtDr[63] = r2[6]
      /\ strtDr[64] = r2[7] /\ strtDr[65] = r2[8]
  <2>1. /\ phyInit[13] = r2[1] /\ phyInit[14] = r2[2] /\ phyInit[15] = r2[3]
        /\ phyInit[16] = r2[4] /\ phyInit[17] = r2[5] /\ phyInit[18] = r2[6]
        /\ phyInit[19] = r2[7] /\ phyInit[20] = r2[8]
    BY <1>6
  <2> QED
    BY <2>1, StrtDrAt
<1>10. /\ strtDr[66] = w2[1] /\ strtDr[67] = w2[2] /\ strtDr[68] = w2[3]
       /\ strtDr[69] = w2[4]
  <2>1. /\ phyInit[21] = w2[1] /\ phyInit[22] = w2[2] /\ phyInit[23] = w2[3]
        /\ phyInit[24] = w2[4]
    BY <1>6
  <2> QED
    BY <2>1, StrtDrAt
<1>11. /\ strtDr[46].reg = 148 /\ strtDr[47].reg = 146 /\ strtDr[48].reg = 146
       /\ strtDr[51].reg = 146 /\ strtDr[55].reg = 150
  BY <1>2, <1>4, <1>7, <1>8, MiiAddresses DEF Wr, Rd, Modify
<1>12. /\ strtDr[49] = Rd(202) /\ strtDr[50] = Rd(146) /\ strtDr[52] = Rd(153)
       /\ strtDr[53] = Rd(152)
  BY <1>2, <1>7, MiiAddresses
<1>13. strtDr[54] = Wr(148, {phyReg.PHCON1}) /\ strtDr[57] = Rd(202)
  BY <1>4, <1>8, MiiAddresses
<1>14. /\ strtDr[58] = Wr(148, {phyReg.PHIE}) /\ strtDr[59] = Rd(146)
       /\ strtDr[60] = Modify(146, {bit.MIIRD}, {}) /\ strtDr[61] = Rd(202)
       /\ strtDr[62] = Rd(146) /\ strtDr[63] = Modify(146, {}, {bit.MIIRD})
       /\ strtDr[64] = Rd(153) /\ strtDr[65] = Rd(152)
  BY <1>3, <1>9, MiiAddresses
<1>15. /\ strtDr[66] = Wr(148, {phyReg.PHIE})
       /\ strtDr[67] = Modify(150, {bit.PLNKIE}, {})
       /\ strtDr[68] = Modify(151, {bit.PLNKIE}, {}) /\ strtDr[69] = Rd(202)
  BY <1>5, <1>10, MiiAddresses
<1> QED
  BY <1>11, <1>12, <1>13, <1>14, <1>15

\* Its waits, and the accesses that must land in bank 2.
LEMMA PhyInitKinds ==
  /\ \A k \in {49, 57, 61} : strtDr[k] = Rd(202)
  /\ \A k \in (50 .. 55) \cup (58 .. 60) \cup (62 .. 68) : strtDr[k].reg \in Mii
<1>1. \A k \in {49, 57, 61} : strtDr[k] = Rd(202)
  BY PhyInitPlaces
<1>2. \A k \in {50, 51, 52, 53, 54, 55, 58, 59, 60, 62, 63, 64, 65, 66, 67, 68} :
        strtDr[k].reg \in {146, 148, 150, 151, 152, 153}
  BY PhyInitPlaces DEF Rd, Wr, Modify
<1>3. \A k \in (50 .. 55) \cup (58 .. 60) \cup (62 .. 68) :
        k \in {50, 51, 52, 53, 54, 55, 58, 59, 60, 62, 63, 64, 65, 66, 67, 68}
  OBVIOUS
<1> QED
  BY <1>1, <1>2, <1>3, MiiAddresses

\* Only phyInit writes PHY registers.
LEMMA NoOtherStore ==
  \A i \in 1 .. 89 : i # 56 /\ i # 68 => strtDr[i].reg # 151
<1> TAKE i \in 1 .. 89
<1>1. CASE i \in 1 .. 33
  BY <1>1, StrtDrRegs, SMTT(60)
<1>2. CASE i \in 34 .. 45
  <2>1. strtDr[i].reg = pointers[i - 33] /\ i - 33 \in 1 .. 12
    BY <1>2, StrtDrRegs
  <2>2. \A j \in 1 .. 12 : pointers[j] # 151
    BY PointersAt
  <2> QED
    BY <2>1, <2>2
<1>3. CASE i \in 46 .. 69 /\ i # 56 /\ i # 68
  BY <1>3, PhyInitPlaces DEF Rd, Wr, Modify
<1>4. CASE i \in 70 .. 75
  BY <1>4, StrtDrRegs
<1>5. CASE i \in 76 .. 85
  <2>1. strtDr[i].reg = macValues[i - 75] /\ i - 75 \in 1 .. 10
    BY <1>5, StrtDrRegs
  <2>2. \A j \in 1 .. 10 : macValues[j] # 151
    BY MacValuesAt
  <2> QED
    BY <2>1, <2>2
<1>6. CASE i \in 86 .. 89
  BY <1>6, StrtDrRegs
<1> QED
  BY <1>1, <1>2, <1>3, <1>4, <1>5, <1>6

\* The PHY register that a known MIREGADR names.
LEMMA MiiTargetIs ==
  ASSUME NEW x \in PhyRegisters, file[148] = {x}
  PROVE  MiiTarget = x
  BY MiiAddresses DEF MiiTarget

\* An access to an MII register lands unless the chip is in bank 0 and the
\* driver remembers bank 2.
LEMMA MiiAccess ==
  ASSUME BankInv, LandInv, Access, prog[1].reg \in Mii,
         bnBank # bank_2 \/ bsel = bank_2
  PROVE  Hit(prog[1].reg) = prog[1].reg /\ bnBank' = bank_2 /\ bsel' = bank_2
<1> DEFINE r == prog[1].reg
<1>1. prog # <<>>
  BY DEF Access
<1>2. r \in Registers
  BY <1>1, AccessHits
<1>3. Bank(prog[1]) = bank_2 /\ bank_2 # bank_0
  BY <1>2, BankOf, MiiAddresses DEF Bank, bank_0, bank_2
<1>4. /\ bnBank' = bank_2 /\ (bnBank # bank_2 => bsel' = bank_2)
      /\ (bnBank = bank_2 => bsel' = bsel)
  BY <1>3, AccessBanks
<1>5. SwitchFor(r).selected = bsel'
  <2>1. prog[1] = Head(prog)
    BY <1>1 DEF BankInv, TypeOK
  <2> QED
    BY <2>1 DEF Access
<1>6. bsel' = bank_2
  BY <1>4
<1>7. Hit(r) = HitIn(bank_2, r)
  BY <1>5, <1>6 DEF Hit
<1>8. HitIn(bank_2, r) = r
  BY <1>2, <1>3, OwnBank DEF Bank
<1> QED
  BY <1>4, <1>6, <1>7, <1>8

\* What an access does to the PHY and to MIREGADR and MIRDL.
LEMMA AccessPhy ==
  ASSUME BankInv, LandInv, DOMAIN file = DOMAIN ResetFile,
         DOMAIN phy = PhyRegisters, Access
  PROVE  LET a == prog[1]
             h == Hit(prog[1].reg)
             v == (acc \cup prog[1].set) \ prog[1].clr
         IN  /\ DOMAIN phy' = PhyRegisters
             /\ a.reg # 151 => phy' = phy
             /\ a.reg # 148 => file'[148] = file[148]
             /\ a.op = "read" => file' = file /\ acc' = file[h]
             /\ a.op \in {"write", "modify"} => acc' = acc
             /\ a.op = "write" /\ h = 148 => file'[148] = a.set
             /\ a.op = "modify" /\ h = 146 =>
                  file'[152] = IF bit.MIIRD \in v THEN phy[MiiTarget] ELSE file[152]
             /\ a.op = "modify" /\ h = 151 => phy' = [phy EXCEPT ![MiiTarget] = v]
<1> DEFINE a == prog[1]
           h == Hit(prog[1].reg)
           v == (acc \cup prog[1].set) \ prog[1].clr
<1>1. prog # <<>> /\ a = Head(prog)
  BY DEF Access, BankInv, TypeOK
<1>2. a.reg \in Registers /\ (h = a.reg \/ (a.reg \in Mii /\ h = a.reg - 128))
  BY <1>1, AccessHits
<1>3. (h = 151 => a.reg = 151) /\ (h = 148 => a.reg = 148)
  BY <1>2, MiiAddresses
<1>4. 148 \in DOMAIN file /\ 152 \in DOMAIN file
  BY MiiType, MiiAddresses, FileCells
<1>5. \/ a.op = "read" /\ acc' = file[h] /\ file' = file /\ phy' = phy
      \/ a.op = "write" /\ ChipWrite(h, a.set) /\ acc' = acc
      \/ a.op = "modify" /\ ChipWrite(h, v) /\ acc' = acc
      \/ a.op \in {"bfs", "bfc"} /\ ChipWrite(h, (file[h] \cup a.set) \ a.clr)
  BY <1>1 DEF Access
<1> HIDE DEF a, h, v
<1>6. ASSUME NEW w, ChipWrite(h, w)
      PROVE  /\ DOMAIN phy' = PhyRegisters
             /\ h # 151 => phy' = phy
             /\ h # 148 => file'[148] = file[148]
             /\ h = 148 => file'[148] = w
             /\ h = 146 => file'[152] = IF bit.MIIRD \in w THEN phy[MiiTarget]
                                                           ELSE file[152]
             /\ h = 151 => phy' = [phy EXCEPT ![MiiTarget] = w]
  <2>1. CASE h = 146 /\ bit.MIIRD \in w
    <3>1. /\ file' = [file EXCEPT ![h] = w, ![152] = phy[MiiTarget],
                                  ![153] = phy[MiiTarget]]
          /\ phy' = phy
      BY <1>6, <2>1, MiiAddresses DEF ChipWrite
    <3> QED
      BY <1>4, <2>1, <3>1
  <2>2. CASE ~(h = 146 /\ bit.MIIRD \in w)
    <3>1. /\ file' = [file EXCEPT ![h] = w]
          /\ phy' = IF h = 151 THEN [phy EXCEPT ![MiiTarget] = w] ELSE phy
      BY <1>6, <2>2, MiiAddresses DEF ChipWrite
    <3>2. /\ h # 148 => file'[148] = file[148]
          /\ h = 148 => file'[148] = w
          /\ h = 146 => file'[152] = file[152]
      BY <1>4, <3>1
    <3>3. /\ DOMAIN phy' = PhyRegisters
          /\ h # 151 => phy' = phy
          /\ h = 151 => phy' = [phy EXCEPT ![MiiTarget] = w]
      BY <3>1
    <3> QED
      BY <2>2, <3>2, <3>3
  <2> QED
    BY <2>1, <2>2
<1>7. CASE a.op = "read"
  BY <1>5, <1>7 DEF a, h
<1>8. CASE a.op = "write"
  <2>1. ChipWrite(h, a.set) /\ acc' = acc
    BY <1>5, <1>8
  <2> QED
    BY <1>3, <1>6, <1>8, <2>1 DEF a, h
<1>9. CASE a.op = "modify"
  <2>1. ChipWrite(h, v) /\ acc' = acc
    BY <1>5, <1>9
  <2> QED
    BY <1>3, <1>6, <1>9, <2>1 DEF a, h, v
<1>10. CASE a.op \in {"bfs", "bfc"}
  <2>1. ChipWrite(h, (file[h] \cup a.set) \ a.clr)
    BY <1>5, <1>10
  <2> QED
    BY <1>3, <1>6, <1>10, <2>1 DEF a, h
<1> QED
  BY <1>5, <1>7, <1>8, <1>9, <1>10

\* What PhyInv says of the running driver, in numbers.
LEMMA PhyInvNumbers ==
  ASSUME PhyInv, started, NEW n, n = Len(prog)
  PROVE  /\ n > 20 => /\ n <= 89
                      /\ \A i \in 1 .. n : prog[i] = strtDr[(89 - n) + i]
         /\ ~(n > 20) => \A i \in 1 .. n : prog[i].reg # 151
         /\ phy[phyReg.PHIE] = IF n > 21 THEN {phyReg.PHIE}
                               ELSE {phyReg.PHIE, bit.PLNKIE}
         /\ n = 40 \/ n = 32 \/ n = 28 => bnBank = bank_3
         /\ \A i \in 6 .. 11 : n = 45 - i => bsel = bank_2
         /\ \A i \in (2 .. 4) \cup (6 .. 11) : n = 33 - i => bsel = bank_2
         /\ n = 35 \/ n = 34 => file[148] = {phyReg.PHCON1}
         /\ \A i \in 2 .. 11 : n = 33 - i => file[148] = {phyReg.PHIE}
         /\ \A i \in 4 .. 8 : n = 33 - i => file[152] = {phyReg.PHIE}
         /\ \A i \in 9 .. 11 : n = 33 - i => acc = {phyReg.PHIE}
<1> DEFINE A == AfterPhyInit
<1>1. A = 20 /\ Len(strtDr) = 89
  BY AfterPhyInitIs20, StrtDrAt
<1>2. bank2.MIWRH = 151 /\ bank2.MIREGADR = 148 /\ bank2.MIRDL = 152
  BY MiiAddresses
<1> HIDE DEF A
<1>3. /\ n > 20 => /\ n <= 89
                   /\ \A i \in 1 .. n : prog[i] = strtDr[(89 - n) + i]
      /\ ~(n > 20) => \A i \in 1 .. n : prog[i].reg # 151
  BY <1>1, <1>2 DEF PhyInv, A
<1>4. phy[phyReg.PHIE] = IF n > 21 THEN {phyReg.PHIE}
                         ELSE {phyReg.PHIE, bit.PLNKIE}
  BY <1>1 DEF PhyInv, A
<1>5. n = 40 \/ n = 32 \/ n = 28 => bnBank = bank_3
  <2>1. AtPhcon1(5) \/ AtPhie(1) \/ AtPhie(5) => bnBank = bank_3
    BY DEF PhyInv
  <2>2. (n = 40 => AtPhcon1(5)) /\ (n = 32 => AtPhie(1)) /\ (n = 28 => AtPhie(5))
    BY <1>1 DEF AtPhcon1, AtPhie, A
  <2> QED
    BY <2>1, <2>2
<1>6. \A i \in 6 .. 11 : n = 45 - i => bsel = bank_2
  BY <1>1 DEF PhyInv, AtPhcon1, A
<1>7. \A i \in (2 .. 4) \cup (6 .. 11) : n = 33 - i => bsel = bank_2
  BY <1>1 DEF PhyInv, AtPhie, A
<1>8. n = 35 \/ n = 34 => file[148] = {phyReg.PHCON1}
  <2>1. AtPhcon1(10) \/ AtPhcon1(11) => file[bank2.MIREGADR] = {phyReg.PHCON1}
    BY DEF PhyInv
  <2>2. n = 35 => AtPhcon1(10)
    BY <1>1 DEF AtPhcon1, A
  <2>3. n = 34 => AtPhcon1(11)
    BY <1>1 DEF AtPhcon1, A
  <2> QED
    BY <1>2, <2>1, <2>2, <2>3
<1>9. \A i \in 2 .. 11 : n = 33 - i => file[148] = {phyReg.PHIE}
  BY <1>1, <1>2 DEF PhyInv, AtPhie, A
<1>10. \A i \in 4 .. 8 : n = 33 - i => file[152] = {phyReg.PHIE}
  BY <1>1, <1>2 DEF PhyInv, AtPhie, A
<1>11. \A i \in 9 .. 11 : n = 33 - i => acc = {phyReg.PHIE}
  BY <1>1 DEF PhyInv, AtPhie, A
<1> QED
  BY <1>3, <1>4, <1>5, <1>6, <1>7, <1>8, <1>9, <1>10, <1>11

\* Where strtDr is, while more is left of it than follows phyInit.
LEMMA PlaceOfAccess ==
  ASSUME PhyInv, started, prog \in Seq(AccessType), Len(prog) > 20,
         NEW k, k = 90 - Len(prog)
  PROVE  /\ k \in 1 .. 69 /\ Len(prog) = 90 - k /\ prog[1] = strtDr[k]
         /\ \A i \in 1 .. Len(prog) : prog[i] = strtDr[(k - 1) + i]
<1> DEFINE n == Len(prog)
<1>1. n <= 89 /\ \A i \in 1 .. n : prog[i] = strtDr[(89 - n) + i]
  BY PhyInvNumbers
<1>2. n \in Nat /\ n > 20 /\ k = 90 - n
  OBVIOUS
<1> HIDE DEF n
<1>3. k \in 1 .. 69 /\ n = 90 - k /\ 89 - n = k - 1 /\ 1 \in 1 .. n
  <2>1. n <= 89
    BY <1>1
  <2>2. ASSUME NEW m \in Nat, m > 20, m <= 89
        PROVE  /\ 90 - m \in 1 .. 69 /\ m = 90 - (90 - m)
               /\ 89 - m = (90 - m) - 1 /\ 1 \in 1 .. m
    BY <2>2
  <2> QED
    BY <1>2, <2>1, <2>2, ZenonT(60)
<1>4. prog[1] = strtDr[(89 - n) + 1] /\ (89 - n) + 1 = k
  BY <1>1, <1>2, <1>3
<1> QED
  BY <1>1, <1>3, <1>4 DEF n

\* The bank memory while phyInit runs.
LEMMA PhyBanks ==
  ASSUME BankInv, LandInv, PhyInv, Access, started,
         NEW k \in 1 .. 69, Len(prog) = 90 - k, prog[1] = strtDr[k]
  PROVE  /\ k \in {49, 57, 61} => bnBank' = bank_3
         /\ k \in (50 .. 55) \cup (58 .. 60) \cup (62 .. 68) =>
              /\ Hit(prog[1].reg) = prog[1].reg
              /\ bnBank' = bank_2 /\ bsel' = bank_2
<1>1. prog # <<>>
  BY DEF Access
<1>3. ASSUME k \in {49, 57, 61}
      PROVE  bnBank' = bank_3
  <2>1. strtDr[k] = Rd(202)
    BY <1>3, PhyInitKinds
  <2>2. prog[1].reg = 202
    BY <2>1 DEF Rd
  <2>3. prog[1].reg \in Registers
    BY <1>1, AccessHits
  <2>4. Bank(prog[1]) = bank_3
    BY <2>2, <2>3, BankOf DEF Bank
  <2> QED
    BY <2>4, AccessBanks DEF bank_0, bank_3
<1>4. ASSUME k \in (50 .. 55) \cup (58 .. 60) \cup (62 .. 68)
      PROVE  /\ Hit(prog[1].reg) = prog[1].reg
             /\ bnBank' = bank_2 /\ bsel' = bank_2
  <2>1. prog[1].reg \in Mii
    BY <1>4, PhyInitKinds
  <2>2. bnBank # bank_2 \/ bsel = bank_2
    <3> DEFINE n == Len(prog)
    <3>1. /\ n = 40 \/ n = 32 \/ n = 28 => bnBank = bank_3
          /\ \A i \in 6 .. 11 : n = 45 - i => bsel = bank_2
          /\ \A i \in (2 .. 4) \cup (6 .. 11) : n = 33 - i => bsel = bank_2
      BY PhyInvNumbers
    <3>2. n = 90 - k
      OBVIOUS
    <3> HIDE DEF n
    <3>3. \/ n \in {40, 32, 28}
          \/ k - 45 \in 6 .. 11 /\ n = 45 - (k - 45)
          \/ k - 57 \in (2 .. 4) \cup (6 .. 11) /\ n = 33 - (k - 57)
      BY <1>4, <3>2
    <3>4. CASE n \in {40, 32, 28}
      BY <3>1, <3>4 DEF bank_2, bank_3
    <3>5. CASE k - 45 \in 6 .. 11 /\ n = 45 - (k - 45)
      BY <3>1, <3>5
    <3>6. CASE k - 57 \in (2 .. 4) \cup (6 .. 11) /\ n = 33 - (k - 57)
      BY <3>1, <3>6
    <3> QED
      BY <3>3, <3>4, <3>5, <3>6
  <2> QED
    BY <2>1, <2>2, MiiAccess
<1> QED
  BY <1>3, <1>4

\* What the accesses of phyInit are, as far as PHIE is concerned: the stores
\* and the addresses,
LEMMA PhyInitRegs ==
  /\ \A k \in 1 .. 69 : k # 56 /\ k # 68 => strtDr[k].reg # 151
  /\ \A k \in {54, 58, 66} : strtDr[k].reg = 148 /\ strtDr[k].op = "write"
  /\ \A k \in {55, 59, 60, 61, 62, 63, 64, 65, 67} : strtDr[k].reg # 148
<1>1. \A k \in 1 .. 69 : k # 56 /\ k # 68 => strtDr[k].reg # 151
  <2> TAKE k \in 1 .. 69
  <2>1. k \in 1 .. 89
    OBVIOUS
  <2> QED
    BY <2>1, NoOtherStore, SMTT(60)
<1>2. \A k \in {54, 58, 66} : strtDr[k].reg = 148 /\ strtDr[k].op = "write"
  BY PhyInitPlaces DEF Wr
<1>3. \A k \in {55, 59, 60, 61, 62, 63, 64, 65, 67} : strtDr[k].reg # 148
  BY PhyInitPlaces DEF Rd, Modify
<1> QED
  BY <1>1, <1>2, <1>3

\* the reads and the read-modify-writes,
LEMMA PhyInitOps ==
  /\ \A k \in {61, 62, 64, 65} : strtDr[k].op = "read"
  /\ \A k \in {60, 63} : strtDr[k].op = "modify" /\ strtDr[k].reg = 146
  /\ strtDr[65].reg = 152 /\ strtDr[67].op = "modify"
  /\ strtDr[68].op = "modify" /\ strtDr[68].reg = 151
<1>1. (\A k \in {61, 62, 64, 65} : strtDr[k].op = "read") /\ strtDr[65].reg = 152
  BY PhyInitPlaces DEF Rd
<1>2. /\ \A k \in {60, 63} : strtDr[k].op = "modify" /\ strtDr[k].reg = 146
      /\ strtDr[67].op = "modify"
      /\ strtDr[68].op = "modify" /\ strtDr[68].reg = 151
  BY PhyInitPlaces DEF Modify
<1> QED
  BY <1>1, <1>2

\* and the values written.
LEMMA PhyInitValues ==
  /\ strtDr[54].set = {phyReg.PHCON1}
  /\ strtDr[58].set = {phyReg.PHIE} /\ strtDr[66].set = {phyReg.PHIE}
  /\ strtDr[60].set = {bit.MIIRD} /\ strtDr[60].clr = {}
  /\ strtDr[63].set = {} /\ strtDr[63].clr = {bit.MIIRD}
  /\ strtDr[68].set = {bit.PLNKIE} /\ strtDr[68].clr = {}
<1>1. /\ strtDr[54].set = {phyReg.PHCON1}
      /\ strtDr[58].set = {phyReg.PHIE} /\ strtDr[66].set = {phyReg.PHIE}
  BY PhyInitPlaces DEF Wr
<1>2. /\ strtDr[60].set = {bit.MIIRD} /\ strtDr[60].clr = {}
      /\ strtDr[63].set = {} /\ strtDr[63].clr = {bit.MIIRD}
      /\ strtDr[68].set = {bit.PLNKIE} /\ strtDr[68].clr = {}
  BY PhyInitPlaces DEF Modify
<1> QED
  BY <1>1, <1>2

\* An access stores to one PHY register at most.
LEMMA StoreOnly ==
  ASSUME Access
  PROVE  phy' = phy \/ \E w : phy' = [phy EXCEPT ![MiiTarget] = w]
<1>1. \/ phy' = phy
      \/ \E w : ChipWrite(Hit(Head(prog).reg), w)
  BY DEF Access
<1>2. ASSUME NEW h, NEW w, ChipWrite(h, w)
      PROVE  phy' = phy \/ phy' = [phy EXCEPT ![MiiTarget] = w]
  BY <1>2 DEF ChipWrite
<1> QED
  BY <1>1, <1>2, Zenon

\* An access of strtDr, up to the end of phyInit, keeps the PHY on course.
LEMMA PhyAccess ==
  ASSUME BankInv, LandInv, FileInv, PhyInv, Access, started,
         NEW k \in 1 .. 69, Len(prog) = 90 - k, prog[1] = strtDr[k]
  PROVE  /\ k = 68 => phy'[phyReg.PHIE] = {phyReg.PHIE, bit.PLNKIE}
         /\ k # 68 => phy'[phyReg.PHIE] = phy[phyReg.PHIE]
         /\ k \in {54, 55} => file'[148] = {phyReg.PHCON1}
         /\ k \in 58 .. 67 => file'[148] = {phyReg.PHIE}
         /\ k \in 60 .. 64 => file'[152] = {phyReg.PHIE}
         /\ k \in 65 .. 67 => acc' = {phyReg.PHIE}
<1> DEFINE n == Len(prog)
           a == prog[1]
           h == Hit(prog[1].reg)
           v == (acc \cup prog[1].set) \ prog[1].clr
           P == phyReg.PHIE
<1>1. /\ DOMAIN phy' = PhyRegisters
      /\ a.reg # 151 => phy' = phy
      /\ a.reg # 148 => file'[148] = file[148]
      /\ a.op = "read" => file' = file /\ acc' = file[h]
      /\ a.op \in {"write", "modify"} => acc' = acc
      /\ a.op = "write" /\ h = 148 => file'[148] = a.set
      /\ a.op = "modify" /\ h = 146 =>
           file'[152] = IF bit.MIIRD \in v THEN phy[MiiTarget] ELSE file[152]
      /\ a.op = "modify" /\ h = 151 => phy' = [phy EXCEPT ![MiiTarget] = v]
  BY AccessPhy DEF FileInv, PhyInv
<1>2. /\ phy[P] = IF n > 21 THEN {P} ELSE {P, bit.PLNKIE}
      /\ n = 35 \/ n = 34 => file[148] = {phyReg.PHCON1}
      /\ \A i \in 2 .. 11 : n = 33 - i => file[148] = {P}
      /\ \A i \in 4 .. 8 : n = 33 - i => file[152] = {P}
      /\ \A i \in 9 .. 11 : n = 33 - i => acc = {P}
  <2>1. phy[P] = IF n > 21 THEN {P} ELSE {P, bit.PLNKIE}
    BY PhyInvNumbers
  <2>2. n = 35 \/ n = 34 => file[148] = {phyReg.PHCON1}
    BY PhyInvNumbers
  <2>3. \A i \in 2 .. 11 : n = 33 - i => file[148] = {P}
    BY PhyInvNumbers, SMTT(60)
  <2>4. \A i \in 4 .. 8 : n = 33 - i => file[152] = {P}
    BY PhyInvNumbers, SMTT(60)
  <2>5. \A i \in 9 .. 11 : n = 33 - i => acc = {P}
    BY PhyInvNumbers
  <2> HIDE DEF n, P
  <2> QED
    BY <2>1, <2>2, <2>3, <2>4, <2>5
<1>3. /\ n = 90 - k /\ a = strtDr[k] /\ DOMAIN phy = PhyRegisters
  BY DEF PhyInv
<1>4. k \in (50 .. 55) \cup (58 .. 60) \cup (62 .. 68) => h = a.reg
  BY PhyBanks
<1>5. P \in PhyRegisters /\ phyReg.PHCON1 \in PhyRegisters /\ P # phyReg.PHCON1
  BY DEF phyReg, PhyRegisters
<1>6. \A x \in PhyRegisters : file[148] = {x} => MiiTarget = x
  BY MiiTargetIs
<1> HIDE DEF n, a, h, v, P
<1>3a. a = strtDr[k]
  BY <1>3
<1>7. /\ k \in {55, 56} => file[148] = {phyReg.PHCON1}
      /\ k \in 59 .. 68 => file[148] = {P}
      /\ k \in 61 .. 65 => file[152] = {P}
      /\ k \in 66 .. 68 => acc = {P}
      /\ k < 69 => phy[P] = {P}
  <2>1. k \in 59 .. 68 => k - 57 \in 2 .. 11 /\ n = 33 - (k - 57)
    BY <1>3
  <2>2. k \in 61 .. 65 => k - 57 \in 4 .. 8 /\ n = 33 - (k - 57)
    BY <1>3
  <2>3. k \in 66 .. 68 => k - 57 \in 9 .. 11 /\ n = 33 - (k - 57)
    BY <1>3
  <2>4. k \in {55, 56} => n = 35 \/ n = 34
    BY <1>3
  <2>5. k < 69 => n > 21
    BY <1>3
  <2> QED
    BY <1>2, <2>1, <2>2, <2>3, <2>4, <2>5, SMTT(60)
<1>8. k # 56 /\ k # 68 => a.reg # 151
  BY <1>3a, PhyInitRegs, ZenonT(60)
<1>9. /\ k \in {54, 58, 66} => a.reg = 148 /\ a.op = "write"
      /\ k \in {55, 59, 60, 61, 62, 63, 64, 65, 67} => a.reg # 148
  <2>1. \A i \in {54, 58, 66} : strtDr[i].reg = 148 /\ strtDr[i].op = "write"
    BY PhyInitRegs
  <2>2. \A i \in {55, 59, 60, 61, 62, 63, 64, 65, 67} : strtDr[i].reg # 148
    BY PhyInitRegs
  <2>3. k \in {54, 58, 66} => a.reg = 148 /\ a.op = "write"
    BY <1>3a, <2>1, Zenon
  <2>4. k \in {55, 59, 60, 61, 62, 63, 64, 65, 67} => a.reg # 148
    BY <1>3a, <2>2, Zenon
  <2> QED
    BY <2>3, <2>4
<1>10. /\ k = 54 => a.set = {phyReg.PHCON1}
       /\ k = 58 => a.set = {P}
       /\ k = 66 => a.set = {P}
       /\ k = 60 => a.set = {bit.MIIRD} /\ a.clr = {}
       /\ k = 63 => a.set = {} /\ a.clr = {bit.MIIRD}
       /\ k = 68 => a.set = {bit.PLNKIE} /\ a.clr = {}
  BY <1>3a, PhyInitValues, Zenon DEF P
<1>11. /\ k \in {61, 62, 64, 65} => a.op = "read"
       /\ k \in {60, 63} => a.op = "modify" /\ a.reg = 146
       /\ k = 65 => a.reg = 152
       /\ k = 67 => a.op = "modify"
       /\ k = 68 => a.op = "modify" /\ a.reg = 151
  BY <1>3a, PhyInitOps
<1>12. /\ k = 60 => bit.MIIRD \in v
       /\ k = 63 => bit.MIIRD \notin v
       /\ k = 68 => v = acc \cup {bit.PLNKIE}
  <2>1. v = (acc \cup a.set) \ a.clr
    BY DEF v, a
  <2> QED
    BY <1>10, <2>1
<1>13. k = 68 => phy'[P] = {P, bit.PLNKIE}
  <2> SUFFICES ASSUME k = 68
               PROVE  phy'[P] = {P, bit.PLNKIE}
    OBVIOUS
  <2>1. MiiTarget = P /\ acc = {P}
    BY <1>5, <1>6, <1>7
  <2>2. phy' = [phy EXCEPT ![P] = acc \cup {bit.PLNKIE}]
    BY <1>1, <1>4, <1>11, <1>12, <2>1
  <2> QED
    BY <1>3, <1>5, <2>1, <2>2
<1>14. k # 68 => phy'[P] = phy[P]
  <2>1. CASE k = 56
    <3>1. MiiTarget = phyReg.PHCON1
      BY <1>5, <1>6, <1>7, <2>1
    <3>2. \/ phy' = phy \/ \E w : phy' = [phy EXCEPT ![MiiTarget] = w]
      BY <2>1, StoreOnly
    <3> QED
      BY <1>3, <1>5, <3>1, <3>2
  <2>2. CASE k # 56
    BY <1>1, <1>8, <2>2
  <2> QED
    BY <2>1, <2>2
<1>15. k \in {54, 55} => file'[148] = {phyReg.PHCON1}
  BY <1>1, <1>4, <1>7, <1>9, <1>10
<1>16. k \in 58 .. 67 => file'[148] = {P}
  <2>1. CASE k \in {58, 66}
    BY <1>1, <1>4, <1>9, <1>10, <2>1
  <2>2. CASE k \in {59, 60, 61, 62, 63, 64, 65, 67}
    BY <1>1, <1>7, <1>9, <2>2
  <2> QED
    BY <2>1, <2>2
<1>17. k \in 60 .. 64 => file'[152] = {P}
  <2>1. CASE k = 60
    <3>1. MiiTarget = P /\ phy[P] = {P}
      BY <1>5, <1>6, <1>7, <2>1
    <3> QED
      BY <1>1, <1>4, <1>11, <1>12, <2>1, <3>1
  <2>2. CASE k \in {61, 62, 64}
    BY <1>1, <1>7, <1>11, <2>2
  <2>3. CASE k = 63
    BY <1>1, <1>4, <1>7, <1>11, <1>12, <2>3
  <2> QED
    BY <2>1, <2>2, <2>3
<1>18. k \in 65 .. 67 => acc' = {P}
  <2>1. CASE k = 65
    BY <1>1, <1>4, <1>7, <1>11, <2>1
  <2>2. CASE k \in {66, 67}
    BY <1>1, <1>7, <1>9, <1>11, <2>2
  <2> QED
    BY <2>1, <2>2
<1> QED
  BY <1>13, <1>14, <1>15, <1>16, <1>17, <1>18 DEF P

\* PhyInv after a step of the running driver, in numbers.
LEMMA PhyInvFromNumbers ==
  ASSUME DOMAIN phy' = PhyRegisters, NEW n \in Nat, n = Len(prog'),
         n > 20 => /\ n <= 89
                   /\ \A i \in 1 .. n : prog'[i] = strtDr[(89 - n) + i],
         ~(n > 20) => \A i \in 1 .. n : prog'[i].reg # 151,
         phy'[phyReg.PHIE] = IF n > 21 THEN {phyReg.PHIE}
                             ELSE {phyReg.PHIE, bit.PLNKIE},
         n \in {40, 32, 28} => bnBank' = bank_3,
         n \in (22 .. 27) \cup (29 .. 31) \cup (34 .. 39) =>
           bnBank' = bank_2 /\ bsel' = bank_2,
         n \in {34, 35} => file'[148] = {phyReg.PHCON1},
         n \in 22 .. 31 => file'[148] = {phyReg.PHIE},
         n \in 25 .. 29 => file'[152] = {phyReg.PHIE},
         n \in 22 .. 24 => acc' = {phyReg.PHIE}
  PROVE  PhyInv'
<1>1. AfterPhyInit = 20 /\ Len(strtDr) = 89
  BY AfterPhyInitIs20, StrtDrAt
<1>2. bank2.MIWRH = 151 /\ bank2.MIREGADR = 148 /\ bank2.MIRDL = 152
  BY MiiAddresses
<1>3. IF Len(prog') > AfterPhyInit
      THEN /\ Len(prog') <= Len(strtDr)
           /\ \A i \in 1 .. Len(prog') :
                prog'[i] = strtDr[(Len(strtDr) - Len(prog')) + i]
      ELSE \A i \in 1 .. Len(prog') : prog'[i].reg # bank2.MIWRH
  BY <1>1, <1>2
<1>4. phy'[phyReg.PHIE] = IF Len(prog') > AfterPhyInit + 1 THEN {phyReg.PHIE}
                          ELSE {phyReg.PHIE, bit.PLNKIE}
  BY <1>1
<1>5. AtPhcon1(5)' \/ AtPhie(1)' \/ AtPhie(5)' => bnBank' = bank_3
  <2>1. AtPhcon1(5)' => n = 40
    BY <1>1 DEF AtPhcon1
  <2>2. AtPhie(1)' => n = 32
    BY <1>1 DEF AtPhie
  <2>3. AtPhie(5)' => n = 28
    BY <1>1 DEF AtPhie
  <2> QED
    BY <2>1, <2>2, <2>3
<1>6. \A i \in 6 .. 11 : AtPhcon1(i)' => bnBank' = bank_2 /\ bsel' = bank_2
  <2> TAKE i \in 6 .. 11
  <2> HAVE AtPhcon1(i)'
  <2>1. n \in 34 .. 39
    BY <1>1 DEF AtPhcon1, AtPhie
  <2> QED
    BY <2>1
<1>7. \A i \in (2 .. 4) \cup (6 .. 11) :
        AtPhie(i)' => bnBank' = bank_2 /\ bsel' = bank_2
  <2> TAKE i \in (2 .. 4) \cup (6 .. 11)
  <2> HAVE AtPhie(i)'
  <2>1. n \in (22 .. 27) \cup (29 .. 31)
    BY <1>1 DEF AtPhcon1, AtPhie
  <2> QED
    BY <2>1
<1>8. AtPhcon1(10)' \/ AtPhcon1(11)' =>
        file'[bank2.MIREGADR] = {phyReg.PHCON1}
  <2>1. AtPhcon1(10)' => n = 35
    BY <1>1 DEF AtPhcon1
  <2>2. AtPhcon1(11)' => n = 34
    BY <1>1 DEF AtPhcon1
  <2> QED
    BY <1>2, <2>1, <2>2
<1>9. \A i \in 2 .. 11 : AtPhie(i)' => file'[bank2.MIREGADR] = {phyReg.PHIE}
  <2> TAKE i \in 2 .. 11
  <2> HAVE AtPhie(i)'
  <2>1. n \in 22 .. 31
    BY <1>1 DEF AtPhcon1, AtPhie
  <2> QED
    BY <1>2, <2>1
<1>10. \A i \in 4 .. 8 : AtPhie(i)' => file'[bank2.MIRDL] = {phyReg.PHIE}
  <2> TAKE i \in 4 .. 8
  <2> HAVE AtPhie(i)'
  <2>1. n \in 25 .. 29
    BY <1>1 DEF AtPhcon1, AtPhie
  <2> QED
    BY <1>2, <2>1
<1>11. \A i \in 9 .. 11 : AtPhie(i)' => acc' = {phyReg.PHIE}
  <2> TAKE i \in 9 .. 11
  <2> HAVE AtPhie(i)'
  <2>1. n \in 22 .. 24
    BY <1>1 DEF AtPhcon1, AtPhie
  <2> QED
    BY <2>1
<1> QED
  BY <1>3, <1>4, <1>5, <1>6, <1>7, <1>8, <1>9, <1>10, <1>11, Zenon DEF PhyInv

\* Every step keeps the PHY on course.
LEMMA PhyStep ==
  BankInv /\ LandInv /\ FileInv /\ PhyInv /\ [Next]_vars => PhyInv'
<1> SUFFICES ASSUME BankInv, LandInv, FileInv, PhyInv, [Next]_vars
             PROVE  PhyInv'
  OBVIOUS
<1>0. phyReg.PHIE \in PhyRegisters
  BY DEF phyReg, PhyRegisters
<1>1. CASE Start
  <2>1. prog' = strtDr /\ phy' = ResetPhy
    BY <1>1 DEF Start
  <2>2. DOMAIN phy' = PhyRegisters /\ phy'[phyReg.PHIE] = {phyReg.PHIE}
    BY <1>0, <2>1 DEF ResetPhy
  <2> DEFINE n == 89
  <2>3. Len(prog') = n
    BY <2>1, StrtDrAt
  <2>4. \A i \in 1 .. n : prog'[i] = strtDr[(89 - n) + i]
    BY <2>1
  <2> QED
    BY <2>2, <2>3, <2>4, PhyInvFromNumbers
<1>2. CASE Call
  <2>1. PICK p \in RunCalls : prog' = p
    BY <1>2 DEF Call
  <2>2. Harmless(p) /\ p \in Seq(AccessType)
    BY RunCallsHarmless, RunCallsType
  <2> DEFINE n == Len(prog')
  <2>3. n \in Nat /\ n <= 10
    BY <2>1, <2>2 DEF Harmless
  <2>4. \A i \in 1 .. n : prog'[i].reg # 151
    <3>1. \A i \in 1 .. n : prog'[i].reg # bank2.MIWRH
      BY <2>1, <2>2 DEF Harmless
    <3> QED
      BY <3>1, MiiAddresses
  <2>5. started /\ Len(prog) = 0 /\ phy' = phy
    BY <1>2 DEF Call
  <2>6. DOMAIN phy' = PhyRegisters /\ phy'[phyReg.PHIE] = {phyReg.PHIE, bit.PLNKIE}
    <3>1. phy[phyReg.PHIE] = IF 0 > 21 THEN {phyReg.PHIE}
                             ELSE {phyReg.PHIE, bit.PLNKIE}
      BY <2>5, PhyInvNumbers
    <3> QED
      BY <2>5, <3>1 DEF PhyInv
  <2>7. n = Len(prog')
    OBVIOUS
  <2> HIDE DEF n
  <2> QED
    BY <2>3, <2>4, <2>6, <2>7, PhyInvFromNumbers
<1>3. CASE Access
  <2> DEFINE n == Len(prog)
             m == Len(prog')
  <2>1. prog # <<>> /\ prog \in Seq(AccessType) /\ prog' = Tail(prog)
    BY <1>3 DEF Access, BankInv, TypeOK
  <2>2. /\ m = n - 1 /\ n \in Nat /\ n >= 1
        /\ \A i \in 1 .. n - 1 : prog'[i] = prog[i + 1]
    BY <2>1, TailAt
  <2>3. started
    BY <2>1 DEF LandInv
  <2>4. 1 \in 1 .. n
    BY <2>2
  <2>5. m = Len(prog')
    OBVIOUS
  <2>6. CASE n > 20
    <3> DEFINE k == 90 - n
    <3>1. /\ k \in 1 .. 69 /\ Len(prog) = 90 - k /\ prog[1] = strtDr[k]
          /\ \A i \in 1 .. n : prog[i] = strtDr[(k - 1) + i]
      BY <2>1, <2>3, <2>6, PlaceOfAccess
    <3>2. /\ k = 68 => phy'[phyReg.PHIE] = {phyReg.PHIE, bit.PLNKIE}
          /\ k # 68 => phy'[phyReg.PHIE] = phy[phyReg.PHIE]
          /\ k \in {54, 55} => file'[148] = {phyReg.PHCON1}
          /\ k \in 58 .. 67 => file'[148] = {phyReg.PHIE}
          /\ k \in 60 .. 64 => file'[152] = {phyReg.PHIE}
          /\ k \in 65 .. 67 => acc' = {phyReg.PHIE}
      BY <1>3, <2>3, <3>1, PhyAccess
    <3>3. /\ k \in {49, 57, 61} => bnBank' = bank_3
          /\ k \in (50 .. 55) \cup (58 .. 60) \cup (62 .. 68) =>
               bnBank' = bank_2 /\ bsel' = bank_2
      BY <1>3, <2>3, <3>1, PhyBanks, ZenonT(60)
    <3>4. phy[phyReg.PHIE] = IF n > 21 THEN {phyReg.PHIE}
                             ELSE {phyReg.PHIE, bit.PLNKIE}
      BY <2>3, PhyInvNumbers
    <3>5. DOMAIN phy' = PhyRegisters
      BY <1>3, AccessPhy DEF FileInv, PhyInv
    <3>6. m \in Nat /\ m = 89 - k /\ n = 90 - k /\ k \in 1 .. 69
      BY <2>2, <3>1
    <3> HIDE DEF n, m, k
    <3>7. \A i \in 1 .. m : prog'[i] = strtDr[k + i]
      <4> TAKE i \in 1 .. m
      <4>1. i \in 1 .. n - 1 /\ i + 1 \in 1 .. n /\ (k - 1) + (i + 1) = k + i
        BY <3>6
      <4>2. prog'[i] = prog[i + 1]
        BY <2>2, <4>1
      <4> QED
        BY <3>1, <4>1, <4>2
    <3>8. m > 20 => /\ m <= 89
                    /\ \A i \in 1 .. m : prog'[i] = strtDr[(89 - m) + i]
      <4>1. m <= 89 /\ 89 - m = k
        BY <3>6
      <4> QED
        BY <3>7, <4>1
    <3>9. ~(m > 20) => \A i \in 1 .. m : prog'[i].reg # 151
      <4> HAVE ~(m > 20)
      <4>1. k = 69 /\ m = 20
        BY <3>6
      <4> TAKE i \in 1 .. m
      <4>2. k + i \in 1 .. 89 /\ k + i # 56 /\ k + i # 68
        BY <4>1
      <4>3. strtDr[k + i].reg # 151
        BY <4>2, NoOtherStore, SMTT(60)
      <4> QED
        BY <3>7, <4>3
    <3>10. phy'[phyReg.PHIE] = IF m > 21 THEN {phyReg.PHIE}
                               ELSE {phyReg.PHIE, bit.PLNKIE}
      <4>1. CASE k = 68
        BY <3>2, <3>6, <4>1
      <4>2. CASE k = 69
        BY <3>2, <3>4, <3>6, <4>2
      <4>3. CASE k < 68
        BY <3>2, <3>4, <3>6, <4>3
      <4> QED
        BY <3>6, <4>1, <4>2, <4>3
    <3>11. /\ m \in {40, 32, 28} => k \in {49, 57, 61}
           /\ m \in (22 .. 27) \cup (29 .. 31) \cup (34 .. 39) =>
                k \in (50 .. 55) \cup (58 .. 60) \cup (62 .. 68)
           /\ m \in {34, 35} => k \in {54, 55}
           /\ m \in 22 .. 31 => k \in 58 .. 67
           /\ m \in 25 .. 29 => k \in 60 .. 64
           /\ m \in 22 .. 24 => k \in 65 .. 67
      BY <3>6
    <3>12. /\ m \in {40, 32, 28} => bnBank' = bank_3
           /\ m \in (22 .. 27) \cup (29 .. 31) \cup (34 .. 39) =>
                bnBank' = bank_2 /\ bsel' = bank_2
      BY <3>3, <3>11, Zenon
    <3>13. /\ m \in {34, 35} => file'[148] = {phyReg.PHCON1}
           /\ m \in 22 .. 31 => file'[148] = {phyReg.PHIE}
           /\ m \in 25 .. 29 => file'[152] = {phyReg.PHIE}
           /\ m \in 22 .. 24 => acc' = {phyReg.PHIE}
      BY <3>2, <3>11, Zenon
    <3>14. m \in Nat
      BY <3>6
    <3> QED
      BY <2>5, <3>5, <3>8, <3>9, <3>10, <3>12, <3>13, <3>14,
         PhyInvFromNumbers, ZenonT(60)
  <2>7. CASE ~(n > 20)
    <3>1. /\ \A i \in 1 .. n : prog[i].reg # 151
          /\ phy[phyReg.PHIE] = IF n > 21 THEN {phyReg.PHIE}
                                ELSE {phyReg.PHIE, bit.PLNKIE}
      BY <2>3, <2>7, PhyInvNumbers
    <3>2. phy' = phy
      BY <1>3, <2>4, <3>1, AccessPhy DEF FileInv, PhyInv
    <3> HIDE DEF n, m
    <3>3. m \in Nat /\ m <= 19
      BY <2>2, <2>7
    <3>4. \A i \in 1 .. m : prog'[i].reg # 151
      <4> TAKE i \in 1 .. m
      <4>1. i \in 1 .. n - 1 /\ i + 1 \in 1 .. n
        BY <2>2
      <4> QED
        BY <2>2, <3>1, <4>1
    <3>5. DOMAIN phy' = PhyRegisters /\ phy'[phyReg.PHIE] = {phyReg.PHIE, bit.PLNKIE}
      BY <2>2, <2>7, <3>1, <3>2 DEF PhyInv
    <3> QED
      BY <2>5, <3>3, <3>4, <3>5, PhyInvFromNumbers
  <2> QED
    BY <2>6, <2>7
<1>4. CASE LinkChange
  BY <1>4 DEF LinkChange, PhyInv, AtPhcon1, AtPhie
<1>5. CASE McuReset
  BY <1>5 DEF McuReset, PhyInv
<1>6. CASE UNCHANGED vars
  BY <1>6 DEF vars, PhyInv, AtPhcon1, AtPhie
<1> QED
  BY <1>1, <1>2, <1>3, <1>4, <1>5, <1>6 DEF Next

\* The whole invariant.
THEOREM Invariance == Spec => []IInv
<1>1. Init => IInv
  <2> SUFFICES ASSUME Init
               PROVE  IInv
    OBVIOUS
  <2>1. prog = <<>> /\ Len(prog) = 0 /\ ~started /\ file = ResetFile /\ phy = ResetPhy
    BY DEF Init
  <2>2. BankInv
    <3>1. bank_0 \in Banks /\ <<>> \in Seq(AccessType)
      BY DEF Banks
    <3> QED
      BY <3>1, Zenon DEF Init, BankInv, TypeOK, CacheSound
  <2>3. LandInv
    BY <2>1 DEF LandInv, Lands
  <2>4. RestInv
    BY <2>1 DEF RestInv, Settles, AtRest
  <2>5. FileInv
    BY <2>1 DEF FileInv, Configures
  <2>6. PhyInv
    BY <2>1 DEF PhyInv, ResetPhy
  <2> QED
    BY <2>2, <2>3, <2>4, <2>5, <2>6 DEF IInv
<1>2. IInv /\ [Next]_vars => IInv'
  BY BankStep, LandStep, RestStep, FileStep, PhyStep DEF IInv
<1> QED
  BY <1>1, <1>2, PTL DEF Spec

\* Type correctness and the soundness of the bank memory, together.
THEOREM BankInvariance == Spec => []BankInv
<1>1. IInv => BankInv
  BY DEF IInv
<1> QED
  BY <1>1, Invariance, PTL

\* The driver's memory and the chip's selection are always banks, and what
\* is still to be done is a sequence of register accesses.
THEOREM TypeCorrect == Spec => []TypeOK
<1>1. BankInv => TypeOK
  BY DEF BankInv
<1> QED
  BY <1>1, BankInvariance, PTL

\* For every sequence of driver calls and MCU resets: dev->bnBank differs
\* from the selected bank only while the chip is in bank 0.
THEOREM CacheIsSound == Spec => []CacheSound
<1>1. BankInv => CacheSound
  BY DEF BankInv
<1> QED
  BY <1>1, BankInvariance, PTL

\* For every sequence of driver calls and MCU resets: an access to a bank-0
\* or common register hits the register the driver meant.
THEOREM DataPathIsSound == Spec => []DataPathLands
<1>1. BankInv => DataPathLands
  <2> SUFFICES ASSUME BankInv, started, NEW f \in DOMAIN bank0
               PROVE  Hit(bank0[f]) = bank0[f]
    BY DEF DataPathLands
  <2> DEFINE r == bank0[f]
  <2>1. r \in 0 .. 31
    BY BankRanges
  <2>2. r % 32 = r /\ r % 64 = r /\ convertRegValToBank(r) = bank_0
    BY <2>1 DEF convertRegValToBank, bank_0
  <2>3. SwitchFor(r).selected = bank_0
    BY <2>2 DEF SwitchFor, bankChange, BankInv, TypeOK, CacheSound
  <2> QED
    BY <2>1, <2>2, <2>3 DEF Hit, HitIn, bank_0
<1> QED
  BY <1>1, BankInvariance, PTL

\* For every sequence of driver calls and MCU resets: the endless waits of
\* enc28j60_readPhyReg and writePhyReg poll MISTAT and no other register.
THEOREM WaitsLand == Spec => []BusyWaitLands
<1>1. IInv => BusyWaitLands
  <2> SUFFICES ASSUME IInv, prog # <<>>, Head(prog).reg = bank3.MISTAT
               PROVE  Hit(bank3.MISTAT) = bank3.MISTAT
    BY DEF BusyWaitLands
  <2>1. BankInv /\ LandInv /\ Head(prog) = prog[1]
    BY DEF IInv, BankInv, TypeOK
  <2>2. Hit(prog[1].reg) = prog[1].reg \/ prog[1].reg \in Mii
    BY <2>1, AccessHits
  <2>3. bank3.MISTAT \notin Mii
    BY MiiAddresses DEF bank3, bank_3
  <2> QED
    BY <2>1, <2>2, <2>3
<1> QED
  BY <1>1, Invariance, PTL

\* For every sequence of driver calls and MCU resets: whenever no call runs
\* after enc28j60_strtDr, the receive buffer, the filters, the MAC and its
\* address are as programmed, and the PHY reports link changes.
THEOREM StartUpIsSound == Spec => []StartConfigured
<1>1. IInv => StartConfigured
  <2> SUFFICES ASSUME IInv, started, prog = <<>>
               PROVE  /\ \A r \in StaticConfig : file[r] = Expected(r)
                      /\ phy[phyReg.PHIE] = {phyReg.PHIE, bit.PLNKIE}
    BY DEF StartConfigured, AtRest
  <2>1. FileInv /\ PhyInv /\ Len(prog) = 0
    BY DEF IInv
  <2>2. \A r \in StaticConfig : file[r] = Expected(r)
    BY <2>1 DEF FileInv
  <2>3. phy[phyReg.PHIE] = IF 0 > 21 THEN {phyReg.PHIE}
                           ELSE {phyReg.PHIE, bit.PLNKIE}
    BY <2>1, PhyInvNumbers
  <2> QED
    BY <2>2, <2>3
<1> QED
  BY <1>1, Invariance, PTL

\* For every sequence of driver calls and MCU resets: between calls the chip
\* rests in bank 0 and the driver remembers bank 1 or 2.
THEOREM RestsInBankZero == Spec => []RestState
<1>1. IInv => RestState
  <2>1. ASSUME RestInv, started, prog = <<>>
        PROVE  bsel = bank_0 /\ bnBank \in {bank_1, bank_2}
    BY <2>1 DEF RestInv, AtRest
  <2> QED
    BY <2>1 DEF IInv, RestState, AtRest
<1> QED
  BY <1>1, Invariance, PTL
=============================================================================
