------------------------- MODULE RegisterMap_proofs --------------------------
(***************************************************************************)
(* Proofs about RegisterMap, for every set of configurations, pages and    *)
(* words that satisfy its assumptions, not the sampled ones of the run.    *)
(* The argument: every page has one owner (Owner), the decode of a block   *)
(* stays on the pages of its owner and names a register only once          *)
(* (BlocksMapped), so one access has at most one register (OneRegister)    *)
(* and one strobe (RaisedOnce).                                            *)
(***************************************************************************)
EXTENDS RegisterMap, FiniteSetTheorems, TLAPS

-----------------------------------------------------------------------------

\* What a strobe of a decode process is.
LEMMA DecodeIs ==
  ASSUME NEW tag, NEW addr, NEW regs, NEW ops, NEW field, NEW d \in Decode(tag, addr, regs, ops, field)
  PROVE  /\ d.reg \in regs /\ d.op \in ops
         /\ d = [tag |-> tag, reg |-> d.reg, op |-> d.op, page |-> addr[d.reg], field |-> field]
<1>1. PICK r \in regs, o \in ops :
        d = [tag |-> tag, reg |-> r, op |-> o, page |-> addr[r], field |-> field]
  BY DEF Decode
<1>2. d.reg = r /\ d.op = o
  BY <1>1
<1> QED BY <1>1, <1>2

\* Whose page p is; the plain UART and the packet UART share theirs.
Owner(p) ==
  CASE p \in {1, 2, 8, 15} -> "Core"
    [] p \in 4 .. 7 -> "IDROM"
    [] p \in 10 .. 11 -> "IRQ"
    [] p \in 12 .. 14 -> "Watchdog"
    [] p \in 16 .. 20 -> "IOPort"
    [] p \in 21 .. 26 -> "FAbs"
    [] p \in 27 .. 29 -> "ScalerCounter"
    [] p \in 32 .. 42 -> "StepGen"
    [] p \in 43 .. 47 -> "WaveGen"
    [] p \in 48 .. 53 -> "QCount"
    [] p \in 54 .. 59 -> "MuxedQCount"
    [] p \in 60 .. 64 -> "ResMod"
    [] p \in 65 .. 69 -> "PWM"
    [] p \in 70 .. 73 -> "TPPWM"
    [] p \in 74 .. 77 -> "BISS"
    [] p \in 78 .. 80 -> "Twiddler"
    [] p \in 81 .. 83 -> "SPI"
    [] p = 84 -> "BinOsc"
    [] p \in 85 .. 87 -> "BSPI"
    [] p \in 88 .. 90 -> "DBSPI"
    [] p \in 91 .. 96 -> "SSerial"
    [] p \in 97 .. 100 -> "UARTT"
    [] p \in 101 .. 104 -> "UARTR"
    [] p \in 105 .. 108 -> "SSSI"
    [] p \in 109 .. 111 -> "DAQFIFO"
    [] p \in 112 .. 118 -> "HM2DPLL"
    [] OTHER -> "none"

\* The registers of D are all owner o's, and no two of them answer the same access.
Mapped(D, o, tags) ==
  /\ \A d \in D : Owner(d.page) = o /\ d.tag \in tags
  /\ \A d, e \in D : d.page = e.page /\ d.op = e.op => d = e

\* Each block keeps to the pages of its owner.
LEMMA BlocksMapped ==
  /\ Mapped(CoreDecode, "Core", {"Core", "LED"})
  /\ Mapped(WatchdogDecode, "Watchdog", {"Watchdog"})
  /\ Mapped(PortDecode, "IOPort", {"IOPort"})
  /\ Mapped(IDROMDecode, "IDROM", {"IDROM"})
  /\ Mapped(IRQDecode, "IRQ", {"IRQ"})
  /\ Mapped(HM2DPLLDecode, "HM2DPLL", {"HM2DPLL"})
  /\ Mapped(StepGenDecode, "StepGen", {"StepGen"})
  /\ Mapped(QCounterDecode, "QCount", {"QCount"})
  /\ Mapped(MuxedQCounterDecode, "MuxedQCount", {"MuxedQCount"})
  /\ Mapped(PWMDecode, "PWM", {"PWM"})
  /\ Mapped(TPPWMDecode, "TPPWM", {"TPPWM"})
  /\ Mapped(SPIDecode, "SPI", {"SPI"})
  /\ Mapped(BSPIDecode, "BSPI", {"BSPI"})
  /\ Mapped(DBSPIDecode, "DBSPI", {"DBSPI"})
  /\ Mapped(SSSIDecode, "SSSI", {"SSSI"})
  /\ Mapped(FAbsDecode, "FAbs", {"FAbs"})
  /\ Mapped(BISSDecode, "BISS", {"BISS"})
  /\ Mapped(DAQFIFODecode, "DAQFIFO", {"DAQFIFO"})
  /\ Mapped(UARTRDecode, "UARTR", {"UARTR"})
  /\ Mapped(UARTTDecode, "UARTT", {"UARTT"})
  /\ Mapped(PktUARTRDecode, "UARTR", {"PktUARTR"})
  /\ Mapped(PktUARTTDecode, "UARTT", {"PktUARTT"})
  /\ Mapped(BinOscDecode, "BinOsc", {"BinOsc"})
  /\ Mapped(WaveGenDecode, "WaveGen", {"WaveGen"})
  /\ Mapped(ResModDecode, "ResMod", {"ResMod"})
  /\ Mapped(SSerialDecode, "SSerial", {"SSerial"})
  /\ Mapped(TwiddleDecode, "Twiddler", {"Twiddler"})
  /\ Mapped(ScalerDecode, "ScalerCounter", {"ScalerCounter"})
<1>1. Mapped(CoreDecode, "Core", {"Core", "LED"})
  BY DecodeIs DEF CoreDecode, CoreAddr, Mapped, Owner, Load, Read, Ops
<1>2. Mapped(WatchdogDecode, "Watchdog", {"Watchdog"})
  BY DecodeIs DEF WatchdogDecode, WatchdogAddr, Mapped, Owner, Load, Read, Ops
<1>3. Mapped(PortDecode, "IOPort", {"IOPort"})
  BY DecodeIs DEF PortDecode, PortAddr, Mapped, Owner, Load, Read, Ops
<1>4. Mapped(IDROMDecode, "IDROM", {"IDROM"})
  BY DecodeIs DEF IDROMDecode, IDROMAddr, Mapped, Owner, Load, Read, Ops
<1>5. Mapped(IRQDecode, "IRQ", {"IRQ"})
  BY DecodeIs DEF IRQDecode, IRQAddr, Mapped, Owner, Load, Read, Ops
<1>6. Mapped(HM2DPLLDecode, "HM2DPLL", {"HM2DPLL"})
  BY SMTT(20), DecodeIs DEF HM2DPLLDecode, HM2DPLLAddr, Mapped, Owner, Load, Read, Ops
<1>7. Mapped(StepGenDecode, "StepGen", {"StepGen"})
  BY DecodeIs DEF StepGenDecode, StepGenAddr, Mapped, Owner, Load, Read, Ops
<1>8. Mapped(QCounterDecode, "QCount", {"QCount"})
  BY DecodeIs DEF QCounterDecode, QCounterAddr, QCounterRegs, Mapped, Owner, Load, Read, Ops
<1>9. Mapped(MuxedQCounterDecode, "MuxedQCount", {"MuxedQCount"})
  BY DecodeIs DEF MuxedQCounterDecode, MuxedQCounterAddr, QCounterRegs, Mapped, Owner, Load, Read, Ops
<1>10. Mapped(PWMDecode, "PWM", {"PWM"})
  BY DecodeIs DEF PWMDecode, PWMAddr, Mapped, Owner, Load, Read, Ops
<1>11. Mapped(TPPWMDecode, "TPPWM", {"TPPWM"})
  BY DecodeIs DEF TPPWMDecode, TPPWMAddr, Mapped, Owner, Load, Read, Ops
<1>12. Mapped(SPIDecode, "SPI", {"SPI"})
  BY DecodeIs DEF SPIDecode, SPIAddr, Mapped, Owner, Load, Read, Ops
<1>13. Mapped(BSPIDecode, "BSPI", {"BSPI"})
  BY DecodeIs DEF BSPIDecode, BSPIAddr, BSPIRegs, Mapped, Owner, Load, Read, Ops
<1>14. Mapped(DBSPIDecode, "DBSPI", {"DBSPI"})
  BY DecodeIs DEF DBSPIDecode, DBSPIAddr, BSPIRegs, Mapped, Owner, Load, Read, Ops
<1>15. Mapped(SSSIDecode, "SSSI", {"SSSI"})
  BY SMTT(20), DecodeIs DEF SSSIDecode, SSSIAddr, Mapped, Owner, Load, Read, Ops
<1>16. Mapped(FAbsDecode, "FAbs", {"FAbs"})
  BY DecodeIs DEF FAbsDecode, FAbsAddr, Mapped, Owner, Load, Read, Ops
<1>17. Mapped(BISSDecode, "BISS", {"BISS"})
  BY DecodeIs DEF BISSDecode, BISSAddr, Mapped, Owner, Load, Read, Ops
<1>18. Mapped(DAQFIFODecode, "DAQFIFO", {"DAQFIFO"})
  BY SMTT(20), DecodeIs DEF DAQFIFODecode, DAQFIFOAddr, Mapped, Owner, Load, Read, Ops
<1>19. Mapped(UARTRDecode, "UARTR", {"UARTR"})
  BY SMTT(20), DecodeIs DEF UARTRDecode, UARTRAddr, Mapped, Owner, Load, Read, Ops
<1>20. Mapped(UARTTDecode, "UARTT", {"UARTT"})
  BY SMTT(20), DecodeIs DEF UARTTDecode, UARTTAddr, Mapped, Owner, Load, Read, Ops
<1>21. Mapped(PktUARTRDecode, "UARTR", {"PktUARTR"})
  BY SMTT(20), DecodeIs DEF PktUARTRDecode, UARTRAddr, Mapped, Owner, Load, Read, Ops
<1>22. Mapped(PktUARTTDecode, "UARTT", {"PktUARTT"})
  BY SMTT(20), DecodeIs DEF PktUARTTDecode, UARTTAddr, Mapped, Owner, Load, Read, Ops
<1>23. Mapped(BinOscDecode, "BinOsc", {"BinOsc"})
  BY DecodeIs DEF BinOscDecode, BinOscAddr, Mapped, Owner, Load, Read, Ops
<1>24. Mapped(WaveGenDecode, "WaveGen", {"WaveGen"})
  BY DecodeIs DEF WaveGenDecode, WaveGenAddr, Mapped, Owner, Load, Read, Ops
<1>25. Mapped(ResModDecode, "ResMod", {"ResMod"})
  BY DecodeIs DEF ResModDecode, ResModAddr, Mapped, Owner, Load, Read, Ops
<1>26. Mapped(SSerialDecode, "SSerial", {"SSerial"})
  BY SMTT(20), DecodeIs DEF SSerialDecode, SSerialAddr, Mapped, Owner, Load, Read, Ops
<1>27. Mapped(TwiddleDecode, "Twiddler", {"Twiddler"})
  BY SMTT(20), DecodeIs DEF TwiddleDecode, TwiddlerAddr, Mapped, Owner, Load, Read, Ops
<1>28. Mapped(ScalerDecode, "ScalerCounter", {"ScalerCounter"})
  BY DecodeIs DEF ScalerDecode, ScalerAddr, Mapped, Owner, Load, Read, Ops
<1> QED BY <1>1, <1>2, <1>3, <1>4, <1>5, <1>6, <1>7, <1>8, <1>9, <1>10,
           <1>11, <1>12, <1>13, <1>14, <1>15, <1>16, <1>17, <1>18, <1>19,
           <1>20, <1>21, <1>22, <1>23, <1>24, <1>25, <1>26, <1>27, <1>28

\* Two registers answer the same access only if they are the same.
LEMMA OneRegister ==
  ASSUME NEW d \in AllDecodes, NEW e \in AllDecodes, d.page = e.page, d.op = e.op,
         Built(d), Built(e), ~(Size("UARTR") > 0 /\ Size("PktUARTR") > 0)
  PROVE  d = e
<1>1. ~(Size("UARTT") > 0 /\ Size("PktUARTT") > 0)
  BY DEF Size
<1>2. CASE Owner(d.page) \notin {"UARTR", "UARTT"}
  BY <1>2, BlocksMapped DEF AllDecodes, Mapped
<1>3. CASE Owner(d.page) = "UARTR"
  <2>1. d \in UARTRDecode \cup PktUARTRDecode /\ e \in UARTRDecode \cup PktUARTRDecode
    BY <1>3, BlocksMapped DEF AllDecodes, Mapped
  <2> QED BY <2>1, BlocksMapped DEF Mapped, Built
<1>4. CASE Owner(d.page) = "UARTT"
  <2>1. d \in UARTTDecode \cup PktUARTTDecode /\ e \in UARTTDecode \cup PktUARTTDecode
    BY <1>4, BlocksMapped DEF AllDecodes, Mapped
  <2> QED BY <1>1, <2>1, BlocksMapped DEF Mapped, Built
<1> QED BY <1>2, <1>3, <1>4

\* The instance that the word of an access names.
Chosen(e, word) == (word \div e.field.div) % e.field.mod

\* A strobe is raised by a register of the page whose block is built that far.
LEMMA StrobeOf ==
  ASSUME NEW op, NEW page, NEW word, page \in 0 .. 255, NEW s
  PROVE  s \in Raised(op, page, word) <=>
           \E e \in AllDecodes :
             /\ e.page = page /\ e.op = op /\ Built(e) /\ Unlocked(e)
             /\ s = <<e.tag, e.reg, Chosen(e, word)>> /\ Chosen(e, word) < Size(e.tag)
<1>1. \A e \in AllDecodes :
        s \in OneOfNDecode(e, word) <=>
          s = <<e.tag, e.reg, Chosen(e, word)>> /\ Chosen(e, word) < Size(e.tag)
  BY DEF OneOfNDecode, Chosen
<1>2. OnPage[page] = {e \in AllDecodes : e.page = page}
  BY DEF OnPage
<1> QED BY <1>1, <1>2 DEF Raised

\* No configuration has both kinds of UART.
LEMMA OneKindOfUART ==
  ASSUME config \in Configs
  PROVE  ~(Size("UARTR") > 0 /\ Size("PktUARTR") > 0)
<1>1. ASSUME NEW tag \in {"UARTR", "PktUARTR"}, Size(tag) > 0
      PROVE  \E k \in DOMAIN ModuleID[config] : ModuleID[config][k].tag = tag
  <2>1. NumberOfModules(tag) > 0
    BY <1>1 DEF Size
  <2> SUFFICES ASSUME {k \in DOMAIN ModuleID[config] : ModuleID[config][k].tag = tag} = {}
               PROVE  FALSE
    OBVIOUS
  <2>2. NumberOfModules(tag) = 0
    BY DEF NumberOfModules
  <2> QED BY <2>1, <2>2
<1> QED BY <1>1, UARTAssumption

\* An access raises one strobe at most, of an instance that was built.
LEMMA RaisedOnce ==
  ASSUME config \in Configs, NEW op, NEW page \in 0 .. 255, NEW word,
         NEW s \in Raised(op, page, word), NEW t \in Raised(op, page, word)
  PROVE  s = t /\ s[3] < Size(s[1])
<1>1. PICK d \in AllDecodes :
        /\ d.page = page /\ d.op = op /\ Built(d)
        /\ s = <<d.tag, d.reg, Chosen(d, word)>> /\ Chosen(d, word) < Size(d.tag)
  BY StrobeOf
<1>2. PICK e \in AllDecodes :
        e.page = page /\ e.op = op /\ Built(e) /\ t = <<e.tag, e.reg, Chosen(e, word)>>
  BY StrobeOf
<1>3. d = e
  BY <1>1, <1>2, OneKindOfUART, OneRegister
<1> QED BY <1>1, <1>2, <1>3

\* The invariant: OneAnswer in the form that a step preserves.
MapInv ==
  /\ config \in Configs /\ (bus # Idle => bus.page \in 0 .. 255)
  /\ \A s, t \in strobes : s = t /\ s[3] < Size(s[1])

\* An access raises the strobes anew; what is built never changes.
LEMMA MapAlways == Spec => []MapInv
<1>1. Init => MapInv
  BY DEF Init, MapInv
<1>2. MapInv /\ [Next]_vars => MapInv'
  <2> SUFFICES ASSUME MapInv, [Next]_vars PROVE MapInv'
    OBVIOUS
  <2>1. ASSUME config' = config, NEW t PROVE Size(t)' = Size(t)
    BY <2>1 DEF Size, NumberOfModules
  <2>2. ASSUME NEW op \in Ops, NEW page \in Pages, NEW word \in Words, NEW bit \in BOOLEAN,
               Access(op, page, word, bit)
        PROVE  MapInv'
    <3>1. /\ config' = config /\ strobes' = Raised(op, page, word) /\ page \in 0 .. 255
          /\ bus' = [op |-> op, page |-> page, word |-> word] /\ config \in Configs
      BY <2>2, AddressAssumption DEF Access, MapInv
    <3>2. \A s, t \in strobes' : s = t /\ s[3] < Size(s[1])
      BY <3>1, RaisedOnce
    <3>3. \A s, t \in strobes' : s = t /\ s[3] < Size(s[1])'
      BY <2>1, <3>1, <3>2
    <3> QED BY <3>1, <3>3 DEF MapInv
  <2>3. CASE Release
    BY <2>3 DEF Release, MapInv
  <2>4. CASE UNCHANGED vars
    BY <2>1, <2>4 DEF vars, MapInv
  <2> QED BY <2>2, <2>3, <2>4 DEF Next
<1> QED BY <1>1, <1>2, PTL DEF Spec

(***************************************************************************)
(* Whatever blocks are built, in whatever number, no read is answered by   *)
(* two of them and no write loads two registers; the instance reached is   *)
(* one that was built.                                                     *)
(***************************************************************************)
THEOREM OneAnswerAlways == Spec => []OneAnswer
<1>1. MapInv => OneAnswer
  <2> SUFFICES ASSUME MapInv PROVE OneAnswer
    OBVIOUS
  <2>1. Cardinality(strobes) <= 1
    <3>1. CASE strobes = {}
      BY <3>1, FS_EmptySet
    <3>2. CASE strobes # {}
      <4>1. PICK s : s \in strobes
        BY <3>2
      <4>2. strobes = {s}
        BY <4>1 DEF MapInv
      <4>3. Cardinality({s}) = 1
        BY FS_Singleton
      <4> QED BY <4>2, <4>3
    <3> QED BY <3>1, <3>2
  <2> QED BY <2>1 DEF OneAnswer, MapInv
<1> QED BY <1>1, MapAlways, PTL

(***************************************************************************)
(* The descriptors are where the header says, on every page and word.      *)
(***************************************************************************)
THEOREM DiscoveryMatchesAlways == Spec => []DiscoveryMatches
<1>1. ASSUME NEW w, NEW k \in 0 .. 31, NEW j \in 0 .. 2, w = 16 + 3 * k + j
      PROVE  RomContent(w) = <<"module", k, j>>
  <2>1. w \in 16 .. 111 /\ (w - 16) \div 3 = k /\ (w - 16) % 3 = j
    BY <1>1
  <2> QED BY <2>1 DEF RomContent
<1>2. ASSUME NEW w, NEW p \in 0 .. 124, w = 112 + p
      PROVE  RomContent(w) = <<"pin", p>>
  BY <1>2 DEF RomContent
<1>3. OffsetToModules \div 4 = 16 /\ OffsetToPinDesc \div 4 = 112 /\ IOWidth - 1 \in -1 .. 124
  BY LayoutAssumption
<1>4. DiscoveryMatches
  <2> SUFFICES ASSUME NEW w PROVE
        /\ \A k \in 0 .. 31, j \in 0 .. 2 :
              w = OffsetToModules \div 4 + 3 * k + j => RomContent(w) = <<"module", k, j>>
        /\ \A p \in 0 .. IOWidth - 1 :
              w = OffsetToPinDesc \div 4 + p => RomContent(w) = <<"pin", p>>
    BY DEF DiscoveryMatches
  <2>1. ASSUME NEW k \in 0 .. 31, NEW j \in 0 .. 2, w = OffsetToModules \div 4 + 3 * k + j
        PROVE  RomContent(w) = <<"module", k, j>>
    BY <1>1, <1>3, <2>1
  <2>2. ASSUME NEW p \in 0 .. IOWidth - 1, w = OffsetToPinDesc \div 4 + p
        PROVE  RomContent(w) = <<"pin", p>>
    <3>1. p \in 0 .. 124
      BY LayoutAssumption
    <3> QED BY <1>2, <1>3, <2>2, <3>1
  <2> QED BY <2>1, <2>2
<1> QED BY <1>4, PTL

(***************************************************************************)
(* Register r of a standard descriptor is on page r after its base.        *)
(***************************************************************************)
RegisterField(tag, r) ==
  IF r \notin Standard[tag].multRegs THEN Shared ELSE IF tag = "IOPort" THEN A42 ELSE A72

Has(D, tag) ==
  \A r \in 0 .. Standard[tag].registers - 1 :
    \A e \in D : e.page = Standard[tag].base + r => e.tag = tag /\ e.field = RegisterField(tag, r)

\* What the blocks have there has the address field of that register.
LEMMA BlocksHave ==
  /\ Has(WatchdogDecode, "Watchdog") /\ Has(PortDecode, "IOPort") /\ Has(StepGenDecode, "StepGen")
  /\ Has(QCounterDecode, "QCount") /\ Has(PWMDecode, "PWM") /\ Has(CoreDecode, "LED")
<1> USE DecodeIs DEF Has, RegisterField, Standard, Load, Read, Ops
<1>1. Has(WatchdogDecode, "Watchdog")
  BY DEF WatchdogDecode, WatchdogAddr
<1>2. Has(PortDecode, "IOPort")
  BY DEF PortDecode, PortAddr
<1>3. Has(StepGenDecode, "StepGen")
  BY DEF StepGenDecode, StepGenAddr
<1>4. Has(QCounterDecode, "QCount")
  BY DEF QCounterDecode, QCounterRegs, QCounterAddr
<1>5. Has(PWMDecode, "PWM")
  BY DEF PWMDecode, PWMAddr
<1>6. Has(CoreDecode, "LED")
  BY DEF CoreDecode, CoreAddr
<1> QED BY <1>1, <1>2, <1>3, <1>4, <1>5, <1>6

\* A register of a decode process is decoded on its page.
LEMMA Decoded ==
  ASSUME NEW tag, NEW addr, NEW regs, NEW ops, NEW field, NEW r \in regs, NEW o \in ops
  PROVE  \E e \in Decode(tag, addr, regs, ops, field) : e.page = addr[r] /\ e.op = o
<1>1. [tag |-> tag, reg |-> r, op |-> o, page |-> addr[r], field |-> field]
        \in Decode(tag, addr, regs, ops, field)
  BY DEF Decode
<1> QED BY <1>1

\* Register r of the block can be accessed.
There(D, tag) ==
  \A r \in 0 .. Standard[tag].registers - 1 :
    \E e \in D : e.page = Standard[tag].base + r /\ e.op \in Ops

\* The blocks have a register on every page of their descriptors.
LEMMA BlocksThere ==
  /\ There(WatchdogDecode, "Watchdog") /\ There(PortDecode, "IOPort")
  /\ There(StepGenDecode, "StepGen") /\ There(QCounterDecode, "QCount")
  /\ There(PWMDecode, "PWM") /\ There(CoreDecode, "LED")
<1> USE Decoded DEF Ops, Load, Read
<1>1. There(WatchdogDecode, "Watchdog")
  <2>1. \A x \in DOMAIN WatchdogAddr : \E e \in WatchdogDecode : e.page = WatchdogAddr[x] /\ e.op = "load"
    BY DEF WatchdogDecode, WatchdogAddr
  <2>2. \A r \in 0 .. 2 : \E x \in DOMAIN WatchdogAddr : WatchdogAddr[x] = 12 + r
    BY DEF WatchdogAddr
  <2> QED BY <2>1, <2>2 DEF There, Standard
<1>2. There(PortDecode, "IOPort")
  <2>1. \A x \in DOMAIN PortAddr : \E e \in PortDecode : e.page = PortAddr[x] /\ e.op = "load"
    BY DEF PortDecode, PortAddr
  <2>2. \A r \in 0 .. 4 : \E x \in DOMAIN PortAddr : PortAddr[x] = 16 + r
    BY DEF PortAddr
  <2> QED BY <2>1, <2>2 DEF There, Standard
<1>3. There(StepGenDecode, "StepGen")
  <2>1. \A x \in DOMAIN StepGenAddr : \E e \in StepGenDecode : e.page = StepGenAddr[x] /\ e.op = "load"
    BY DEF StepGenDecode
  <2>2. \A r \in 0 .. 9 : \E x \in DOMAIN StepGenAddr : StepGenAddr[x] = 32 + r
    BY DEF StepGenAddr
  <2> QED BY <2>1, <2>2 DEF There, Standard
<1>4. There(QCounterDecode, "QCount")
  <2>1. \A x \in DOMAIN QCounterAddr :
          \E e \in QCounterDecode : e.page = QCounterAddr[x] /\ e.op \in {"read", "load"}
    BY DEF QCounterDecode, QCounterRegs, QCounterAddr
  <2>2. \A r \in 0 .. 4 : \E x \in DOMAIN QCounterAddr : QCounterAddr[x] = 48 + r
    BY DEF QCounterAddr
  <2> QED BY <2>1, <2>2 DEF There, Standard
<1>5. There(PWMDecode, "PWM")
  <2>1. \A x \in DOMAIN PWMAddr : \E e \in PWMDecode : e.page = PWMAddr[x] /\ e.op = "load"
    BY DEF PWMDecode, PWMAddr
  <2>2. \A r \in 0 .. 4 : \E x \in DOMAIN PWMAddr : PWMAddr[x] = 65 + r
    BY DEF PWMAddr
  <2> QED BY <2>1, <2>2 DEF There, Standard
<1>6. There(CoreDecode, "LED")
  <2>1. \E e \in CoreDecode : e.page = 2 /\ e.op = "load"
    BY DEF CoreDecode, CoreAddr
  <2> QED BY <2>1 DEF There, Standard
<1> QED BY <1>1, <1>2, <1>3, <1>4, <1>5, <1>6

\* The same of all the blocks: no other is on those pages.
LEMMA StandardPage ==
  ASSUME NEW tag \in DOMAIN Standard, NEW r \in 0 .. Standard[tag].registers - 1
  PROVE  /\ Standard[tag].base + r \in 0 .. 255
         /\ \A e \in AllDecodes : e.page = Standard[tag].base + r =>
              e.tag = tag /\ e.field = RegisterField(tag, r)
         /\ \E e \in AllDecodes : e.page = Standard[tag].base + r /\ e.op \in Ops
<1> DEFINE p == Standard[tag].base + r
<1>1. /\ tag \in {"Watchdog", "IOPort", "StepGen", "QCount", "PWM", "LED"}
      /\ p \in 0 .. 255 /\ Owner(p) = IF tag = "LED" THEN "Core" ELSE tag
  <2>1. tag \in {"Watchdog", "IOPort", "StepGen", "QCount", "PWM", "LED"}
    BY DEF Standard
  <2>2. CASE tag = "Watchdog"
    BY <2>2 DEF Standard, Owner
  <2>3. CASE tag = "IOPort"
    BY <2>3 DEF Standard, Owner
  <2>4. CASE tag = "StepGen"
    BY SMTT(20), <2>4 DEF Standard, Owner
  <2>5. CASE tag = "QCount"
    BY <2>5 DEF Standard, Owner
  <2>6. CASE tag = "PWM"
    BY <2>6 DEF Standard, Owner
  <2>7. CASE tag = "LED"
    BY <2>7 DEF Standard, Owner
  <2> QED BY <2>1, <2>2, <2>3, <2>4, <2>5, <2>6, <2>7
<1>2. PICK D : /\ D \subseteq AllDecodes /\ Has(D, tag) /\ There(D, tag)
               /\ \A e \in AllDecodes : Owner(e.page) = Owner(p) => e \in D
  <2>1. CASE tag = "Watchdog"
    <3>1. \A e \in AllDecodes : Owner(e.page) = "Watchdog" => e \in WatchdogDecode
      BY BlocksMapped DEF AllDecodes, Mapped
    <3>2. WatchdogDecode \subseteq AllDecodes
      BY DEF AllDecodes
    <3> QED BY <1>1, <2>1, <3>1, <3>2, BlocksHave, BlocksThere
  <2>2. CASE tag = "IOPort"
    <3>1. \A e \in AllDecodes : Owner(e.page) = "IOPort" => e \in PortDecode
      BY BlocksMapped DEF AllDecodes, Mapped
    <3>2. PortDecode \subseteq AllDecodes
      BY DEF AllDecodes
    <3> QED BY <1>1, <2>2, <3>1, <3>2, BlocksHave, BlocksThere
  <2>3. CASE tag = "StepGen"
    <3>1. \A e \in AllDecodes : Owner(e.page) = "StepGen" => e \in StepGenDecode
      BY BlocksMapped DEF AllDecodes, Mapped
    <3>2. StepGenDecode \subseteq AllDecodes
      BY DEF AllDecodes
    <3> QED BY <1>1, <2>3, <3>1, <3>2, BlocksHave, BlocksThere
  <2>4. CASE tag = "QCount"
    <3>1. \A e \in AllDecodes : Owner(e.page) = "QCount" => e \in QCounterDecode
      BY BlocksMapped DEF AllDecodes, Mapped
    <3>2. QCounterDecode \subseteq AllDecodes
      BY DEF AllDecodes
    <3> QED BY <1>1, <2>4, <3>1, <3>2, BlocksHave, BlocksThere
  <2>5. CASE tag = "PWM"
    <3>1. \A e \in AllDecodes : Owner(e.page) = "PWM" => e \in PWMDecode
      BY BlocksMapped DEF AllDecodes, Mapped
    <3>2. PWMDecode \subseteq AllDecodes
      BY DEF AllDecodes
    <3> QED BY <1>1, <2>5, <3>1, <3>2, BlocksHave, BlocksThere
  <2>6. CASE tag = "LED"
    <3>1. \A e \in AllDecodes : Owner(e.page) = "Core" => e \in CoreDecode
      BY BlocksMapped DEF AllDecodes, Mapped
    <3>2. CoreDecode \subseteq AllDecodes
      BY DEF AllDecodes
    <3> QED BY <1>1, <2>6, <3>1, <3>2, BlocksHave, BlocksThere
  <2> QED BY <1>1, <2>1, <2>2, <2>3, <2>4, <2>5, <2>6
<1> HIDE DEF p
<1>3. /\ \A e \in D : e.page = p => e.tag = tag /\ e.field = RegisterField(tag, r)
      /\ \E e \in D : e.page = p /\ e.op \in Ops
  BY <1>2 DEF Has, There, p
<1>4. \A e \in AllDecodes : e.page = p => e.tag = tag /\ e.field = RegisterField(tag, r)
  BY <1>2, <1>3
<1>5. \E e \in AllDecodes : e.page = p /\ e.op \in Ops
  BY <1>2, <1>3
<1> QED BY <1>1, <1>4, <1>5 DEF p

(***************************************************************************)
(* The address that the host computes from a standard descriptor, for any  *)
(* number of instances that can be addressed, is that of the register of   *)
(* the instance, and of nothing else.                                      *)
(***************************************************************************)
THEOREM AdvertisedReachedAlways == Spec => []AdvertisedReached
<1>1. ASSUME config \in Configs PROVE AdvertisedReached
  <2> SUFFICES ASSUME NEW k \in DOMAIN ModuleID[config], ModuleID[config][k].host,
                      NEW r \in 0 .. ModuleID[config][k].registers - 1,
                      bus.page = ModuleID[config][k].base + r * RegStride0,
                      NEW n \in 0 .. ModuleID[config][k].instances - 1,
                      NEW inst, inst = IF r \in ModuleID[config][k].multRegs THEN n ELSE 0,
                      bus.word = inst * InstStride0
               PROVE  /\ UNION {Raised(op, bus.page, bus.word) : op \in Ops} # {}
                      /\ \A s \in UNION {Raised(op, bus.page, bus.word) : op \in Ops} :
                           s[1] = ModuleID[config][k].tag /\ s[3] = inst
    BY DEF AdvertisedReached
  <2> DEFINE d == ModuleID[config][k]
             tag == d.tag
  <2>1. /\ tag \in DOMAIN Standard /\ d.base = Standard[tag].base
        /\ d.registers = Standard[tag].registers /\ d.multRegs = Standard[tag].multRegs
        /\ d.instances \in 1 .. 64
        /\ tag = "IOPort" => d.instances <= IOPorts /\ IOPorts <= 8
        /\ \A j \in DOMAIN ModuleID[config] : ModuleID[config][j].tag = tag => j = k
    BY <1>1, DescriptorAssumption
  <2>2. bus.page = Standard[tag].base + r /\ bus.word = inst /\ inst \in 0 .. 63
        /\ r \in 0 .. Standard[tag].registers - 1
    <3>1. r \in Int /\ r * 1 = r /\ inst \in 0 .. 63 /\ inst * 1 = inst
      BY <2>1 DEF Standard
    <3> QED BY <2>1, <3>1, LayoutAssumption
  <2>3. Size(tag) \in Int /\ inst < Size(tag) /\ (tag = "IOPort" => inst < 8)
    <3>1. tag \in {"Watchdog", "IOPort", "StepGen", "QCount", "PWM", "LED"}
      BY <2>1 DEF Standard
    <3>2. CASE tag \in {"Watchdog", "LED"}
      BY <2>1, <3>2 DEF Standard, Size
    <3>3. CASE tag = "IOPort"
      BY <2>1, <3>3, LayoutAssumption DEF Size
    <3>4. CASE tag \in {"StepGen", "QCount", "PWM"}
      <4>1. {j \in DOMAIN ModuleID[config] : ModuleID[config][j].tag = tag} = {k}
        BY <2>1
      <4>2. (CHOOSE i \in {k} : \A j \in {k} : j <= i) = k
        BY <1>1, DescriptorAssumption
      <4>3. NumberOfModules(tag) = d.instances
        BY <4>1, <4>2 DEF NumberOfModules
      <4> QED BY <2>1, <2>2, <3>4, <4>3 DEF Size
    <3> QED BY <3>1, <3>2, <3>3, <3>4
  <2> HIDE DEF d, tag
  <2>4. /\ bus.page \in 0 .. 255
        /\ \A e \in AllDecodes : e.page = bus.page => e.tag = tag /\ e.field = RegisterField(tag, r)
        /\ \E e \in AllDecodes : e.page = bus.page /\ e.op \in Ops
    BY <2>1, <2>2, StandardPage
  <2>5. \A e \in AllDecodes : e.page = bus.page => Chosen(e, bus.word) = inst
    <3>1. r \notin Standard[tag].multRegs => inst = 0
      BY <2>1 DEF d
    <3>2. ASSUME NEW e, e.field = RegisterField(tag, r) PROVE Chosen(e, inst) = inst
      <4>1. CASE r \notin Standard[tag].multRegs
        BY <3>1, <3>2, <4>1 DEF Chosen, RegisterField, Shared
      <4>2. CASE r \in Standard[tag].multRegs /\ tag = "IOPort"
        BY <2>2, <2>3, <3>2, <4>2 DEF Chosen, RegisterField, A42
      <4>3. CASE r \in Standard[tag].multRegs /\ tag # "IOPort"
        BY <2>2, <3>2, <4>3 DEF Chosen, RegisterField, A72
      <4> QED BY <4>1, <4>2, <4>3
    <3> QED BY <2>2, <2>4, <3>2
  <2>6. ASSUME NEW op \in Ops, NEW s \in Raised(op, bus.page, bus.word)
        PROVE  s[1] = tag /\ s[3] = inst
    <3>0. bus.page \in 0 .. 255
      BY <2>4
    <3>1. PICK e \in AllDecodes : e.page = bus.page /\ s = <<e.tag, e.reg, Chosen(e, bus.word)>>
      BY SMTT(20), <3>0, StrobeOf
    <3>2. e.tag = tag /\ Chosen(e, bus.word) = inst
      BY <2>4, <2>5, <3>1
    <3> QED BY <3>1, <3>2
  <2>7. \E op \in Ops : \E s : s \in Raised(op, bus.page, bus.word)
    <3>1. PICK e \in AllDecodes : e.page = bus.page /\ e.op \in Ops
      BY <2>4
    <3>2. Built(e) /\ Unlocked(e)
      <4>1. e.tag = tag /\ tag # "IDROM"
        BY <2>1, <2>4, <3>1 DEF Standard
      <4>2. Size(tag) > 0
        <5>1. Size(tag) \in Int
          BY <2>3
        <5> QED BY <2>2, <2>3, <5>1
      <4> QED BY <4>1, <4>2 DEF Built, Unlocked
    <3>3. Chosen(e, bus.word) < Size(e.tag)
      BY <2>3, <2>4, <2>5, <3>1
    <3>4. <<e.tag, e.reg, Chosen(e, bus.word)>> \in Raised(e.op, bus.page, bus.word)
      <4>1. bus.page \in 0 .. 255
        BY <2>4
      <4> QED BY <3>1, <3>2, <3>3, <4>1, StrobeOf, Zenon
    <3> QED BY <3>1, <3>4
  <2> QED BY <2>6, <2>7 DEF d, tag
<1>2. MapInv => config \in Configs
  BY DEF MapInv
<1> QED BY <1>1, <1>2, MapAlways, PTL
=============================================================================
