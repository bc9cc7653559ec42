----------------------------- MODULE RegisterMap -----------------------------
(***************************************************************************)
(* The register map of the HostMot2 core: how an access of the host is     *)
(* decoded to the load and read strobes of the functional blocks, and the  *)
(* ID ROM from which the host learns where those registers are.            *)
(*                                                                         *)
(* The map is kept by hand in four places: the page numbers of             *)
(* IDROMConst.vhd, the decode process of each block of hostmot2.vhd, the   *)
(* module descriptors of a pin file, and the layout of idrom.vhd.  Every   *)
(* block drives the same tri-state bus obus, so the four must agree.       *)
(*                                                                         *)
(* An address is a page, A(15 downto 8), and a word of it, A(7 downto 2).  *)
(* The bus keeps address and strobe together (module Hm2RegIO), so one     *)
(* access is one step here.                                                *)
(***************************************************************************)
EXTENDS Naturals, Sequences, FiniteSets

CONSTANTS
    Configs,    \* names of the configurations of the core to be built
    ModuleID,   \* configuration -> sequence of module descriptors
    Pages,      \* the pages the host accesses
    Words,      \* the words of a page the host accesses
    IOPorts,    \* generics of entity HostMot2
    IOWidth,
    OffsetToModules,
    OffsetToPinDesc,
    RegStride0, \* in pages
    InstStride0 \* in words

\* What IDROMConst.vhd says of the blocks that the pin files name: their first page,
\* their number of registers and which of those every instance has.
Standard ==
    [Watchdog |-> [base |-> 12, registers |-> 3,  multRegs |-> {}],
     IOPort   |-> [base |-> 16, registers |-> 5,  multRegs |-> 0 .. 4],
     StepGen  |-> [base |-> 32, registers |-> 10, multRegs |-> 0 .. 8],
     QCount   |-> [base |-> 48, registers |-> 5,  multRegs |-> {0, 1}],
     PWM      |-> [base |-> 65, registers |-> 5,  multRegs |-> {0, 1}],
     LED      |-> [base |-> 2,  registers |-> 1,  multRegs |-> {}]]

ASSUME AddressAssumption == Pages \subseteq 0 .. 255 /\ Words \subseteq 0 .. 63

\* "with the assumption you would not use both in one config", IDROMConst.vhd 280
ASSUME UARTAssumption ==
    \A c \in Configs : \A j, k \in DOMAIN ModuleID[c] :
        ~(ModuleID[c][j].tag = "UARTR" /\ ModuleID[c][k].tag = "PktUARTR")

\* Generics of hostmot2.vhd and idrom.vhd.
ASSUME LayoutAssumption ==
    /\ OffsetToModules = 64 /\ OffsetToPinDesc = 448 /\ IOWidth \in 0 .. 125
    /\ RegStride0 = 1 /\ InstStride0 = 1 /\ IOPorts \in Nat

\* A descriptor for the host is the standard one, once in a configuration, of no more
\* instances than its address field tells apart.
ASSUME DescriptorAssumption ==
    \A c \in Configs : DOMAIN ModuleID[c] \subseteq 1 .. 32 /\ \A k \in DOMAIN ModuleID[c] :
        LET d == ModuleID[c][k] IN d.host =>
            /\ d.tag \in DOMAIN Standard /\ d.base = Standard[d.tag].base
            /\ d.registers = Standard[d.tag].registers
            /\ d.multRegs = Standard[d.tag].multRegs
            /\ d.instances \in 1 .. 64 /\ (d.tag = "IOPort" => d.instances <= IOPorts /\ IOPorts <= 8)
            /\ \A j \in DOMAIN ModuleID[c] : ModuleID[c][j].tag = d.tag => j = k

VARIABLES
    config,     \* the configuration that was built
    bus,        \* the last access: its direction, page and word
    strobes,    \* the strobes that access raised
    IDROMWEn,   \* the ID ROM may be written
    patched     \* the host has overwritten a word of the ID ROM

vars == <<config, bus, strobes, IDROMWEn, patched>>

Ops == {"load", "read"}

-----------------------------------------------------------------------------
(* Page numbers (IDROMConst.vhd).                                          *)

CoreAddr     == [ReadID |-> 1, LED |-> 2, IDROMWEn |-> 8, DMDMAMode |-> 15]
IDROMAddr    == 4
IRQAddr      == [Status |-> 10, Clear |-> 11]
WatchdogAddr == [Time |-> 12, Status |-> 13, Cookie |-> 14]
PortAddr     == [Port |-> 16, DDR |-> 17, AltDataSrc |-> 18, OpenDrainMode |-> 19,
                 OutputInv |-> 20]
FAbsAddr     == [Data0 |-> 21, Data1 |-> 22, Data2 |-> 23, Control0 |-> 24,
                 Control1 |-> 25, Control2 |-> 23, GlobalPStart |-> 26]
ScalerAddr   == [Count |-> 27, Latch |-> 28, Timer |-> 29]
StepGenAddr  == [Rate |-> 32, Accum |-> 33, Mode |-> 34, DSUTime |-> 35, DHLDTime |-> 36,
                 PulseATime |-> 37, PulseITime |-> 38, Table |-> 39, TableMax |-> 40,
                 BasicRate |-> 41, TimerSelect |-> 42]
WaveGenAddr  == [Rate |-> 43, PDMRate |-> 44, Length |-> 45, TablePtr |-> 46,
                 TableData |-> 47]
QCounterAddr == [Counter |-> 48, CCR |-> 49, TSDiv |-> 50, TS |-> 51, Rate |-> 52,
                 TimerSelect |-> 53]
MuxedQCounterAddr == [Counter |-> 54, CCR |-> 55, TSDiv |-> 56, TS |-> 57, Rate |-> 58,
                      TimerSelect |-> 59]
ResModAddr   == [Command |-> 60, Data |-> 61, Status |-> 62, VelRAM |-> 63, PosRAM |-> 64]
PWMAddr      == [Val |-> 65, CR |-> 66, Rate |-> 67, PDMRate |-> 68, Enas |-> 69]
TPPWMAddr    == [Val |-> 70, Ena |-> 71, DZ |-> 72, Rate |-> 73]
\* Mutant: BISS grown by a register without moving the blocks that follow it.
BISSAddrGrown == [Data |-> 74, Control0 |-> 75, Control1 |-> 76, GlobalPStart |-> 78]
BISSAddr     == [Data |-> 74, Control0 |-> 75, Control1 |-> 76, GlobalPStart |-> 77]
TwiddlerAddr == [Command |-> 78, Data |-> 79, RAM |-> 80]
SPIAddr      == [Data |-> 81, BitCount |-> 82, BitRate |-> 83]
BinOscAddr   == [Ena |-> 84]
BSPIAddr     == [Data |-> 85, Descriptor |-> 86, FIFOCount |-> 87]
DBSPIAddr    == [Data |-> 88, Descriptor |-> 89, FIFOCount |-> 90]
SSerialAddr  == [Command |-> 91, Data |-> 92, RAM0 |-> 93, RAM1 |-> 94, RAM2 |-> 95,
                 RAM3 |-> 96]
UARTTAddr    == [Data |-> 97, Count |-> 98, BitRate |-> 99, ModeReg |-> 100]
UARTRAddr    == [Data |-> 101, Count |-> 102, BitRate |-> 103, ModeReg |-> 104]
SSSIAddr     == [Data0 |-> 105, Data1 |-> 106, Control |-> 107, GlobalPStart |-> 108]
DAQFIFOAddr  == [Data |-> 109, Count |-> 110, Mode |-> 111]
HM2DPLLAddr  == [BaseRate |-> 112, PhaseErr |-> 113, Control0 |-> 114, Control1 |-> 115,
                 Timer12 |-> 116, Timer34 |-> 117, Sync |-> 118]

-----------------------------------------------------------------------------
(* The decode processes.  A strobe is raised by an access of its direction *)
(* to its page, for the instance that a field of the word address selects. *)

\* A(7 downto 2), A(5 downto 2), A(4 downto 2), A(7 downto 4), A(7 downto 6); and
\* no field at all: a register the whole block shares.
A72 == [div |-> 1,  mod |-> 64]
A52 == [div |-> 1,  mod |-> 16]
A42 == [div |-> 1,  mod |-> 8]
A74 == [div |-> 4,  mod |-> 16]
A76 == [div |-> 16, mod |-> 4]
Shared == [div |-> 64, mod |-> 1]

Load == {"load"}
Read == {"read"}

Decode(tag, addr, regs, ops, field) ==
    {[tag |-> tag, reg |-> r, op |-> o, page |-> addr[r], field |-> field] :
        r \in regs, o \in ops}

CoreDecode ==
    Decode("Core", CoreAddr, {"IDROMWEn", "DMDMAMode"}, Ops, Shared)
    \cup Decode("Core", CoreAddr, {"ReadID"}, Read, Shared)
    \cup Decode("LED", CoreAddr, {"LED"}, Load, Shared)

WatchdogDecode ==
    Decode("Watchdog", WatchdogAddr, {"Time", "Status"}, Ops, Shared)
    \cup Decode("Watchdog", WatchdogAddr, {"Cookie"}, Load, Shared)

PortDecode ==
    Decode("IOPort", PortAddr, {"Port", "DDR"}, Ops, A42)
    \cup Decode("IOPort", PortAddr, {"AltDataSrc", "OpenDrainMode", "OutputInv"}, Load, A42)

\* A(15 downto 10): the ID ROM is four pages.
IDROMDecode ==
    UNION {Decode("IDROM", [IDROM |-> IDROMAddr + k], {"IDROM"}, Ops, Shared) : k \in 0 .. 3}

IRQDecode ==
    Decode("IRQ", IRQAddr, {"Status"}, Ops, Shared)
    \cup Decode("IRQ", IRQAddr, {"Clear"}, Load, Shared)

HM2DPLLDecode == Decode("HM2DPLL", HM2DPLLAddr, DOMAIN HM2DPLLAddr, Ops, Shared)

\* Mutant: step generators decoded like the blocks with sixteen words per instance.
StepGenDecodeBlocks ==
    Decode("StepGen", StepGenAddr, DOMAIN StepGenAddr \ {"BasicRate", "TimerSelect"}, Ops, A76)
    \cup Decode("StepGen", StepGenAddr, {"BasicRate", "TimerSelect"}, Ops, Shared)

StepGenDecode ==
    Decode("StepGen", StepGenAddr, DOMAIN StepGenAddr \ {"BasicRate", "TimerSelect"}, Ops, A72)
    \cup Decode("StepGen", StepGenAddr, {"BasicRate", "TimerSelect"}, Ops, Shared)

\* The counter blocks; the multiplexed one decodes the same registers elsewhere.
QCounterRegs(tag, addr) ==
    Decode(tag, addr, {"Counter", "CCR"}, Ops, A72)
    \cup Decode(tag, addr, {"TSDiv", "TimerSelect"}, Ops, Shared)
    \cup Decode(tag, addr, {"TS"}, Read, Shared)
    \cup Decode(tag, addr, {"Rate"}, Load, Shared)
QCounterDecode      == QCounterRegs("QCount", QCounterAddr)
MuxedQCounterDecode == QCounterRegs("MuxedQCount", MuxedQCounterAddr)

PWMDecode ==
    Decode("PWM", PWMAddr, {"Val", "CR"}, Load, A72)
    \cup Decode("PWM", PWMAddr, {"Rate", "PDMRate"}, Load, Shared)
    \cup Decode("PWM", PWMAddr, {"Enas"}, Ops, Shared)

TPPWMDecode ==
    Decode("TPPWM", TPPWMAddr, {"Val", "DZ"}, Load, A72)
    \cup Decode("TPPWM", TPPWMAddr, {"Ena"}, Ops, A72)
    \cup Decode("TPPWM", TPPWMAddr, {"Rate"}, Load, Shared)

SPIDecode == Decode("SPI", SPIAddr, DOMAIN SPIAddr, Ops, A52)

\* The data of an instance is a block of sixteen words, its other registers one word.
BSPIRegs(tag, addr) ==
    Decode(tag, addr, {"Data"}, Ops, A76)
    \cup Decode(tag, addr, {"Descriptor"}, Load, A52)
    \cup Decode(tag, addr, {"FIFOCount"}, Ops, A52)
BSPIDecode  == BSPIRegs("BSPI", BSPIAddr)
DBSPIDecode == BSPIRegs("DBSPI", DBSPIAddr)

SSSIDecode ==
    Decode("SSSI", SSSIAddr, {"Data0", "Control"}, Ops, A72)
    \cup Decode("SSSI", SSSIAddr, {"Data1"}, Read, A72)
    \cup Decode("SSSI", SSSIAddr, {"GlobalPStart"}, Ops, Shared)

\* A write of the third data register loads the third control register.
FAbsDecode ==
    Decode("FAbs", FAbsAddr, {"Data0", "Control0", "Control1"}, Ops, A72)
    \cup Decode("FAbs", FAbsAddr, {"Data1", "Data2"}, Read, A72)
    \cup Decode("FAbs", FAbsAddr, {"Control2"}, Load, A72)
    \cup Decode("FAbs", FAbsAddr, {"GlobalPStart"}, Ops, Shared)

BISSDecode ==
    Decode("BISS", BISSAddr, {"Data", "Control0", "Control1"}, Ops, A52)
    \cup Decode("BISS", BISSAddr, {"GlobalPStart"}, Ops, Shared)

DAQFIFODecode ==
    Decode("DAQFIFO", DAQFIFOAddr, {"Data"}, Read, A76)
    \cup Decode("DAQFIFO", DAQFIFOAddr, {"Data"}, Load, A52)
    \cup Decode("DAQFIFO", DAQFIFOAddr, {"Count", "Mode"}, Ops, A52)

\* Reading the data of a receiver pops its FIFO.
UARTRDecode ==
    Decode("UARTR", UARTRAddr, {"Data"}, Read, A74)
    \cup Decode("UARTR", UARTRAddr, {"Count", "BitRate", "ModeReg"}, Ops, A74)
UARTTDecode ==
    Decode("UARTT", UARTTAddr, {"Data"}, Load, A74)
    \cup Decode("UARTT", UARTTAddr, {"Count", "BitRate", "ModeReg"}, Ops, A74)

PktUARTRDecode ==
    Decode("PktUARTR", UARTRAddr, {"Data", "Count"}, Read, A52)
    \cup Decode("PktUARTR", UARTRAddr, {"BitRate", "ModeReg"}, Ops, A52)
PktUARTTDecode ==
    Decode("PktUARTT", UARTTAddr, {"Data"}, Load, A52)
    \cup Decode("PktUARTT", UARTTAddr, {"Count", "BitRate", "ModeReg"}, Ops, A52)

BinOscDecode  == Decode("BinOsc", BinOscAddr, {"Ena"}, Load, A52)
WaveGenDecode == Decode("WaveGen", WaveGenAddr, DOMAIN WaveGenAddr, Load, A52)

ResModDecode ==
    Decode("ResMod", ResModAddr, {"Command", "Data"}, Ops, A76)
    \cup Decode("ResMod", ResModAddr, {"Status", "VelRAM", "PosRAM"}, Read, A76)

SSerialDecode == Decode("SSerial", SSerialAddr, DOMAIN SSerialAddr, Ops, A76)

TwiddleDecode ==
    Decode("Twiddler", TwiddlerAddr, {"Command", "Data"}, Ops, A52)
    \cup Decode("Twiddler", TwiddlerAddr, {"RAM"}, Ops, A76)

ScalerDecode ==
    Decode("ScalerCounter", ScalerAddr, {"Count", "Latch"}, Read, A72)
    \cup Decode("ScalerCounter", ScalerAddr, {"Timer"}, Read, Shared)

AllDecodes ==
    CoreDecode \cup WatchdogDecode \cup PortDecode \cup IDROMDecode \cup IRQDecode
    \cup HM2DPLLDecode \cup StepGenDecode \cup QCounterDecode \cup MuxedQCounterDecode
    \cup PWMDecode \cup TPPWMDecode \cup SPIDecode \cup BSPIDecode \cup DBSPIDecode
    \cup SSSIDecode \cup FAbsDecode \cup BISSDecode \cup DAQFIFODecode \cup UARTRDecode
    \cup UARTTDecode \cup PktUARTRDecode \cup PktUARTTDecode \cup BinOscDecode
    \cup WaveGenDecode \cup ResModDecode \cup SSerialDecode \cup TwiddleDecode
    \cup ScalerDecode

\* The strobes on each page, A(15 downto 8).
OnPage == [p \in 0 .. 255 |-> {d \in AllDecodes : d.page = p}]

-----------------------------------------------------------------------------
(* What is built: a block is generated when the module ID names it, with   *)
(* the number of instances of the last descriptor that does.               *)

NumberOfModules(tag) ==
    LET named == {i \in DOMAIN ModuleID[config] : ModuleID[config][i].tag = tag}
        last  == CHOOSE i \in named : \A j \in named : j <= i
    IN  IF named = {} THEN 0 ELSE ModuleID[config][last].instances

\* The transmitters are as many as the receivers; ports are a generic of the core.
Size(tag) ==
    CASE tag \in {"Core", "IDROM", "Watchdog", "LED"} -> 1
      [] tag = "IOPort"   -> IOPorts
      [] tag = "UARTT"    -> NumberOfModules("UARTR")
      [] tag = "PktUARTT" -> NumberOfModules("PktUARTR")
      [] OTHER            -> NumberOfModules(tag)

Built(s) == Size(s.tag) > 0

\* The ID ROM is written only when it is unlocked.
Unlocked(s) == s.tag = "IDROM" /\ s.op = "load" => IDROMWEn

\* The strobes of one access (OneOfNDecode): <<block, register, instance>>.
OneOfNDecode(s, word) ==
    {<<s.tag, s.reg, i>> : i \in {j \in {(word \div s.field.div) % s.field.mod} : j < Size(s.tag)}}

Raised(op, page, word) ==
    UNION {OneOfNDecode(s, word) :
             s \in {d \in OnPage[page] : d.op = op /\ Built(d) /\ Unlocked(d)}}

-----------------------------------------------------------------------------
(* The ID ROM: sixteen words of header, three words for each of 32 module  *)
(* descriptors, and a word for each of 144 pins.                           *)

\* Mutant: the last module descriptor left out, so that everything after it moves up.
RomContentShort(w) ==
    CASE w < 16             -> <<"header", w>>
      [] w \in 16 .. 108    -> <<"module", (w - 16) \div 3, (w - 16) % 3>>
      [] OTHER              -> <<"pin", w - 109>>

RomContent(w) ==
    CASE w < 16             -> <<"header", w>>
      [] w \in 16 .. 111    -> <<"module", (w - 16) \div 3, (w - 16) % 3>>
      [] w = 112 + 125      -> <<"pin", 124>>    \* pindesc(124) is listed twice
      [] OTHER              -> <<"pin", w - 112>>

\* The word of the ID ROM that an access reaches: wadd, radd.
RomWord(page, word) == (page - IDROMAddr) * 64 + word

-----------------------------------------------------------------------------

\* No strobe is up; the address does not matter.
Idle == [op |-> "none", page |-> 0, word |-> 0]

\* IDROMWEn is a register without a reset value.
Init ==
    /\ config \in Configs
    /\ bus = Idle
    /\ strobes = {}
    /\ IDROMWEn \in BOOLEAN
    /\ patched = FALSE

\* The host reads or writes a word; a write carries a one or a zero in bit 0.
Access(op, page, word, bit) ==
    /\ bus = Idle
    /\ bus' = [op |-> op, page |-> page, word |-> word]
    /\ strobes' = Raised(op, page, word)
    /\ IDROMWEn' = IF <<"Core", "IDROMWEn", 0>> \in strobes' /\ op = "load"
                   THEN bit ELSE IDROMWEn
    /\ patched' = (patched \/ (<<"IDROM", "IDROM", 0>> \in strobes' /\ op = "load"))
    /\ UNCHANGED config

\* The bus takes the strobe away.
Release ==
    /\ bus # Idle
    /\ bus' = Idle
    /\ strobes' = {}
    /\ UNCHANGED <<config, IDROMWEn, patched>>

Next ==
    \/ \E op \in Ops, page \in Pages, word \in Words, bit \in BOOLEAN :
          Access(op, page, word, bit)
    \/ Release

Spec == Init /\ [][Next]_vars

-----------------------------------------------------------------------------
(* Properties.                                                             *)

\* Two blocks never drive obus in the same read, and a write loads at most one
\* register: the pages of all the blocks that may be built together are disjoint, and
\* the decode of a block selects one instance, one that was built (hostmot2.vhd, every
\* decode process).
OneAnswer ==
    /\ Cardinality(strobes) <= 1
    /\ \A s \in strobes : s[3] < Size(s[1])

\* The host computes the address of instance i of register r of a descriptor from
\* its base page and the strides; that address reaches register r of instance i of
\* the module named, and nothing else.  Register r of the block is the one on the
\* page r after its base, so it is enough that the block and the instance agree.
AdvertisedReached ==
    \A k \in DOMAIN ModuleID[config] :
        LET d == ModuleID[config][k] IN
        d.host /\ bus # Idle => \A r \in 0 .. d.registers - 1 :
            bus.page = d.base + r * RegStride0 => \A i \in 0 .. d.instances - 1 :
                LET inst == IF r \in d.multRegs THEN i ELSE 0
                    hit  == UNION {Raised(op, bus.page, bus.word) : op \in Ops}
                IN  bus.word = inst * InstStride0 =>
                        /\ hit # {}
                        /\ \A s \in hit : s[1] = d.tag /\ s[3] = inst

\* Where the offsets of the header say that a module descriptor or the descriptor of
\* a pin is, the ID ROM holds that descriptor, unless the host has overwritten it.
DiscoveryMatches ==
    (<<"IDROM", "IDROM", 0>> \in strobes /\ bus.op = "read" /\ ~patched) =>
        LET w == RomWord(bus.page, bus.word) IN
        /\ \A k \in 0 .. 31, j \in 0 .. 2 :
               w = OffsetToModules \div 4 + 3 * k + j => RomContent(w) = <<"module", k, j>>
        /\ \A p \in 0 .. IOWidth - 1 :
               w = OffsetToPinDesc \div 4 + p => RomContent(w) = <<"pin", p>>

=============================================================================
