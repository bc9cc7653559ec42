---------------------------- MODULE MCRegisterMap ----------------------------
(***************************************************************************)
(* Instance of RegisterMap: the two configurations of hm2/pins, and two    *)
(* with every block the core can be built with at once, one for each kind  *)
(* of UART (IDROMConst.vhd: the two kinds share their addresses and are    *)
(* not used together).  Counters with a multiplexed index mask are left    *)
(* out: they share the strobes of the other multiplexed counters.          *)
(***************************************************************************)
EXTENDS RegisterMap

Module(tag, n, base, registers, multRegs) ==
    [tag |-> tag, instances |-> n, base |-> base, registers |-> registers,
     multRegs |-> multRegs, host |-> TRUE]

\* pins/PIN_DRINGx2_34.vhd, the configuration hostmot2.vhd uses.
DRINGx2_34 ==
    << Module("Watchdog", 1, 12, 3, {}),
       Module("IOPort",   2, 16, 5, 0 .. 4),
       Module("StepGen",  8, 32, 10, 0 .. 8),
       Module("PWM",      2, 65, 5, {0, 1}),
       Module("LED",      1, 2, 1, {}) >>

\* pins/PIN_SV8NA.vhd
SV8NA ==
    << Module("Watchdog", 1, 12, 3, {}),
       Module("IOPort",   2, 16, 5, 0 .. 4),
       Module("QCount",   8, 48, 5, {0, 1}),
       Module("PWM",      8, 65, 5, {0, 1}),
       Module("LED",      1, 2, 1, {}) >>

\* No pin file of the repository says how the host addresses these blocks.
Unaddressed(tag, n) == [tag |-> tag, instances |-> n, host |-> FALSE]

Everything(receiver) ==
    << Unaddressed("IRQ", 1), Unaddressed("HM2DPLL", 1), Unaddressed("StepGen", 8),
       Unaddressed("QCount", 8), Unaddressed("MuxedQCount", 8), Unaddressed("PWM", 8),
       Unaddressed("TPPWM", 4), Unaddressed("SPI", 2), Unaddressed("BSPI", 4),
       Unaddressed("DBSPI", 4), Unaddressed("SSSI", 4), Unaddressed("FAbs", 4),
       Unaddressed("BISS", 4), Unaddressed("DAQFIFO", 2), Unaddressed("BinOsc", 2),
       Unaddressed("WaveGen", 2), Unaddressed("ResMod", 2), Unaddressed("SSerial", 4),
       Unaddressed("Twiddler", 2), Unaddressed("ScalerCounter", 2),
       Unaddressed(receiver, 8) >>

MCConfigs  == {"DRINGx2_34", "SV8NA", "AllWithUART", "AllWithPktUART"}
MCModuleID == [DRINGx2_34 |-> DRINGx2_34, SV8NA |-> SV8NA,
               AllWithUART |-> Everything("UARTR"), AllWithPktUART |-> Everything("PktUARTR")]

\* Every page that is decoded and some that are not; the words of the first eight
\* instances, the first and last word of a block of sixteen, the last word.
MCPages == 0 .. 127
MCWords == (0 .. 8) \cup {15, 16, 48, 63}
=============================================================================
