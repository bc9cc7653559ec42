------------------------------ MODULE Hm2RegIO ------------------------------
(***************************************************************************)
(* ip/hm2reg_io: the Avalon slave between the HPS bridge and HostMot2.     *)
(*                                                                         *)
(* The interconnect (external, from the timing the component declares in   *)
(* hm2reg_io_hw.tcl) holds address and data through Setup clocks, asserts  *)
(* the strobe for WriteWait + 1 (ReadWait + 1) clocks and holds them for   *)
(* Hold more.  hm2reg_io passes address and strobes on combinationally but *)
(* registers the data: in the first clock of a write strobe HostMot2 sees  *)
(* the word of the PREVIOUS write at the address of this one.  HostMot2    *)
(* has no reset and loads the addressed register in every strobed clock.   *)
(*                                                                         *)
(* A step is one bus clock.  written and doubt are history: the word of    *)
(* the last completed write of each register, and the registers whose last *)
(* write a reset cut short.                                                *)
(***************************************************************************)
EXTENDS Integers

CONSTANTS Addr, Data, Zero,                \* Zero is the word outdata is reset to
          Setup, WriteWait, ReadWait, Hold \* clocks, from hm2reg_io_hw.tcl
ASSUME DataAssumption == Zero \in Data
ASSUME TimingAssumption ==
  /\ Setup \in Nat \ {0} /\ Hold \in Nat \ {0}
  /\ WriteWait \in Nat \ {0} /\ ReadWait \in Nat \ {0}

VARIABLES phase,            \* of the access: idle, setup, strobe, hold
          left,             \* clocks left in the phase, this one included
          isread, slave_address, slave_writedata,
          indata, outdata,  \* the two registers of hm2reg_io
          reg,              \* HostMot2's registers
          result,           \* what the master got from the last read
          written, doubt

vars == <<phase, left, isread, slave_address, slave_writedata, indata, outdata,
          reg, result, written, doubt>>
access == <<isread, slave_address, slave_writedata>>

Init ==
  /\ phase = "idle" /\ left = 0 /\ isread = FALSE
  /\ slave_address \in Addr /\ slave_writedata \in Data
  /\ indata = Zero /\ outdata = Zero
  /\ reg \in [Addr -> Data] /\ written = reg
  /\ result = Zero
  /\ doubt = {}

con_write_out == phase = "strobe" /\ ~isread
con_read_out  == phase = "strobe" /\ isread

\* One clock of hm2reg_io's registers: a read strobe goes before a write strobe.
BridgeClock ==
  /\ indata' = IF con_read_out THEN reg[slave_address] ELSE indata
  /\ outdata' = IF con_write_out THEN slave_writedata ELSE outdata

\* One clock of the addressed HostMot2 register.
TargetClock ==
  reg' = IF con_write_out THEN [reg EXCEPT ![slave_address] = outdata] ELSE reg

Clock == BridgeClock /\ TargetClock

-----------------------------------------------------------------------------
Begin(read, a, d) ==
  /\ phase = "idle"
  /\ Clock
  /\ phase' = "setup" /\ left' = Setup
  /\ isread' = read /\ slave_address' = a /\ slave_writedata' = d
  /\ UNCHANGED <<result, written, doubt>>

\* Mutant: the phase counter does not stop.
WaitForever ==
  /\ phase # "idle"
  /\ Clock
  /\ left' = left - 1
  /\ UNCHANGED <<access, phase, result, written, doubt>>

Wait ==
  /\ left > 1
  /\ Clock
  /\ left' = left - 1
  /\ UNCHANGED <<access, phase, result, written, doubt>>

\* Mutants: a wait state less for writes, none for writes, none for reads.
ClockShortWrite == IF isread THEN ReadWait + 1 ELSE WriteWait
OneClockWrite == IF isread THEN ReadWait + 1 ELSE 1
OneClockRead  == IF isread THEN 1 ELSE WriteWait + 1

StrobeClocks == IF isread THEN ReadWait + 1 ELSE WriteWait + 1

Strobe ==
  /\ phase = "setup" /\ left = 1
  /\ Clock
  /\ phase' = "strobe" /\ left' = StrobeClocks
  /\ UNCHANGED <<access, result, written, doubt>>

\* The last clock of the strobe: the master takes readdata at its end.
EndStrobe ==
  /\ phase = "strobe" /\ left = 1
  /\ Clock
  /\ phase' = "hold" /\ left' = Hold
  /\ result' = IF isread THEN indata ELSE result
  /\ written' = IF isread THEN written
                ELSE [written EXCEPT ![slave_address] = slave_writedata]
  /\ doubt' = IF isread THEN doubt ELSE doubt \ {slave_address}
  /\ UNCHANGED access

EndAccess ==
  /\ phase = "hold" /\ left = 1
  /\ Clock
  /\ phase' = "idle" /\ left' = 0
  /\ UNCHANGED <<access, result, written, doubt>>

\* The HPS resets interconnect and bridge; HostMot2 still sees this clock's strobe.
Reset ==
  /\ indata' = Zero /\ outdata' = Zero
  /\ TargetClock
  /\ phase' = "idle" /\ left' = 0
  /\ doubt' = IF con_write_out THEN doubt \cup {slave_address} ELSE doubt
  /\ UNCHANGED <<access, result, written>>

Next ==
  \/ \E r \in BOOLEAN, a \in Addr, d \in Data : Begin(r, a, d)
  \/ Wait \/ Strobe \/ EndStrobe \/ EndAccess \/ Reset

Spec == Init /\ [][Next]_vars

-----------------------------------------------------------------------------
TypeOK ==
  /\ phase \in {"idle", "setup", "strobe", "hold"}
  /\ left \in Nat
  /\ isread \in BOOLEAN /\ slave_address \in Addr /\ slave_writedata \in Data
  /\ indata \in Data /\ outdata \in Data /\ result \in Data
  /\ reg \in [Addr -> Data] /\ written \in [Addr -> Data]
  /\ doubt \subseteq Addr

(***************************************************************************)
(* Although the first strobed clock loads the word of an earlier write,    *)
(* every register outside a running write strobe holds the word of its own *)
(* last write, unless a reset cut that write short: the wait states the    *)
(* component declares are what makes the registered data path correct.     *)
(***************************************************************************)
WritesLand ==
  \A a \in Addr \ doubt :
    (con_write_out /\ a = slave_address) \/ reg[a] = written[a]

(***************************************************************************)
(* A read returns the word the register holds, never one sampled for an    *)
(* earlier access or a reset value.                                        *)
(***************************************************************************)
ReadsAreCurrent ==
  [][phase = "strobe" /\ isread /\ phase' = "hold" => result' = reg[slave_address]]_vars
=============================================================================
