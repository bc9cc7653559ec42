------------------------------- MODULE IOPort -------------------------------
(***************************************************************************)
(* hm2/wordpr.vhd: the output registers of the I/O ports, one instance per *)
(* port (hm2/hostmot2.vhd, makeoports).  A register with one bit per pin   *)
(* is the set of pins whose bit is 1.  "clear" is the watchdog's bite.     *)
(*                                                                         *)
(* The address decoder selects one register of one port per clock, so each *)
(* action below writes one of them and does what the clock does to the     *)
(* rest.                                                                   *)
(***************************************************************************)
EXTENDS Integers

CONSTANTS Ports, Pins

VARIABLES outreg,        \* data the host wrote
          ddrreg,        \* pins enabled as push-pull outputs
          altdatasel,    \* pins that show a module's output instead of outreg
          opendrainsel,  \* pins driven as open drain
          invertsel      \* pins whose data is inverted

ioregs == <<outreg, ddrreg, altdatasel, opendrainsel, invertsel>>

\* outreg has no reset value: the FPGA may come up with any content.
IoInit ==
  /\ outreg \in [Ports -> SUBSET Pins]
  /\ ddrreg = [p \in Ports |-> {}]
  /\ altdatasel = [p \in Ports |-> {}]
  /\ opendrainsel = [p \in Ports |-> {}]
  /\ invertsel = [p \in Ports |-> {}]

\* Mutant: the load is assigned after the clear, so it survives.
ClearBeforeLoad(reg, loaded, clear) ==
  IF clear /\ loaded = reg THEN [p \in Ports |-> {}] ELSE loaded

\* clear is the last assignment of the process: it beats a load of the same clock.
Clearable(reg, loaded, clear) == IF clear THEN [p \in Ports |-> {}] ELSE loaded

IoClock(clear, ddr, opendrain) ==
  /\ ddrreg' = Clearable(ddrreg, ddr, clear)
  /\ opendrainsel' = Clearable(opendrainsel, opendrain, clear)

IoIdle(clear) ==
  /\ IoClock(clear, ddrreg, opendrainsel)
  /\ UNCHANGED <<outreg, altdatasel, invertsel>>

LoadPort(p, bits, clear) ==
  /\ outreg' = [outreg EXCEPT ![p] = bits]
  /\ IoClock(clear, ddrreg, opendrainsel)
  /\ UNCHANGED <<altdatasel, invertsel>>

LoadDDR(p, bits, clear) ==
  /\ IoClock(clear, [ddrreg EXCEPT ![p] = bits], opendrainsel)
  /\ UNCHANGED <<outreg, altdatasel, invertsel>>

LoadAltDataSrc(p, bits, clear) ==
  /\ altdatasel' = [altdatasel EXCEPT ![p] = bits]
  /\ IoClock(clear, ddrreg, opendrainsel)
  /\ UNCHANGED <<outreg, invertsel>>

LoadOpenDrainMode(p, bits, clear) ==
  /\ IoClock(clear, ddrreg, [opendrainsel EXCEPT ![p] = bits])
  /\ UNCHANGED <<outreg, altdatasel, invertsel>>

LoadInvert(p, bits, clear) ==
  /\ invertsel' = [invertsel EXCEPT ![p] = bits]
  /\ IoClock(clear, ddrreg, opendrainsel)
  /\ UNCHANGED <<outreg, altdatasel>>

\* The data of a pin: the register or the module's output, then the inverter.
tdata(p, i, altdata) ==
  (i \in invertsel[p]) # (i \in IF i \in altdatasel[p] THEN altdata ELSE outreg[p])

\* What the pin's output buffer does: "0", "1", or "Z" (not driven).
tsoutreg(p, i, altdata) ==
  LET data == tdata(p, i, altdata) IN
  IF i \in opendrainsel[p]
  THEN IF data THEN "Z" ELSE "0"
  ELSE IF i \in ddrreg[p] THEN (IF data THEN "1" ELSE "0") ELSE "Z"

\* Some output of the modules makes the port drive the pin.
Driven(p, i) == \E altdata \in SUBSET {i} : tsoutreg(p, i, altdata) # "Z"

IoTypeOK ==
  /\ outreg \in [Ports -> SUBSET Pins]
  /\ ddrreg \in [Ports -> SUBSET Pins]
  /\ altdatasel \in [Ports -> SUBSET Pins]
  /\ opendrainsel \in [Ports -> SUBSET Pins]
  /\ invertsel \in [Ports -> SUBSET Pins]
=============================================================================
