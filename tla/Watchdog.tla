------------------------------ MODULE Watchdog ------------------------------
(***************************************************************************)
(* hm2/watchdog.vhd: the HostMot2 watchdog.  A down counter wdtimer counts *)
(* while its top bit is clear; the rising edge of that bit is the bite,    *)
(* which every I/O port sees as "clear" (hm2/hostmot2.vhd).                *)
(*                                                                         *)
(* One step is one rising edge of clklow.  The host reaches the registers  *)
(* through one address bus, so at most one write strobe is active per      *)
(* clock; NoWrite is a clock without one.                                  *)
(*                                                                         *)
(* A bus word is a number; Half is the weight of its top bit (2^31 in the  *)
(* hardware), so a word w has its top bit set iff w >= Half.               *)
(***************************************************************************)
EXTENDS Integers

CONSTANT Half
ASSUME HalfAssumption == Half \in Nat \ {0}

Word == 0 .. (2 * Half - 1)

VARIABLES wdtimer,        \* the counter
          wdtime,         \* what a cookie reloads; no reset value
          wdstatus,       \* the latched bite the host reads and clears
          oldwdtimermsb,  \* top bit of wdtimer one clock ago
          wdbite          \* the one-clock pulse the ports see

wdvars == <<wdtimer, wdtime, wdstatus, oldwdtimermsb, wdbite>>

wdtimermsb == wdtimer >= Half
BiteEdge   == wdtimermsb /\ ~oldwdtimermsb

WdInit ==
  /\ wdtimer = Half
  /\ wdtime \in Word
  /\ wdstatus = FALSE
  /\ oldwdtimermsb = FALSE
  /\ wdbite = FALSE

\* Mutant: the bite is a level, not an edge.
EdgeDetectLevel == oldwdtimermsb' = wdtimermsb /\ wdbite' = wdtimermsb

\* What every clock does, whatever the host writes.
EdgeDetect ==
  /\ oldwdtimermsb' = wdtimermsb
  /\ wdbite' = BiteEdge

\* Mutant: the counter goes below zero instead of wrapping.
CountDownNoWrap == wdtimer' = IF wdtimermsb THEN wdtimer ELSE wdtimer - 1

CountDown ==
  wdtimer' = IF wdtimermsb THEN wdtimer
             ELSE IF wdtimer = 0 THEN 2 * Half - 1 ELSE wdtimer - 1

\* The bite is assigned last: it overrides a status write of the same clock.
Status(written) == wdstatus' = (BiteEdge \/ written)

NoWrite ==
  /\ EdgeDetect /\ CountDown /\ Status(wdstatus)
  /\ UNCHANGED wdtime

LoadTime(w) ==
  /\ EdgeDetect /\ Status(wdstatus)
  /\ wdtimer' = w
  /\ wdtime' = w

\* Mutant: the cookie is not compared.
CookieAny(is5A) ==
  EdgeDetect /\ Status(wdstatus) /\ wdtimer' = wdtime /\ UNCHANGED wdtime

\* A write to the cookie register reloads the timer iff its top byte is 5A.
Cookie(is5A) ==
  /\ EdgeDetect /\ Status(wdstatus)
  /\ IF is5A THEN wdtimer' = wdtime ELSE CountDown
  /\ UNCHANGED wdtime

LoadStatus(bit) ==
  /\ EdgeDetect /\ CountDown /\ Status(bit)
  /\ UNCHANGED wdtime

WdTypeOK ==
  /\ wdtimer \in Word
  /\ wdtime \in Word
  /\ wdstatus \in BOOLEAN
  /\ oldwdtimermsb \in BOOLEAN
  /\ wdbite \in BOOLEAN
=============================================================================
