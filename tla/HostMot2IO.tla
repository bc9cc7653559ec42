----------------------------- MODULE HostMot2IO -----------------------------
(***************************************************************************)
(* The safety core of hm2/hostmot2.vhd: the watchdog and the I/O ports on  *)
(* one clock (clklow) and one bus.  The watchdog's bite is the clear of    *)
(* every port.  A step is one clock, in which the host writes at most one  *)
(* register (the decoders compare one address).                            *)
(*                                                                         *)
(* Three history variables say what the host did and when:                 *)
(*   sincePet  clocks since the timer was last reloaded (up to MaxAge)     *)
(*   loaded    the value it was reloaded with                              *)
(*   enabled   pins the host enabled, by DDR or open drain, since the last *)
(*             bite reached the ports                                      *)
(***************************************************************************)
EXTENDS Watchdog, IOPort

VARIABLES sincePet, loaded, enabled

history == <<sincePet, loaded, enabled>>
vars == <<wdtimer, wdtime, wdstatus, oldwdtimermsb, wdbite,
          outreg, ddrreg, altdatasel, opendrainsel, invertsel,
          sincePet, loaded, enabled>>

MaxAge == 2 * Half + 2

Init ==
  /\ WdInit
  /\ IoInit
  /\ sincePet = 0
  /\ loaded = Half
  /\ enabled = [p \in Ports |-> {}]

Older == sincePet' = IF sincePet < MaxAge THEN sincePet + 1 ELSE sincePet
Aged  == Older /\ UNCHANGED loaded
Pet(w) == sincePet' = 0 /\ loaded' = w

\* A request made in the clock of the clear is dropped with the rest.
Enable(p, bits) ==
  enabled' = IF wdbite THEN [q \in Ports |-> {}]
             ELSE [enabled EXCEPT ![p] = @ \cup bits]
NoEnable == enabled' = IF wdbite THEN [q \in Ports |-> {}] ELSE enabled

-----------------------------------------------------------------------------
Idle == NoWrite /\ IoIdle(wdbite) /\ Aged /\ NoEnable

WriteTime(w)    == LoadTime(w) /\ IoIdle(wdbite) /\ Pet(w) /\ NoEnable
WriteCookie(ok) == Cookie(ok) /\ IoIdle(wdbite) /\ NoEnable
                   /\ IF ok THEN Pet(wdtime) ELSE Aged
WriteStatus(b)  == LoadStatus(b) /\ IoIdle(wdbite) /\ Aged /\ NoEnable

WritePort(p, bits) == NoWrite /\ LoadPort(p, bits, wdbite) /\ Aged /\ NoEnable
WriteDDR(p, bits)  == NoWrite /\ LoadDDR(p, bits, wdbite) /\ Aged /\ Enable(p, bits)
WriteAltDataSrc(p, bits) ==
  NoWrite /\ LoadAltDataSrc(p, bits, wdbite) /\ Aged /\ NoEnable
WriteOpenDrainMode(p, bits) ==
  NoWrite /\ LoadOpenDrainMode(p, bits, wdbite) /\ Aged /\ Enable(p, bits)
WriteOutputInv(p, bits) == NoWrite /\ LoadInvert(p, bits, wdbite) /\ Aged /\ NoEnable

Next ==
  \/ Idle
  \/ \E w \in Word : WriteTime(w)
  \/ \E b \in BOOLEAN : WriteCookie(b) \/ WriteStatus(b)
  \/ \E p \in Ports, bits \in SUBSET Pins :
       \/ WritePort(p, bits)
       \/ WriteDDR(p, bits)
       \/ WriteAltDataSrc(p, bits)
       \/ WriteOpenDrainMode(p, bits)
       \/ WriteOutputInv(p, bits)

Spec == Init /\ [][Next]_vars

-----------------------------------------------------------------------------
TypeOK ==
  /\ WdTypeOK
  /\ IoTypeOK
  /\ sincePet \in 0 .. MaxAge
  /\ loaded \in Word
  /\ enabled \in [Ports -> SUBSET Pins]

(***************************************************************************)
(* A pin is driven only if the host enabled it after the last bite: the    *)
(* bite turns every output of every port off, also in open drain mode, and *)
(* a write that reaches the port in the same clock does not survive it.    *)
(***************************************************************************)
DrivenOnlyIfEnabled ==
  \A p \in Ports, i \in Pins : Driven(p, i) => i \in enabled[p]

(***************************************************************************)
(* The bite is never late: if the timer counts from a value that the host  *)
(* loaded and nobody reloads it, the bite comes at the clock the value     *)
(* promises.  Writes to any other register, and a cookie whose top byte is *)
(* wrong, do not postpone it.                                              *)
(***************************************************************************)
BiteOnTime == [][loaded < Half /\ sincePet = loaded + 1 => wdbite']_vars

(***************************************************************************)
(* The bite is never early: there is none before the loaded time has       *)
(* passed, however the host's writes fall, and one expiry is one bite.     *)
(***************************************************************************)
NoEarlyBite ==
  [][wdbite' => \/ loaded < Half /\ sincePet = loaded + 1
                \/ loaded >= Half /\ sincePet = 0]_vars
=============================================================================
