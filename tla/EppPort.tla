------------------------------ MODULE EppPort -------------------------------
(***************************************************************************)
(* Register access, programming and reset of a 7i43 through an EPP parallel*)
(* port (hm2-export.c; the 7i90 has the same read and write and no         *)
(* program_fpga or reset).  Every byte or word is an EPP cycle.  A cycle   *)
(* the board does not answer sets a flag in the port that stays set until  *)
(* hm2_7i43_epp_clear_timeout; the driver looks at it after the last cycle *)
(* of a call.  With epp_wide, words are moved by 32-bit cycles, which not  *)
(* every port does right.                                                  *)
(*                                                                         *)
(* The port, the board's CPLD and the firmware are external: the CPLD has  *)
(* the port until the FPGA is configured; then the firmware has it, which  *)
(* is HostMot2 (or the GPIO firmware, which is alike here) or other.       *)
(***************************************************************************)
EXTENDS Integers

CONSTANTS MaxCycles,  \* bound: data cycles of a read or a write
          MaxCalls    \* bound: calls
ASSUME MaxCyclesAssumption == MaxCycles \in Nat \ {0}
ASSUME MaxCallsAssumption == MaxCalls \in Nat

VARIABLES master,     \* who answers on the port: "cpld", "hostmot2" or "other"
          timeout,    \* the port's flag
          epp_wide, wideWorks,
          io_error, needs_reset,
          call,       \* the call in progress or last finished
          left,       \* its cycles still to come
          selected,   \* reset: the address cycle of this write was answered
          wrong,      \* the data read by this call is not the board's
          missed,     \* history: a cycle of this call was not answered
          ret, calls

portVars == <<master, timeout, epp_wide, wideWorks, io_error, needs_reset,
              call, left, selected, wrong, missed, ret, calls>>

Begin(c, n) ==
  /\ call' = c /\ left' = n /\ ret' = "busy"
  /\ selected' = FALSE /\ wrong' = FALSE /\ missed' = FALSE

\* One cycle, answered or not.
Cycle(answered) ==
  /\ left > 0 /\ left' = left - 1
  /\ timeout' = (timeout \/ ~answered)
  /\ missed' = (missed \/ ~answered)
  /\ UNCHANGED <<epp_wide, wideWorks, io_error, needs_reset, call, ret, calls>>

Start(c, n) ==
  /\ ret # "busy" /\ calls < MaxCalls /\ calls' = calls + 1
  /\ Begin(c, n)
  /\ UNCHANGED <<master, timeout, epp_wide, wideWorks, io_error, needs_reset>>

-----------------------------------------------------------------------------
\* The board struct after memset, the port in EPP mode and its flag cleared.
Attach ==
  /\ master' \in {"cpld", "hostmot2", "other"}
  /\ epp_wide' \in BOOLEAN /\ wideWorks' \in BOOLEAN
  /\ timeout' = FALSE /\ io_error' = FALSE /\ needs_reset' = FALSE /\ calls' = 0

\* setup reads the size of the FPGA; nobody looks at the port's flag.
DetectCycle(answered) ==
  /\ call = "detect" /\ Cycle(answered)
  /\ UNCHANGED <<master, wrong, selected>>

DetectEnd ==
  /\ call = "detect" /\ ret = "busy" /\ left = 0
  /\ ret' = "ok"
  /\ UNCHANGED <<master, timeout, epp_wide, wideWorks, io_error, needs_reset,
                 call, left, selected, wrong, missed, calls>>

-----------------------------------------------------------------------------
\* hm2_7i43_read, hm2_7i43_write: an address cycle and n data cycles; then the
\* flag is looked at and cleared.
AccessCycle(answered) ==
  /\ call \in {"read", "write", "cookie", "cookie_again"} /\ Cycle(answered)
  /\ wrong' = (wrong \/ ~answered \/ (epp_wide /\ ~wideWorks))
  /\ UNCHANGED <<master, selected>>

\* What the flag makes of an access: hm2_7i43_epp_check_for_timeout.
Checked ==
  /\ timeout' = FALSE
  /\ io_error' = (io_error \/ timeout) /\ needs_reset' = (needs_reset \/ timeout)

\* Mutant: the flag is cleared before it is looked at.
AccessEndBlind ==
  /\ call \in {"read", "write"} /\ ret = "busy" /\ left = 0
  /\ timeout' = FALSE /\ ret' = "ok"
  /\ UNCHANGED <<master, epp_wide, wideWorks, io_error, needs_reset, call, left, selected, wrong, missed, calls>>

AccessEnd ==
  /\ call \in {"read", "write"} /\ ret = "busy" /\ left = 0
  /\ Checked
  /\ ret' = IF timeout THEN "failed" ELSE "ok"
  /\ UNCHANGED <<master, epp_wide, wideWorks, call, left, selected, wrong, missed, calls>>

-----------------------------------------------------------------------------
\* hm2_7i43_program_fpga, which the HostMot2 core calls after a reset that
\* returned 0: the firmware, one byte a cycle.
StartProgram(n) == call = "reset" /\ ret = "ok" /\ Start("program", n)

ProgramCycle(answered) ==
  /\ call = "program" /\ Cycle(answered)
  /\ UNCHANGED <<master, wrong, selected>>

\* If it worked the FPGA now has the port; with epp_wide, read the cookie.
ProgramSent ==
  /\ call = "program" /\ ret = "busy" /\ left = 0
  /\ IF timeout
     THEN ret' = "failed" /\ UNCHANGED <<master, timeout, call, left, selected, wrong, missed>>
     ELSE /\ master' = IF master = "cpld" THEN "hostmot2" ELSE master
          /\ IF epp_wide
             THEN timeout' = FALSE /\ Begin("cookie", 2)
             ELSE ret' = "ok" /\ UNCHANGED <<timeout, call, left, selected, wrong, missed>>
  /\ UNCHANGED <<epp_wide, wideWorks, io_error, needs_reset, calls>>

\* Mutant: a read of the cookie that returned is taken for a right one.
CookieEndTrusting ==
  /\ call = "cookie" /\ ret = "busy" /\ left = 0
  /\ io_error' = (io_error \/ timeout) /\ needs_reset' = (needs_reset \/ timeout)
  /\ timeout' = FALSE /\ ret' = "ok"
  /\ UNCHANGED <<master, epp_wide, wideWorks, call, left, selected, wrong, missed, calls>>

\* The cookie is compared, whatever the read returned.
CookieEnd ==
  /\ call = "cookie" /\ ret = "busy" /\ left = 0
  /\ Checked
  /\ IF wrong \/ master # "hostmot2"
     THEN epp_wide' = FALSE /\ Begin("cookie_again", 5)
     ELSE ret' = "ok" /\ UNCHANGED <<epp_wide, call, left, selected, wrong, missed>>
  /\ UNCHANGED <<master, wideWorks, calls>>

\* The second answer changes nothing but what is logged.
CookieAgainEnd ==
  /\ call = "cookie_again" /\ ret = "busy" /\ left = 0
  /\ Checked /\ ret' = "ok"
  /\ UNCHANGED <<master, epp_wide, wideWorks, call, left, selected, wrong, missed, calls>>

-----------------------------------------------------------------------------
\* hm2_7i43_reset: cycles 8 down to 1 are two pairs of (address 0x7F7F, 0x5A),
\* (CPLD control register, PROG_B low), (PROG_B high), and the read of /DONE.
\* Mutant: only the CPLD's way of resetting is left.
ResetCycleCpldOnly(answered) ==
  /\ call = "reset" /\ Cycle(answered)
  /\ selected' = (answered /\ left \in {8, 6})
  /\ UNCHANGED <<master, wrong>>

ResetCycle(answered) ==
  /\ call = "reset" /\ Cycle(answered)
  /\ selected' = (answered /\ left \in {8, 6})
  /\ master' = IF master = "hostmot2" /\ selected /\ answered /\ left \in {7, 5}
               THEN "cpld" ELSE master
  /\ UNCHANGED wrong

\* With the CPLD in charge /DONE reads low; otherwise bit 0 is whatever it is.
\* The port's flag is left as it is.
ResetEnd ==
  /\ call = "reset" /\ ret = "busy" /\ left = 0
  /\ ret' \in IF master = "cpld" /\ ~missed THEN {"ok"} ELSE {"ok", "failed"}
  /\ UNCHANGED <<master, timeout, epp_wide, wideWorks, io_error, needs_reset,
                 call, left, selected, wrong, missed, calls>>

\* The user acknowledges an error; the HostMot2 core writes everything again.
Recover ==
  /\ ret # "busy" /\ io_error /\ io_error' = FALSE /\ needs_reset' = FALSE
  /\ UNCHANGED <<master, timeout, epp_wide, wideWorks, call, left, selected, wrong, missed, ret, calls>>

Within ==
  \/ \E answered \in BOOLEAN : \/ DetectCycle(answered) \/ AccessCycle(answered)
                              \/ ProgramCycle(answered) \/ ResetCycle(answered)
  \/ DetectEnd \/ AccessEnd \/ ProgramSent \/ CookieEnd \/ CookieAgainEnd \/ ResetEnd
-----------------------------------------------------------------------------
PortTypeOK ==
  /\ master \in {"cpld", "hostmot2", "other"}
  /\ timeout \in BOOLEAN /\ epp_wide \in BOOLEAN /\ wideWorks \in BOOLEAN
  /\ io_error \in BOOLEAN /\ needs_reset \in BOOLEAN
  /\ selected \in BOOLEAN /\ wrong \in BOOLEAN /\ missed \in BOOLEAN
  /\ call \in {"none", "detect", "read", "write", "program", "cookie", "cookie_again", "reset"}
  /\ left \in 0 .. 8 + MaxCycles
  /\ ret \in {"none", "busy", "ok", "failed"}
  /\ calls \in 0 .. MaxCalls

(***************************************************************************)
(* A read or a write that returns success had every cycle answered, though *)
(* only the flag is looked at and only once, and whatever earlier calls    *)
(* left in it.                                                             *)
(***************************************************************************)
SuccessMeansAnswered ==
  call \in {"read", "write"} /\ ret = "ok" => ~missed

(***************************************************************************)
(* After program_fpga has returned 0 words are moved by 32-bit cycles only *)
(* if the cookie was read right that way from HostMot2 firmware.           *)
(***************************************************************************)
WideOnlyIfProven ==
  call \in {"program", "cookie", "cookie_again"} /\ ret = "ok" /\ epp_wide =>
    wideWorks /\ master = "hostmot2" /\ ~missed

(***************************************************************************)
(* A reset whose cycles were all answered puts the CPLD in charge, whether *)
(* it was or HostMot2 had the port: "return 0 if the board has been reset" *)
(* (hm2-export.c:320).  Other firmware cannot be reset.                    *)
(***************************************************************************)
ResetReachesCpld ==
  call = "reset" /\ ret = "ok" /\ ~missed => master \in {"cpld", "other"}

=============================================================================
