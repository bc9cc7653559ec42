-------------------------------- MODULE Plx ---------------------------------
(***************************************************************************)
(* Resetting and programming the FPGA of a PCI AnyIO board through its PLX *)
(* bridge: hm2_plx9030_reset, hm2_plx9030_program_fpga and the plx9054     *)
(* pair of hm2-export.c.  The HostMot2 core (external) calls reset, and    *)
(* program_fpga if that returns 0, each time the driver finds the board.   *)
(* One step of the driver is one access to the bridge; the FPGA moves in   *)
(* between.  Which pair is used follows from the PCI device.               *)
(*                                                                         *)
(* The FPGA is external.  PROGRAM low clears it and keeps /INIT and DONE   *)
(* low.  After PROGRAM goes high it clears its memory, which takes a while;*)
(* then /INIT goes high and it takes the bytes of a bitfile.  It asserts   *)
(* DONE when it has a whole one, and pulls /INIT low on a CRC error.  A    *)
(* dead board does not react to PROGRAM (stuck).  The 9054 does not show   *)
(* /INIT and may show DONE late.                                           *)
(***************************************************************************)
EXTENDS Integers

CONSTANTS Bytes,   \* bytes of a bitfile
          Polls,   \* reads of the status before the driver gives up: 3300 in
                   \* plx9030_reset, DONE_WAIT_5I22 in plx9054_program_fpga
          Delay,   \* reads that make up the delay of plx9054_reset: 3300
          MaxLoads \* bound: times the board is found

VARIABLES bridge,  \* "9030" or "9054"
          fpga,    \* "held", "clearing", "ready", "configured" or "crc"
          loaded,  \* bytes taken since it became ready
          fresh,   \* what is configured is the bitfile of the last call
          stuck,   \* PROGRAM has no effect
          shown,   \* DONE as the status register of the bridge shows it
          pc,
          count,   \* count of plx9030_reset, i of the other functions
          write,   \* 9030: the _WRITE and _LED bits, high when idle
          ret,     \* what the last finished call returned
          loads

fpgaVars == <<fpga, loaded, fresh, shown>>
vars == <<bridge, fpgaVars, stuck, pc, count, write, ret, loads>>

INIT == fpga \in {"ready", "configured"}
DONE == fpga = "configured"

Init ==
  /\ bridge \in {"9030", "9054"}
  /\ fpga \in {"held", "clearing", "ready", "configured", "crc"}
  /\ loaded = 0 /\ fresh = FALSE /\ stuck \in BOOLEAN /\ shown = DONE
  /\ pc = "idle" /\ count = 0 /\ write \in BOOLEAN
  /\ ret = "none" /\ loads = 0

-----------------------------------------------------------------------------
\* The FPGA.
Settle == shown' = (fpga' = "configured")

LowerProgram ==
  /\ fpga' = IF stuck THEN fpga ELSE "held"
  /\ loaded' = 0 /\ fresh' = FALSE /\ Settle

RaiseProgram ==
  /\ fpga' = IF ~stuck /\ fpga = "held" THEN "clearing" ELSE fpga
  /\ UNCHANGED <<loaded, fresh, shown>>

\* One byte of the bitfile on the data port; only a ready FPGA takes it.
TakeByte ==
  IF fpga = "ready"
  THEN /\ loaded' = loaded + 1
       /\ fpga' \in IF loaded + 1 = Bytes THEN {"configured", "crc"} ELSE {"ready", "crc"}
       /\ fresh' = (fpga' = "configured")
       /\ IF bridge = "9030" THEN Settle ELSE UNCHANGED shown
  ELSE UNCHANGED fpgaVars

\* The memory is clear, or the 9054 shows DONE.
FpgaMoves ==
  /\ \/ fpga = "clearing" /\ fpga' = "ready" /\ UNCHANGED shown
     \/ DONE /\ ~shown /\ shown' = TRUE /\ UNCHANGED fpga
  /\ UNCHANGED <<bridge, loaded, fresh, stuck, pc, count, write, ret, loads>>

-----------------------------------------------------------------------------
Return(r) == pc' = "idle" /\ ret' = r

\* Both resets lower PROGRAM; the one of the 9030 also lets go of the data port.
Reset ==
  /\ pc = "idle" /\ loads < MaxLoads /\ loads' = loads + 1
  /\ LowerProgram /\ write' = (bridge = "9030" \/ write)
  /\ pc' = "verify" /\ ret' = "none"
  /\ UNCHANGED <<bridge, stuck, count>>

\* Mutant: the status is not looked at before PROGRAM goes high again.
NoVerify ==
  /\ pc = "verify"
  /\ RaiseProgram
  /\ pc' = IF bridge = "9030" THEN "poll" ELSE "delay"
  /\ count' = IF bridge = "9030" THEN Polls ELSE 0
  /\ UNCHANGED <<bridge, stuck, write, ret, loads>>

Verify ==
  /\ pc = "verify"
  /\ IF shown \/ (bridge = "9030" /\ INIT)
     THEN Return("reset_failed") /\ UNCHANGED <<fpgaVars, count>>
     ELSE /\ RaiseProgram /\ UNCHANGED ret
          /\ pc' = IF bridge = "9030" THEN "poll" ELSE "delay"
          /\ count' = IF bridge = "9030" THEN Polls ELSE 0
  /\ UNCHANGED <<bridge, stuck, write, loads>>

\* Mutant: the loop condition has lost its decrement.
PollForever ==
  /\ pc = "poll"
  /\ IF INIT THEN pc' = "polled" ELSE UNCHANGED pc
  /\ UNCHANGED <<bridge, fpgaVars, stuck, count, write, ret, loads>>

\* Mutant: the loop goes on past the last count.
PollPastZero ==
  /\ pc = "poll"
  /\ pc' = IF INIT \/ count < -1 THEN "polled" ELSE "poll"
  /\ count' = IF INIT THEN count ELSE count - 1
  /\ UNCHANGED <<bridge, fpgaVars, stuck, write, ret, loads>>

\* 9030: do status = inl(..); if (status & _INIT_MASK) break; while (count-- > 0)
Poll ==
  /\ pc = "poll"
  /\ pc' = IF INIT \/ count <= 0 THEN "polled" ELSE "poll"
  /\ count' = IF INIT THEN count ELSE count - 1
  /\ UNCHANGED <<bridge, fpgaVars, stuck, write, ret, loads>>

Polled ==
  /\ pc = "polled"
  /\ Return(IF count = 0 THEN "reset_failed" ELSE "reset")
  /\ UNCHANGED <<bridge, fpgaVars, stuck, count, write, loads>>

\* 9054: the fixed delay.
Wait ==
  /\ pc = "delay"
  /\ IF count < Delay THEN count' = count + 1 /\ UNCHANGED <<pc, ret>>
                      ELSE Return("reset") /\ UNCHANGED count
  /\ UNCHANGED <<bridge, fpgaVars, stuck, write, loads>>

-----------------------------------------------------------------------------
\* program_fpga of both bridges: the 9030 needs its data port enabled.
Program ==
  /\ pc = "idle" /\ ret = "reset"
  /\ write' = (bridge = "9054" /\ write)
  /\ pc' = "send" /\ count' = 0 /\ ret' = "none"
  /\ UNCHANGED <<bridge, fpgaVars, stuck, loads>>

SendByte ==
  /\ pc = "send" /\ count < Bytes
  /\ TakeByte /\ count' = count + 1
  /\ UNCHANGED <<bridge, stuck, pc, write, ret, loads>>

\* 9030: one look at the status, and PROGRAM low if it is not right.
Check ==
  /\ pc = "send" /\ count = Bytes /\ bridge = "9030"
  /\ IF INIT /\ DONE THEN write' = TRUE /\ Return("programmed")
                     ELSE pc' = "fail" /\ UNCHANGED <<write, ret>>
  /\ UNCHANGED <<bridge, fpgaVars, stuck, count, loads>>

Fail ==
  /\ pc = "fail"
  /\ LowerProgram /\ write' = TRUE /\ Return("program_failed")
  /\ UNCHANGED <<bridge, stuck, count, loads>>

\* 9054: DONE is polled a number of times.
StartDonePoll ==
  /\ pc = "send" /\ count = Bytes /\ bridge = "9054"
  /\ pc' = "done" /\ count' = 0
  /\ UNCHANGED <<bridge, fpgaVars, stuck, write, ret, loads>>

DonePoll ==
  /\ pc = "done"
  /\ IF count < Polls /\ ~shown
     THEN count' = count + 1 /\ UNCHANGED <<pc, ret>>
     ELSE Return(IF count >= Polls THEN "program_failed" ELSE "programmed") /\ UNCHANGED count
  /\ UNCHANGED <<bridge, fpgaVars, stuck, write, loads>>

-----------------------------------------------------------------------------
Driver ==
  \/ Verify \/ Poll \/ Polled \/ Wait
  \/ SendByte \/ Check \/ Fail \/ StartDonePoll \/ DonePoll

Next == Reset \/ Program \/ Driver \/ FpgaMoves

\* A call runs to its end; nothing is assumed of the FPGA.
Spec == Init /\ [][Next]_vars /\ WF_vars(Driver)
-----------------------------------------------------------------------------
TypeOK ==
  /\ bridge \in {"9030", "9054"}
  /\ fpga \in {"held", "clearing", "ready", "configured", "crc"}
  /\ loaded \in 0 .. Bytes
  /\ fresh \in BOOLEAN /\ stuck \in BOOLEAN /\ shown \in BOOLEAN /\ write \in BOOLEAN
  /\ pc \in {"idle", "verify", "poll", "polled", "delay", "send", "fail", "done"}
  /\ \/ count \in -1 .. Polls
     \/ count \in 0 .. Bytes
     \/ count \in 0 .. Delay
  /\ ret \in {"none", "reset_failed", "reset", "programmed", "program_failed"}
  /\ loads \in 0 .. MaxLoads

(***************************************************************************)
(* program_fpga returns 0 only if the FPGA runs the bitfile of this call,  *)
(* whatever reset missed, however long the memory takes to clear, with an  *)
(* FPGA that was configured before and does not react to PROGRAM, and with *)
(* a bridge that cannot see /INIT.                                         *)
(***************************************************************************)
SuccessMeansConfigured == ret = "programmed" => DONE /\ fresh

(***************************************************************************)
(* Every call returns, even if the FPGA is never ready and never done.     *)
(***************************************************************************)
CallsReturn == pc # "idle" ~> pc = "idle"

(***************************************************************************)
(* A reset through the 9030 that returned 0 leaves the FPGA out of /INIT:  *)
(* "wait for /INIT to go high when it finishes clearing memory" and "FPGA  *)
(* did not come out of /INIT" (hm2-export.c:665, 679).                     *)
(***************************************************************************)
ResetMeansReady == pc = "idle" /\ ret = "reset" /\ bridge = "9030" => INIT
=============================================================================
