----------------------------- MODULE PciBoards ------------------------------
(***************************************************************************)
(* The PCI driver with what happens inside hm2_register: the HostMot2 core *)
(* (external) resets and programs the FPGA through the functions the probe *)
(* has put into llio, if the board has them and the load named a firmware  *)
(* for the slot (config[num_boards], hm2-export.c:1893), looks at what the *)
(* board runs, and registers or refuses it.  The bus lets other callbacks  *)
(* wait until the probe is over.                                           *)
(***************************************************************************)
EXTENDS PciDriver

CONSTANTS Bridge,  \* the PLX bridge of each device; "none": 5i24, 5i25, 6i25
          Bytes, Polls, Delay
ASSUME LoopsAssumption ==
  Bytes \in Nat \ {0} /\ Polls \in Nat \ {0} /\ Delay \in Nat \ {0}
ASSUME BridgeAssumption == Bridge \in [Devs -> {"9030", "9054", "none"}]

VARIABLES probing,   \* the device hm2_register is at work on
          firmware,  \* slots for which the load named a firmware
          running,   \* devices whose FPGA runs the firmware of their registration
          bridge, fpga, loaded, fresh, stuck, shown, step, count, write, ret, loads

plxVars == <<bridge, fpga, loaded, fresh, stuck, shown, step, count, write, ret, loads>>
boardVars == <<vars, probing, firmware, running, plxVars>>

P == INSTANCE Plx WITH pc <- step, MaxLoads <- 1

\* Between probes no FPGA is looked at.
AtRest ==
  /\ bridge = "9030" /\ fpga = "held" /\ loaded = 0 /\ fresh = FALSE
  /\ stuck = FALSE /\ shown = FALSE /\ step = "idle" /\ count = 0
  /\ write = TRUE /\ ret = "none" /\ loads = 0

LookAway ==
  /\ bridge' = "9030" /\ fpga' = "held" /\ loaded' = 0 /\ fresh' = FALSE
  /\ stuck' = FALSE /\ shown' = FALSE /\ step' = "idle" /\ count' = 0
  /\ write' = TRUE /\ ret' = "none" /\ loads' = 0

BoardsInit ==
  /\ Init /\ AtRest
  /\ probing = None /\ firmware \in SUBSET Slots /\ running = {}

-----------------------------------------------------------------------------
ToProgram(d) == Bridge[d] # "none" /\ num_boards \in firmware

\* hm2_register is entered: the board runs anything, or is dead.
Begin(d) ==
  /\ probing = None /\ probing' = d
  /\ Offered(d) /\ KnownBoard(d) /\ num_boards < HM2_PCI_MAX_BOARDS
  /\ bridge' = IF Bridge[d] = "9054" THEN "9054" ELSE "9030"
  /\ fpga' \in {"held", "clearing", "ready", "configured", "crc"} /\ stuck' \in BOOLEAN
  /\ loaded' = 0 /\ fresh' = FALSE /\ shown' = (fpga' = "configured")
  /\ step' = "idle" /\ count' = 0 /\ write' \in BOOLEAN
  /\ IF ToProgram(d) THEN ret' = "none" /\ loads' = 0
                     ELSE ret' = "programmed" /\ loads' = 1
  /\ running' = running \ {d}
  /\ UNCHANGED <<vars, firmware>>

\* The core's calls, and the FPGA meanwhile.
InRegister == probing # None /\ UNCHANGED <<vars, probing, firmware, running>>
Call == InRegister /\ (P!Reset \/ P!Program \/ P!Driver)
FpgaMoves == InRegister /\ P!FpgaMoves

\* hm2_register returns: a board that could not be programmed is refused, one
\* that could be may still be.
End(d) ==
  /\ probing = d /\ step = "idle" /\ probing' = None
  /\ \/ /\ ret = "programmed" /\ Accepted(d)
        /\ running' = IF P!DONE /\ fresh THEN running \cup {d} ELSE running
     \/ /\ ret \in {"programmed", "reset_failed", "program_failed"} /\ Refused(d)
        /\ UNCHANGED running
  /\ todo' = todo \ {d}
  /\ LookAway
  /\ UNCHANGED <<pc, hal, present, firmware>>

\* Everything else.
Elsewhere ==
  /\ probing = None
  /\ \/ Otherwise
     \/ \E d \in Devs : /\ Offered(d) /\ EndsEarly(d) /\ todo' = todo \ {d}
                        /\ UNCHANGED <<pc, hal, present>>
  /\ UNCHANGED <<probing, firmware, running, plxVars>>

BoardsNext ==
  Elsewhere \/ Call \/ FpgaMoves \/ \E d \in Devs : Begin(d) \/ End(d)

\* The calls run to their ends; nothing is assumed of the FPGA or the bus.
BoardsSpec ==
  /\ BoardsInit /\ [][BoardsNext]_boardVars
  /\ WF_boardVars(Call) /\ WF_boardVars(\E d \in Devs : End(d))
-----------------------------------------------------------------------------
BoardsTypeOK ==
  /\ TypeOK /\ P!TypeOK
  /\ probing \in Devs \cup {None} /\ firmware \subseteq Slots /\ running \subseteq Devs

(***************************************************************************)
(* Every registered board for which the load named a firmware runs that    *)
(* firmware, loaded in this registration: not the one it came with, nor    *)
(* one a reset failed to clear, nor half of one, whatever the bridge shows *)
(* of the FPGA and however often boards went and came.                     *)
(***************************************************************************)
BoardsRun ==
  \A s \in registered :
    Bridge[board[s].dev] # "none" /\ s \in firmware => board[s].dev \in running

(***************************************************************************)
(* Every probe ends, even if the FPGA is never ready and never done: each  *)
(* polling loop of reset and program_fpga is bounded.                      *)
(***************************************************************************)
ProbesEnd == probing # None ~> probing = None
=============================================================================
