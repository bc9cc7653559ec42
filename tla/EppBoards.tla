----------------------------- MODULE EppBoards ------------------------------
(***************************************************************************)
(* The parallel-port drivers of hm2-export.c, from load to unload: the 7i43*)
(* and the 7i90 have the same rtapi_app_main, setup and cleanup.  setup    *)
(* claims a port for each configured board, prepares it, and registers the *)
(* board with the HostMot2 core, which accesses it (EppPort); the first    *)
(* failure ends it and the boards before are cleaned up.  Two boards may be*)
(* given the same port, and another driver may have it.  The state of      *)
(* EppPort is that of the board set up last.                               *)
(***************************************************************************)
EXTENDS EppPort, FiniteSets

CONSTANTS MaxBoards, Ports, None
ASSUME MaxBoardsAssumption == MaxBoards \in Nat \ {0}
ASSUME NoneAssumption == None \notin 0 .. MaxBoards

Slots == 0 .. MaxBoards - 1

VARIABLES driver,          \* "7i43" or "7i90"
          config, ioaddr,  \* module parameters: which boards, on which ports
          pc, i, num_boards, hal,
          owner,           \* who has claimed each port; MaxBoards is another driver
          registered,      \* boards registered with the HostMot2 core
          overdone         \* history: a board was let go twice, or a port of another

given == <<driver, config, ioaddr>>
vars == <<portVars, given, pc, i, num_boards, hal, owner, registered, overdone>>

Init ==
  /\ driver \in {"7i43", "7i90"}
  /\ config \in [Slots -> BOOLEAN] /\ ioaddr \in [Slots -> Ports]
  /\ pc = "unloaded" /\ i = 0 /\ num_boards = 0 /\ hal = FALSE
  /\ owner \in [Ports -> {None, MaxBoards}]
  /\ registered = {} /\ overdone = FALSE
  /\ master = "cpld" /\ ret = "none" /\ call = "none" /\ left = 0 /\ calls = 0
  /\ timeout = FALSE /\ epp_wide = FALSE /\ wideWorks = FALSE
  /\ io_error = FALSE /\ needs_reset = FALSE
  /\ selected = FALSE /\ wrong = FALSE /\ missed = FALSE

\* Mutant: setup does not set num_boards to 0.
LoadKeepsCount ==
  /\ pc = "unloaded" /\ hal' = TRUE
  /\ pc' = "claim" /\ i' = 0
  /\ UNCHANGED <<portVars, given, num_boards, owner, registered, overdone>>

Load ==
  /\ pc = "unloaded" /\ hal' = TRUE
  /\ pc' = "claim" /\ i' = 0 /\ num_boards' = 0
  /\ UNCHANGED <<portVars, given, owner, registered, overdone>>

-----------------------------------------------------------------------------
\* One round of the loop in hm2_7i43_setup.
\* Mutant: a slot that is not configured is passed over.
SkipGap ==
  /\ pc = "claim" /\ (i \in Slots => ~config[i])
  /\ IF i >= MaxBoards - 1 THEN pc' = "ready" /\ UNCHANGED i
                           ELSE i' = i + 1 /\ UNCHANGED pc
  /\ UNCHANGED <<portVars, given, num_boards, hal, owner, registered, overdone>>

SetupDone ==
  /\ pc = "claim" /\ (i \in Slots => ~config[i])
  /\ pc' = "ready"
  /\ UNCHANGED <<portVars, given, i, num_boards, hal, owner, registered, overdone>>

\* The port is claimed and set up; the 7i43 is reset first.
Claim ==
  /\ pc = "claim" /\ i < MaxBoards /\ config[i]
  /\ IF owner[ioaddr[i]] = None
     THEN /\ owner' = [owner EXCEPT ![ioaddr[i]] = i]
          /\ pc' = "setup" /\ UNCHANGED i
          /\ Attach
          /\ IF driver = "7i43" THEN Begin("reset", 8) ELSE Begin("detect", 2)
     ELSE pc' = "cleanup" /\ i' = 0 /\ UNCHANGED <<owner, portVars>>
  /\ UNCHANGED <<given, num_boards, hal, registered, overdone>>

\* What the reset returned is ignored.
Detect ==
  /\ pc = "setup" /\ call = "reset" /\ ret # "busy"
  /\ Begin("detect", 2)
  /\ UNCHANGED <<master, timeout, epp_wide, wideWorks, io_error, needs_reset, calls>>
  /\ UNCHANGED <<given, pc, i, num_boards, hal, owner, registered, overdone>>

Detected ==
  /\ pc = "setup" /\ call = "detect" /\ ret # "busy"
  /\ pc' = "register"
  /\ UNCHANGED <<portVars, given, i, num_boards, hal, owner, registered, overdone>>

\* hal_parport_release.
Release(k) ==
  /\ owner' = [owner EXCEPT ![ioaddr[k]] = None]
  /\ overdone' = (overdone \/ owner[ioaddr[k]] # k)

\* Mutant: a refused board keeps its port.
RegisterKeep ==
  /\ pc = "register" /\ ret # "busy"
  /\ \/ /\ ret # "failed"
        /\ registered' = registered \cup {i} /\ num_boards' = num_boards + 1 /\ i' = i + 1
        /\ pc' = "claim" /\ UNCHANGED <<owner, overdone>>
     \/ /\ pc' = "cleanup" /\ i' = 0
        /\ UNCHANGED <<registered, num_boards, owner, overdone>>
  /\ UNCHANGED <<portVars, given, hal>>

\* hm2_register returns: it fails if an access failed, or for reasons of its own.
Register ==
  /\ pc = "register" /\ ret # "busy"
  /\ \/ /\ ret # "failed"
        /\ registered' = registered \cup {i} /\ num_boards' = num_boards + 1 /\ i' = i + 1
        /\ pc' = "claim" /\ UNCHANGED <<owner, overdone>>
     \/ /\ Release(i) /\ pc' = "cleanup" /\ i' = 0
        /\ UNCHANGED <<registered, num_boards>>
  /\ UNCHANGED <<portVars, given, hal>>

-----------------------------------------------------------------------------
\* What the HostMot2 core does with a board: it resets and programs a 7i43 in
\* hm2_register and gives up at the first failure; a loaded driver reads and
\* writes the board until an error, and again after the user cleared it.
CoreCalls ==
  \/ \E n \in 1 .. MaxCycles : Start("read", n + 1) \/ Start("write", n + 1)
  \/ /\ pc = "register" /\ driver = "7i43"
     /\ Start("reset", 8) \/ \E n \in 1 .. MaxCycles : StartProgram(n + 1)

Core ==
  /\ \/ pc = "register" /\ ret # "failed"
     \/ pc = "ready" /\ num_boards > 0 /\ ~io_error
  /\ CoreCalls
  /\ UNCHANGED <<given, pc, i, num_boards, hal, owner, registered, overdone>>

Access ==
  /\ Within
  /\ UNCHANGED <<given, pc, i, num_boards, hal, owner, registered, overdone>>

UserClears ==
  /\ pc = "ready" /\ Recover
  /\ UNCHANGED <<given, pc, i, num_boards, hal, owner, registered, overdone>>

-----------------------------------------------------------------------------
\* rtapi_app_exit of a loaded driver, and hm2_7i43_cleanup.
Exit ==
  /\ pc = "ready" /\ ret # "busy" /\ pc' = "cleanup" /\ i' = 0
  /\ UNCHANGED <<portVars, given, num_boards, hal, owner, registered, overdone>>

CleanupBoard ==
  /\ pc = "cleanup" /\ i < num_boards
  /\ registered' = registered \ {i}
  /\ Release(i)
  /\ i' = i + 1
  /\ UNCHANGED <<portVars, given, pc, num_boards, hal>>

HalExit ==
  /\ pc = "cleanup" /\ i = num_boards
  /\ hal' = FALSE /\ pc' = "unloaded"
  /\ UNCHANGED <<portVars, given, i, num_boards, owner, registered, overdone>>

Next ==
  \/ Load \/ SetupDone \/ Claim \/ Detect \/ Detected \/ Register
  \/ Core \/ Access \/ UserClears
  \/ Exit \/ CleanupBoard \/ HalExit

Spec == Init /\ [][Next]_vars
-----------------------------------------------------------------------------
TypeOK ==
  /\ PortTypeOK /\ driver \in {"7i43", "7i90"}
  /\ config \in [Slots -> BOOLEAN] /\ ioaddr \in [Slots -> Ports]
  /\ pc \in {"unloaded", "claim", "setup", "register", "ready", "cleanup"}
  /\ i \in 0 .. MaxBoards /\ num_boards \in 0 .. MaxBoards
  /\ hal \in BOOLEAN /\ overdone \in BOOLEAN
  /\ owner \in [Ports -> Slots \cup {MaxBoards, None}]
  /\ registered \subseteq Slots

(***************************************************************************)
(* Whichever board fails, and at whichever step, every board is let go     *)
(* exactly once and no port of another driver is; an unloaded driver holds *)
(* no port and no board, and boards are registered only while the HAL      *)
(* component exists.                                                       *)
(***************************************************************************)
NothingLeft ==
  /\ ~overdone
  /\ pc = "unloaded" => registered = {} /\ \A p \in Ports : owner[p] \notin Slots
  /\ registered # {} => hal

(***************************************************************************)
(* A driver that is ready drives all boards up to the first slot that is   *)
(* not configured, each on its own port, and no other board.               *)
(***************************************************************************)
AllOrNothing ==
  pc = "ready" => \A k \in Slots :
    /\ k \in registered <=> \A j \in 0 .. k : config[j]
    /\ k \in registered => owner[ioaddr[k]] = k
=============================================================================
