----------------------------- MODULE LowLevelIO -----------------------------
(***************************************************************************)
(* The drivers of hm2-export.c that give the HostMot2 core a board on a    *)
(* parallel port, on the network or in memory.  They share no state; a load*)
(* takes one of them.                                                      *)
(***************************************************************************)
EXTENDS EppBoards, TestPattern

CONSTANTS Words, Vals, Junk, MaxQueue, MaxWire
ASSUME WordsAssumption == Words \in Nat \ {0}
ASSUME JunkAssumption == Junk \notin Vals
ASSUME BoundsAssumption == MaxQueue \in Nat \ {0} /\ MaxWire \in Nat \ {0}

VARIABLES loadedDriver,  \* "epp", "eth" or "test"
          comm_active, regs, wire, inbox, queue, queue_buff_size, wqueue,
          ethcall, issued, asked, stale, ethmissed

ethVars == <<comm_active, regs, wire, inbox, queue, queue_buff_size, wqueue,
             ethcall, issued, asked, stale, ethmissed>>

Eth == INSTANCE EthQueue WITH call <- ethcall, missed <- ethmissed

IOInit ==
  /\ loadedDriver \in {"epp", "eth", "test"}
  /\ Init /\ Eth!Init /\ TestInit
  \* The parameters and the board of a driver that is not loaded do not matter.
  /\ loadedDriver # "epp" =>
       /\ driver = "7i43" /\ \A p \in Ports : owner[p] = None
       /\ config = [s \in Slots |-> FALSE] /\ ioaddr = CHOOSE f \in [Slots -> Ports] : TRUE
  /\ loadedDriver # "eth" => regs = CHOOSE f \in [Eth!Regs -> Vals] : TRUE

IONext ==
  /\ UNCHANGED loadedDriver
  /\ \/ loadedDriver = "epp" /\ Next /\ UNCHANGED <<ethVars, testVars>>
     \/ loadedDriver = "eth" /\ Eth!Next /\ UNCHANGED <<vars, testVars>>
     \/ loadedDriver = "test" /\ TestNext /\ UNCHANGED <<vars, ethVars>>

IOSpec == IOInit /\ [][IONext]_<<loadedDriver, vars, ethVars, testVars>>
-----------------------------------------------------------------------------
IOTypeOK == TypeOK /\ Eth!TypeOK

\* The promises of the Ethernet transport: see EthQueue.
CurrentUntilTimeout == Eth!CurrentUntilTimeout
WritesApplied == Eth!WritesApplied
=============================================================================
