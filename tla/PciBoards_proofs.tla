-------------------------- MODULE PciBoards_proofs --------------------------
(***************************************************************************)
(* Proofs about the PCI driver, for every set of devices, number of slots, *)
(* length of a bitfile and bound of a polling loop: first PciDriver, with  *)
(* any device, then PciBoards, whose boards are reset and programmed, and  *)
(* which implements it.                                                    *)
(***************************************************************************)
EXTENDS PciBoards, TLAPS

-----------------------------------------------------------------------------
(***************************************************************************)
(* A counted slot is free or holds a bound device with its own mapping; a  *)
(* bound device is in a counted slot, and in one only.  The slot of a      *)
(* refused board is not counted, so that what it still says of the device  *)
(* is never read.                                                          *)
(***************************************************************************)
Counted == {s \in Slots : s < num_boards}

Slotted ==
  /\ \A s \in Counted : board[s].dev \in bound \cup {None} /\ board[s].base = board[s].dev
  /\ \A s, t \in Counted : board[s].dev = board[t].dev /\ board[s].dev # None => s = t
  /\ \A d \in bound : \E s \in Counted : board[s].dev = d
  /\ registered = {s \in Counted : board[s].dev # None}

Held ==
  /\ NothingLeft
  /\ pc = "unloaded" => bound = {}
  /\ pc \in {"probing", "running"} => hal

IInv == TypeOK /\ Slotted /\ Held

-----------------------------------------------------------------------------
LEMMA SlottedOwnSlot == IInv => OwnSlot
<1> SUFFICES ASSUME IInv PROVE OwnSlot
  OBVIOUS
<1> USE DevsAssumption, MaxAssumption DEF IInv, TypeOK, Slotted, Counted, Holding, Free
<1>1. ASSUME NEW d \in bound
      PROVE  \E s \in Slots : Holding(d) = {s} /\ board[s].base = d
  <2>1. d # None
    OBVIOUS
  <2>2. PICK s \in Counted : board[s].dev = d
    OBVIOUS
  <2>3. board[s].base = d
    BY <2>1, <2>2
  <2>4. Holding(d) = {s}
    BY <2>1, <2>2
  <2> QED BY <2>2, <2>3, <2>4
<1>2. registered = UNION {Holding(d) : d \in bound}
  <2>1. ASSUME NEW s \in registered PROVE s \in UNION {Holding(d) : d \in bound}
    <3>1. s \in Counted /\ board[s].dev \in bound
      BY <2>1
    <3> QED BY <3>1
  <2>2. ASSUME NEW d \in bound, NEW s \in Holding(d) PROVE s \in registered
    BY <2>2
  <2> QED BY <2>1, <2>2
<1> QED BY <1>1, <1>2 DEF OwnSlot

LEMMA FreeBoards ==
  [s \in Slots |-> Free] \in [Slots -> [dev : Devs \cup {None}, base : Devs \cup {None}]]
<1>1. Free \in [dev : Devs \cup {None}, base : Devs \cup {None}]
  BY DEF Free
<1> QED BY <1>1

LEMMA InitInv == Init => IInv
<1> SUFFICES ASSUME Init PROVE IInv
  OBVIOUS
<1>1. Counted = {}
  BY MaxAssumption DEF Init, Counted, Slots
<1>2. TypeOK
  <2>1. num_boards \in 0 .. HM2_PCI_MAX_BOARDS
    BY MaxAssumption DEF Init
  <2>2. bound \subseteq present /\ todo \subseteq present /\ present \subseteq Devs
    BY DEF Init
  <2> QED BY <2>1, <2>2, FreeBoards DEF Init, TypeOK
<1>3. Slotted
  BY <1>1 DEF Init, Slotted
<1>4. Held
  BY DEF Init, Held, NothingLeft
<1> QED BY <1>2, <1>3, <1>4 DEF IInv

-----------------------------------------------------------------------------
(***************************************************************************)
(* A device that is not bound is probed.                                   *)
(***************************************************************************)
LEMMA AcceptedInv ==
  ASSUME IInv, NEW d \in Devs, d \in present \ bound, Accepted(d), pc # "unloaded", hal,
         UNCHANGED <<pc, hal, present>>, todo' = todo \ {d}
  PROVE  IInv'
<1> USE DevsAssumption, MaxAssumption DEF IInv, TypeOK, Slots
<1>1. /\ num_boards \in Slots /\ num_boards' = num_boards + 1
      /\ board' = [board EXCEPT ![num_boards] = [dev |-> d, base |-> d]]
      /\ bound' = bound \cup {d} /\ registered' = registered \cup {num_boards}
  BY DEF Accepted
<1>2. TypeOK'
  BY DEF Accepted
<1>3. Counted' = Counted \cup {num_boards} /\ num_boards \notin Counted
  BY <1>1 DEF Counted
<1>4. /\ board'[num_boards] = [dev |-> d, base |-> d]
      /\ \A s \in Counted : board'[s] = board[s]
  BY <1>1 DEF Counted
<1>5. \A s \in Counted : board[s].dev # d
  BY DEF Slotted, Free
<1>6. Slotted'
  <2>1. (\A s \in Counted : board[s].dev \in bound \cup {None}
                            /\ board[s].base = board[s].dev)'
    BY <1>1, <1>3, <1>4 DEF Slotted, Free
  <2>2. (\A s, t \in Counted : board[s].dev = board[t].dev /\ board[s].dev # None => s = t)'
    BY <1>3, <1>4, <1>5 DEF Slotted
  <2>3. (\A e \in bound : \E s \in Counted : board[s].dev = e)'
    BY <1>1, <1>3, <1>4 DEF Slotted
  <2>4. (registered = {s \in Counted : board[s].dev # None})'
    BY <1>1, <1>3, <1>4 DEF Slotted
  <2> QED BY <2>1, <2>2, <2>3, <2>4 DEF Slotted
<1>7. Held'
  BY DEF Held, NothingLeft, Accepted
<1> QED BY <1>2, <1>6, <1>7

(***************************************************************************)
(* A probe that ends early, or is refused, writes at most the first slot   *)
(* that is not counted.                                                    *)
(***************************************************************************)
LEMMA NotAcceptedInv ==
  ASSUME IInv, NEW d \in Devs, EndsEarly(d) \/ Refused(d),
         UNCHANGED <<pc, hal, present>>, todo' = todo \ {d}
  PROVE  IInv'
<1> USE DevsAssumption, MaxAssumption DEF IInv, TypeOK, Slots
<1>1. /\ UNCHANGED <<num_boards, registered, mapped, bound>>
      /\ \/ enabled' = enabled
         \/ enabled' = enabled \cup {d} /\ d \in UnknownSubsystem
  BY DEF EndsEarly, Skip, EarlyFailure, UnknownBoard, Refused
<1>2. /\ board' \in [Slots -> [dev : Devs \cup {None}, base : Devs \cup {None}]]
      /\ failed_errno' \in BOOLEAN
      /\ \A s \in Counted : board'[s] = board[s]
  <2>1. CASE Skip(d) \/ UnknownBoard(d)
    BY <2>1 DEF Skip, UnknownBoard
  <2>2. CASE EarlyFailure(d)
    <3>1. CASE UNCHANGED board
      BY <2>2, <3>1 DEF EarlyFailure
    <3>2. CASE board' = [board EXCEPT ![num_boards].base = None]
      BY <2>2, <3>2 DEF EarlyFailure, Counted
    <3> QED BY <2>2, <3>1, <3>2 DEF EarlyFailure
  <2>3. CASE Refused(d)
    BY <2>3 DEF Refused, Counted
  <2> QED BY <2>1, <2>2, <2>3 DEF EndsEarly
<1>3. TypeOK'
  BY <1>1, <1>2
<1>4. Counted' = Counted
  BY <1>1 DEF Counted
<1>5. Slotted'
  <2>1. (\A s \in Counted : board[s].dev \in bound \cup {None}
                            /\ board[s].base = board[s].dev)'
    BY <1>1, <1>2, <1>4 DEF Slotted
  <2>2. (\A s, t \in Counted : board[s].dev = board[t].dev /\ board[s].dev # None => s = t)'
    BY <1>2, <1>4 DEF Slotted
  <2>3. (\A e \in bound : \E s \in Counted : board[s].dev = e)'
    BY <1>1, <1>2, <1>4 DEF Slotted
  <2>4. (registered = {s \in Counted : board[s].dev # None})'
    BY ZenonT(30), <1>1, <1>2, <1>4 DEF Slotted
  <2> QED BY <2>1, <2>2, <2>3, <2>4 DEF Slotted
<1>6. Held'
  BY <1>1 DEF Held, NothingLeft
<1> QED BY <1>3, <1>5, <1>6

(***************************************************************************)
(* hm2_pci_remove of a bound device: its only slot is freed.               *)
(***************************************************************************)
LEMMA RemoveInv ==
  ASSUME IInv, NEW d \in bound, Remove(d),
         UNCHANGED <<pc, hal, num_boards, failed_errno>>,
         \/ UNCHANGED <<present, todo>>
         \/ present' = present \ {d} /\ todo' = todo \ {d}
  PROVE  IInv'
<1> USE DevsAssumption, MaxAssumption DEF IInv, TypeOK, Slots
<1>1. PICK s \in Counted : board[s].dev = d
  BY DEF Slotted
<1>2. d # None /\ board[s].base = d
  BY <1>1 DEF Slotted, Free
<1>3. Holding(d) = {s}
  BY <1>1, <1>2 DEF Slotted, Holding, Counted
<1>4. /\ registered' = registered \ {s} /\ mapped' = mapped \ {d}
      /\ enabled' = enabled \ {d} /\ bound' = bound \ {d}
      /\ board' = [t \in Slots |-> IF t = s THEN Free ELSE board[t]]
  BY <1>2, <1>3 DEF Remove
<1>5. TypeOK'
  BY <1>4 DEF Free
<1>6. Counted' = Counted
  BY DEF Counted
<1>7. /\ board'[s].dev = None /\ board'[s].base = None
      /\ \A t \in Counted \ {s} : board'[t] = board[t] /\ board[t].dev # d
  BY <1>1, <1>2, <1>4 DEF Slotted, Counted, Free
<1>8. Slotted'
  <2> HIDE DEF IInv, TypeOK, Slots
  <2>0. Slotted
    BY DEF IInv
  <2>1. (\A t \in Counted : board[t].dev \in bound \cup {None}
                            /\ board[t].base = board[t].dev)'
    BY <1>4, <1>6, <1>7, <2>0 DEF Slotted
  <2>2. (\A t, u \in Counted : board[t].dev = board[u].dev /\ board[t].dev # None => t = u)'
    BY <1>6, <1>7, <2>0 DEF Slotted
  <2>3. (\A e \in bound : \E t \in Counted : board[t].dev = e)'
    BY <1>1, <1>4, <1>6, <1>7, <2>0 DEF Slotted
  <2>4. (registered = {t \in Counted : board[t].dev # None})'
    BY <1>4, <1>6, <1>7, <2>0 DEF Slotted
  <2> QED BY <2>1, <2>2, <2>3, <2>4 DEF Slotted
<1>9. Held'
  BY <1>4 DEF Held, NothingLeft
<1> QED BY <1>5, <1>8, <1>9

(***************************************************************************)
(* Every other action leaves the slots alone, but a load, which finds no   *)
(* device bound.                                                           *)
(***************************************************************************)
LEMMA LoadInv == IInv /\ Load => IInv'
<1> SUFFICES ASSUME IInv, Load PROVE IInv'
  OBVIOUS
<1> USE DevsAssumption, MaxAssumption DEF IInv, TypeOK, Slots, Load
<1>1. bound = {} /\ bound' = {}
  BY DEF Held
<1>2. Counted' = {}
  BY DEF Counted
<1>3. registered = {}
  BY <1>1 DEF Slotted
<1>4. TypeOK'
  <2>1. board' \in [Slots -> [dev : Devs \cup {None}, base : Devs \cup {None}]]
    BY FreeBoards
  <2>2. /\ num_boards' \in 0 .. HM2_PCI_MAX_BOARDS /\ registered' \subseteq Slots
        /\ bound' \subseteq present' /\ todo' \subseteq present' /\ present' \subseteq Devs
        /\ mapped' \subseteq Devs /\ enabled' \subseteq Devs
    OBVIOUS
  <2>3. pc' = "probing" /\ hal' = TRUE /\ failed_errno' = FALSE
    OBVIOUS
  <2> HIDE DEF IInv, Load
  <2> QED BY <2>1, <2>2, <2>3
<1>5. Slotted'
  BY <1>1, <1>2, <1>3 DEF Slotted
<1>6. Held'
  BY <1>1, <1>3 DEF Held, NothingLeft
<1> QED BY <1>4, <1>5, <1>6

LEMMA SameSlots ==
  ASSUME IInv, UNCHANGED <<num_boards, board, registered, mapped, enabled, bound>>,
         TypeOK', Held'
  PROVE  IInv'
<1>1. Counted' = Counted
  BY DEF Counted
<1> QED BY <1>1 DEF IInv, Slotted

LEMMA OtherwiseInv == IInv /\ Otherwise => IInv'
<1> SUFFICES ASSUME IInv, Otherwise PROVE IInv'
  OBVIOUS
<1> USE DEF IInv, TypeOK, Held, NothingLeft
<1>1. CASE Load
  BY <1>1, LoadInv
<1>2. registered # {} => bound # {}
  BY DEF Slotted
<1>3. CASE Decide
  BY <1>3, SameSlots DEF Decide
<1>4. CASE Exit
  BY <1>4, SameSlots DEF Exit
<1>5. CASE Unloaded
  BY <1>2, <1>5, SameSlots DEF Unloaded
<1>6. ASSUME NEW d \in Devs, Unregister(d) PROVE IInv'
  BY <1>6, RemoveInv DEF Unregister
<1>7. ASSUME NEW d \in Devs, Plug(d) PROVE IInv'
  BY <1>7, SameSlots DEF Plug
<1>8. ASSUME NEW d \in Devs, Unplug(d) PROVE IInv'
  <2>1. CASE d \in bound
    BY <1>8, <2>1, RemoveInv DEF Unplug
  <2>2. CASE d \notin bound
    BY <1>8, <2>2, SameSlots DEF Unplug
  <2> QED BY <2>1, <2>2
<1> QED BY <1>1, <1>3, <1>4, <1>5, <1>6, <1>7, <1>8 DEF Otherwise

LEMMA StepInv == IInv /\ [Next]_vars => IInv'
<1> SUFFICES ASSUME IInv, [Next]_vars PROVE IInv'
  OBVIOUS
<1>1. CASE Otherwise
  BY <1>1, OtherwiseInv
<1>2. ASSUME NEW d \in Devs, Probe(d) PROVE IInv'
  <2>1. d \in present \ bound /\ pc # "unloaded" /\ hal
    BY <1>2 DEF Probe, Offered, IInv, TypeOK, Held
  <2>2. CASE EndsEarly(d) \/ Refused(d)
    BY <1>2, <2>2, NotAcceptedInv DEF Probe
  <2>3. CASE Accepted(d)
    BY <1>2, <2>1, <2>3, AcceptedInv DEF Probe
  <2> QED BY <1>2, <2>2, <2>3 DEF Probe
<1>3. CASE UNCHANGED vars
  BY <1>3, SameSlots DEF vars, IInv, TypeOK, Held, NothingLeft
<1> QED BY <1>1, <1>2, <1>3 DEF Next

THEOREM Inductive == Spec => []IInv
  BY InitInv, StepInv, PTL DEF Spec

(***************************************************************************)
(* A bound device has one counted slot, its own, and exactly those slots   *)
(* are registered, after any sequence of probes, removals and loads.       *)
(***************************************************************************)
THEOREM OwnSlotAlways == Spec => []OwnSlot
  BY Inductive, SlottedOwnSlot, PTL

(***************************************************************************)
(* The driver holds nothing of a device that it is not bound to.           *)
(***************************************************************************)
THEOREM NothingLeftAlways == Spec => []NothingLeft
<1>1. IInv => NothingLeft
  BY DEF IInv, Held
<1> QED BY <1>1, Inductive, PTL

-----------------------------------------------------------------------------
(***************************************************************************)
(* The device that hm2_register is at work on is still offered, and there  *)
(* is a slot for it: nothing of the driver moves meanwhile.                *)
(***************************************************************************)
Awaited ==
  probing # None =>
    /\ probing \in Devs /\ KnownBoard(probing)
    /\ Offered(probing) /\ num_boards < HM2_PCI_MAX_BOARDS

LEMMA AwaitedStep == Awaited /\ [BoardsNext]_boardVars => Awaited'
<1> SUFFICES ASSUME Awaited, [BoardsNext]_boardVars PROVE Awaited'
  OBVIOUS
<1>1. CASE UNCHANGED <<vars, probing>>
  BY <1>1 DEF Awaited, vars, KnownBoard, Offered
<1>2. CASE Elsewhere
  BY <1>2 DEF Elsewhere, Awaited
<1>3. ASSUME NEW d \in Devs, Begin(d) PROVE Awaited'
  BY <1>3 DEF Begin, Awaited, vars, KnownBoard, Offered
<1>4. ASSUME NEW d \in Devs, End(d) PROVE Awaited'
  BY <1>4 DEF End, Awaited
<1> QED BY <1>1, <1>2, <1>3, <1>4 DEF BoardsNext, Call, FpgaMoves, InRegister, boardVars

(***************************************************************************)
(* With hm2_register in steps, the driver still behaves as PciDriver says. *)
(***************************************************************************)
LEMMA DriverStep == Awaited /\ [BoardsNext]_boardVars => [Next]_vars
<1> SUFFICES ASSUME Awaited, [BoardsNext]_boardVars PROVE [Next]_vars
  OBVIOUS
<1>1. CASE Elsewhere
  BY <1>1 DEF Elsewhere, Next, Probe
<1>2. ASSUME NEW d \in Devs, End(d) PROVE Next
  <2>1. d # None /\ probing = d
    BY <1>2, DevsAssumption DEF End
  <2> QED BY <1>2, <2>1 DEF End, Awaited, Next, Probe
<1>3. CASE \/ \E d \in Devs : Begin(d)
           \/ Call \/ FpgaMoves \/ UNCHANGED boardVars
  BY <1>3 DEF Begin, Call, FpgaMoves, InRegister, boardVars
<1> QED BY <1>1, <1>2, <1>3 DEF BoardsNext

THEOREM BoardsImplementDriver == BoardsSpec => Spec
<1>1. BoardsInit => Init /\ Awaited
  BY DEF BoardsInit, Awaited
<1> QED BY <1>1, AwaitedStep, DriverStep, PTL DEF BoardsSpec, Spec

(***************************************************************************)
(* Slots and what is held of the devices are right although other devices  *)
(* wait, come and go while a board is programmed.                          *)
(***************************************************************************)
THEOREM BoardsKeepSlots == BoardsSpec => []OwnSlot /\ []NothingLeft
  BY BoardsImplementDriver, OwnSlotAlways, NothingLeftAlways, PTL

-----------------------------------------------------------------------------
(***************************************************************************)
(* After the reset was verified a configured FPGA has the bitfile of this  *)
(* registration; the verification looks at a status that is up to date,    *)
(* because lowering PROGRAM made it so.                                    *)
(***************************************************************************)
Verified == step \in {"poll", "polled", "delay", "send", "done"} \/ ret = "reset"

Fresh ==
  /\ shown => P!DONE
  /\ probing # None /\ ToProgram(probing) =>
       /\ step = "verify" /\ P!DONE => shown
       /\ Verified /\ P!DONE => fresh
       /\ ret = "programmed" => P!DONE /\ fresh
       /\ step # "idle" => ret = "none"

\* The loops count in integers.
LEMMA CountStep == count \in Int /\ [BoardsNext]_boardVars => count' \in Int
<1> SUFFICES ASSUME count \in Int, [BoardsNext]_boardVars PROVE count' \in Int
  OBVIOUS
<1>1. CASE Call \/ FpgaMoves
  BY <1>1, LoopsAssumption
     DEF Call, FpgaMoves, P!Reset, P!Program, P!FpgaMoves, P!Driver, P!Verify, P!Poll,
         P!Polled, P!Wait, P!SendByte, P!Check, P!Fail, P!StartDonePoll, P!DonePoll
<1>2. CASE Elsewhere \/ UNCHANGED boardVars
  BY <1>2 DEF Elsewhere, boardVars, plxVars
<1>3. CASE \E d \in Devs : Begin(d) \/ End(d)
  BY <1>3 DEF Begin, End, LookAway
<1> QED BY <1>1, <1>2, <1>3 DEF BoardsNext

\* One access of the driver to the bridge.
LEMMA DriverFresh ==
  ASSUME Fresh, count \in Int, P!Driver, UNCHANGED <<probing, firmware, num_boards>>
  PROVE  Fresh'
<1> USE LoopsAssumption
    DEF Fresh, Verified, P!DONE, P!INIT, ToProgram, P!fpgaVars, P!Return
<1>1. CASE P!Verify
  BY <1>1 DEF P!Verify, P!RaiseProgram
<1>2. CASE P!Poll
  BY <1>2 DEF P!Poll
<1>3. CASE P!Polled
  BY <1>3 DEF P!Polled
<1>4. CASE P!Wait
  BY <1>4 DEF P!Wait
<1>5. CASE P!SendByte
  BY <1>5 DEF P!SendByte, P!TakeByte, P!Settle
<1>6. CASE P!Check
  BY <1>6 DEF P!Check
<1>7. CASE P!Fail
  BY <1>7 DEF P!Fail, P!LowerProgram, P!Settle
<1>8. CASE P!StartDonePoll
  BY <1>8 DEF P!StartDonePoll
<1>9. CASE P!DonePoll
  BY <1>9 DEF P!DonePoll
<1> QED BY <1>1, <1>2, <1>3, <1>4, <1>5, <1>6, <1>7, <1>8, <1>9 DEF P!Driver

\* A call of the core, an access of the driver or a move of the FPGA.
LEMMA ProgramFresh ==
  ASSUME Fresh, count \in Int, P!Reset \/ P!Program \/ P!Driver \/ P!FpgaMoves,
         UNCHANGED <<probing, firmware, num_boards>>
  PROVE  Fresh'
<1> USE DEF Fresh, Verified, P!DONE, ToProgram, P!fpgaVars
<1>1. CASE P!Reset
  BY <1>1 DEF P!Reset, P!LowerProgram, P!Settle
<1>2. CASE P!Program
  BY <1>2 DEF P!Program
<1>3. CASE P!FpgaMoves
  BY <1>3 DEF P!FpgaMoves
<1> QED BY <1>1, <1>2, <1>3, DriverFresh

LEMMA FreshStep == Fresh /\ count \in Int /\ [BoardsNext]_boardVars => Fresh'
<1> SUFFICES ASSUME Fresh, count \in Int, [BoardsNext]_boardVars PROVE Fresh'
  OBVIOUS
<1>1. CASE Call \/ FpgaMoves
  <2>1. UNCHANGED <<probing, firmware, num_boards>>
    BY <1>1 DEF Call, FpgaMoves, InRegister, vars
  <2> QED BY <1>1, <2>1, ProgramFresh DEF Call, FpgaMoves
<1>2. CASE Elsewhere
  BY <1>2 DEF Elsewhere, Fresh, Verified, plxVars, P!DONE
<1>3. ASSUME NEW d \in Devs, Begin(d) PROVE Fresh'
  BY <1>3 DEF Begin, Fresh, Verified, ToProgram, vars, P!DONE
<1>4. ASSUME NEW d \in Devs, End(d) PROVE Fresh'
  BY <1>4 DEF End, LookAway, Fresh, Verified, P!DONE
<1>5. CASE UNCHANGED boardVars
  BY <1>5 DEF boardVars, plxVars, vars, Fresh, Verified, ToProgram, P!DONE
<1> QED BY <1>1, <1>2, <1>3, <1>4, <1>5 DEF BoardsNext

-----------------------------------------------------------------------------
(***************************************************************************)
(* What the steps of BoardsSpec keep together: the slots (a board that is  *)
(* probed is in none, so that Begin may forget what it ran), the device    *)
(* that is awaited, and the FPGA behind what reset and program_fpga return.*)
(***************************************************************************)
BInv == IInv /\ Awaited /\ count \in Int /\ Fresh /\ BoardsRun

LEMMA BoardsRunStep == BInv /\ [BoardsNext]_boardVars => BoardsRun'
<1> SUFFICES ASSUME BInv, [BoardsNext]_boardVars PROVE BoardsRun'
  OBVIOUS
<1> USE DEF BInv, BoardsRun, Counted
<1>1. CASE Call \/ FpgaMoves \/ UNCHANGED boardVars
  BY <1>1 DEF Call, FpgaMoves, InRegister, boardVars, vars
<1>2. CASE Elsewhere
  <2>1. UNCHANGED <<running, firmware>>
    BY <1>2 DEF Elsewhere
  <2>2. CASE UNCHANGED <<board, registered>>
    BY <2>1, <2>2
  <2>3. CASE Load
    <3>1. registered' = {}
      BY <2>3 DEF Load, IInv, TypeOK, Held, Slotted
    <3> QED BY <3>1
  <2>4. ASSUME NEW d \in Devs, Remove(d) PROVE BoardsRun'
    BY <2>1, <2>4 DEF Remove, IInv, TypeOK
  <2>5. ASSUME NEW d \in Devs, EarlyFailure(d) PROVE BoardsRun'
    <3>1. \A s \in registered : s # num_boards
      BY DEF IInv, Slotted, TypeOK, Slots
    <3>2. registered' = registered /\ \A s \in registered : board'[s] = board[s]
      BY <2>5, <3>1 DEF EarlyFailure, IInv, TypeOK
    <3> QED BY <2>1, <3>2
  <2> QED BY <1>2, <2>2, <2>3, <2>4, <2>5
          DEF Elsewhere, Otherwise, Decide, Exit, Unloaded, Unregister, Plug, Unplug,
              EndsEarly, Skip, UnknownBoard
<1>3. ASSUME NEW d \in Devs, Begin(d) PROVE BoardsRun'
  <2>1. d \notin bound
    BY <1>3 DEF Begin, Offered
  <2>2. \A s \in registered : board[s].dev # d
    BY <2>1 DEF IInv, Slotted
  <2> QED BY <1>3, <2>2 DEF Begin, vars
<1>4. ASSUME NEW d \in Devs, End(d) PROVE BoardsRun'
  <2>1. d # None /\ probing = d /\ num_boards \in Slots /\ UNCHANGED firmware
    BY <1>4, DevsAssumption, MaxAssumption DEF End, Awaited, IInv, TypeOK, Slots
  <2>2. \A s \in registered : s # num_boards
    BY DEF IInv, Slotted, TypeOK, Slots
  <2>3. CASE Refused(d) /\ UNCHANGED running
    BY <2>1, <2>2, <2>3 DEF Refused, IInv, TypeOK
  <2>4. CASE ret = "programmed" /\ Accepted(d)
             /\ running' = IF P!DONE /\ fresh THEN running \cup {d} ELSE running
    <3>1. ToProgram(d) => d \in running'
      BY <2>1, <2>4 DEF Fresh
    <3>2. registered' = registered \cup {num_boards} /\ board'[num_boards].dev = d
      BY <2>1, <2>4 DEF Accepted, IInv, TypeOK
    <3>3. \A s \in registered : board'[s] = board[s]
      BY <2>2, <2>4 DEF Accepted, IInv, TypeOK
    <3> QED BY <2>1, <2>4, <3>1, <3>2, <3>3 DEF ToProgram
  <2> QED BY <1>4, <2>3, <2>4 DEF End
<1> QED BY <1>1, <1>2, <1>3, <1>4 DEF BoardsNext

(***************************************************************************)
(* Every registered board with a named firmware runs it, whatever its      *)
(* bridge shows, whatever its FPGA does, and however boards come and go.   *)
(***************************************************************************)
THEOREM BoardsRunAlways == BoardsSpec => []BoardsRun
<1>1. BoardsInit => BInv
  <2>1. BoardsInit => IInv /\ Awaited
    BY InitInv DEF BoardsInit, Awaited
  <2>2. BoardsInit => count \in Int /\ Fresh /\ BoardsRun
    BY DEF BoardsInit, AtRest, Init, Fresh, Verified, BoardsRun, P!DONE
  <2> QED BY <2>1, <2>2 DEF BInv
<1>2. BInv /\ [BoardsNext]_boardVars => BInv'
  BY AwaitedStep, DriverStep, StepInv, CountStep, FreshStep, BoardsRunStep DEF BInv
<1>3. BInv => BoardsRun
  BY DEF BInv
<1> QED BY <1>1, <1>2, <1>3, PTL DEF BoardsSpec

-----------------------------------------------------------------------------
(***************************************************************************)
(* Types.  The FPGA takes bytes only until it has a whole bitfile, and     *)
(* after it was cleared begins again; each loop has a range for its count. *)
(***************************************************************************)
FpgaTyped ==
  /\ fpga \in {"held", "clearing", "ready", "configured", "crc"}
  /\ loaded \in 0 .. Bytes
  /\ fresh \in BOOLEAN /\ stuck \in BOOLEAN /\ shown \in BOOLEAN
  /\ fpga \in {"held", "clearing"} => loaded = 0
  /\ fpga = "ready" => loaded < Bytes

CountTyped ==
  /\ count \in -1 .. Polls \/ count \in 0 .. Bytes \/ count \in 0 .. Delay
  /\ step \in {"poll", "done"} => count \in 0 .. Polls
  /\ step = "delay" => count \in 0 .. Delay
  /\ step = "send" => count \in 0 .. Bytes

CallTyped ==
  /\ bridge \in {"9030", "9054"} /\ write \in BOOLEAN
  /\ step \in {"idle", "verify", "poll", "polled", "delay", "send", "fail", "done"}
  /\ ret \in {"none", "reset_failed", "reset", "programmed", "program_failed"}
  /\ loads \in 0 .. 1

ProbeTyped ==
  probing \in Devs \cup {None} /\ firmware \subseteq Slots /\ running \subseteq Devs

BTyped == FpgaTyped /\ CountTyped /\ CallTyped /\ ProbeTyped

LEMMA FpgaTypedStep ==
  ASSUME FpgaTyped, P!Reset \/ P!Program \/ P!Driver \/ P!FpgaMoves
  PROVE  FpgaTyped'
<1> USE LoopsAssumption DEF FpgaTyped
<1>1. CASE UNCHANGED <<fpga, loaded, fresh, stuck, shown>>
  BY <1>1
<1>2. CASE P!LowerProgram /\ UNCHANGED stuck
  <2>1. fpga' \in {fpga, "held"} /\ loaded' = 0 /\ fresh' = FALSE
        /\ shown' = (fpga' = "configured")
    BY <1>2 DEF P!LowerProgram, P!Settle
  <2>2. shown' \in BOOLEAN /\ 0 \in 0 .. Bytes /\ 0 < Bytes
    BY <2>1
  <2> QED BY <1>2, <2>1, <2>2
<1>3. CASE P!RaiseProgram /\ UNCHANGED stuck
  BY <1>3 DEF P!RaiseProgram
<1>4. CASE P!TakeByte /\ UNCHANGED stuck
  <2>1. CASE fpga # "ready"
    BY <1>4, <2>1 DEF P!TakeByte, P!fpgaVars
  <2>2. CASE fpga = "ready"
    <3>1. /\ loaded' = loaded + 1 /\ fresh' = (fpga' = "configured")
          /\ shown' = shown \/ shown' = (fpga' = "configured")
          /\ fpga' \in {"configured", "crc", "ready"}
          /\ fpga' = "ready" => loaded' # Bytes
      BY <1>4, <2>2 DEF P!TakeByte, P!Settle
    <3>2. loaded' \in 0 .. Bytes /\ (fpga' = "ready" => loaded' < Bytes)
      BY <2>2, <3>1
    <3>3. fresh' \in BOOLEAN /\ shown' \in BOOLEAN
      BY <3>1
    <3> QED BY <1>4, <3>1, <3>2, <3>3
  <2> QED BY <2>1, <2>2
<1>5. CASE P!FpgaMoves
  <2>1. CASE fpga = "clearing" /\ fpga' = "ready" /\ UNCHANGED shown
    BY <1>5, <2>1 DEF P!FpgaMoves
  <2>2. CASE shown' = TRUE /\ UNCHANGED fpga
    BY <1>5, <2>2 DEF P!FpgaMoves
  <2> QED BY <1>5, <2>1, <2>2 DEF P!FpgaMoves
<1> QED BY <1>1, <1>2, <1>3, <1>4, <1>5
        DEF P!Reset, P!Program, P!Driver, P!Verify, P!Poll, P!Polled, P!Wait, P!SendByte,
            P!Check, P!Fail, P!StartDonePoll, P!DonePoll, P!fpgaVars

LEMMA CallTypedStep ==
  ASSUME CallTyped, P!Reset \/ P!Program \/ P!Driver \/ P!FpgaMoves
  PROVE  CallTyped'
<1> USE DEF CallTyped, P!Return
<1>1. CASE P!Reset
  <2>1. loads' \in 0 .. 1 /\ write' \in BOOLEAN
    BY <1>1 DEF P!Reset
  <2> QED BY <1>1, <2>1 DEF P!Reset
<1>2. CASE P!Program
  <2>1. write' \in BOOLEAN
    BY <1>2 DEF P!Program
  <2> QED BY <1>2, <2>1 DEF P!Program
<1>3. CASE P!FpgaMoves
  BY <1>3 DEF P!FpgaMoves
<1>4. CASE P!Verify \/ P!Poll \/ P!Polled \/ P!Wait
  BY <1>4 DEF P!Verify, P!Poll, P!Polled, P!Wait
<1>5. CASE P!SendByte \/ P!Check \/ P!Fail \/ P!StartDonePoll \/ P!DonePoll
  BY <1>5 DEF P!SendByte, P!Check, P!Fail, P!StartDonePoll, P!DonePoll
<1> QED BY <1>1, <1>4, <1>5, <1>2, <1>3 DEF P!Driver

LEMMA CountTypedStep ==
  ASSUME CountTyped, P!Reset \/ P!Program \/ P!Driver \/ P!FpgaMoves
  PROVE  CountTyped'
<1> USE LoopsAssumption DEF CountTyped, P!Return
<1>1. CASE P!Reset \/ P!FpgaMoves \/ P!Check \/ P!Fail
  BY <1>1 DEF P!Reset, P!FpgaMoves, P!Check, P!Fail
<1>2. CASE P!Program \/ P!StartDonePoll
  <2>1. count' = 0 /\ step' \in {"send", "done"}
    BY <1>2 DEF P!Program, P!StartDonePoll
  <2> QED BY <2>1
<1>3. CASE P!Verify
  <2>1. \/ step' = "idle" /\ count' = count
        \/ step' = "poll" /\ count' = Polls
        \/ step' = "delay" /\ count' = 0
    BY <1>3 DEF P!Verify
  <2> QED BY <2>1
<1>4. CASE P!Poll \/ P!Polled
  BY <1>4 DEF P!Poll, P!Polled
<1>5. CASE P!Wait
  BY <1>5 DEF P!Wait
<1>6. CASE P!SendByte
  BY <1>6 DEF P!SendByte
<1>7. CASE P!DonePoll
  BY <1>7 DEF P!DonePoll
<1> QED BY <1>1, <1>2, <1>3, <1>4, <1>5, <1>6, <1>7 DEF P!Driver

LEMMA BTypedStep == BTyped /\ [BoardsNext]_boardVars => BTyped'
<1> SUFFICES ASSUME BTyped, [BoardsNext]_boardVars PROVE BTyped'
  OBVIOUS
<1>1. CASE Call \/ FpgaMoves
  <2>1. UNCHANGED <<probing, firmware, running>>
    BY <1>1 DEF Call, FpgaMoves, InRegister
  <2> QED BY <1>1, <2>1, FpgaTypedStep, CallTypedStep, CountTypedStep
          DEF Call, FpgaMoves, BTyped, ProbeTyped, Slots
<1>2. CASE Elsewhere \/ UNCHANGED boardVars
  <2>1. UNCHANGED <<probing, firmware, running, plxVars>>
    BY <1>2 DEF Elsewhere, boardVars
  <2> QED BY <2>1 DEF plxVars, BTyped, ProbeTyped, Slots, FpgaTyped, CountTyped, CallTyped
<1>3. ASSUME NEW d \in Devs, Begin(d) PROVE BTyped'
  <2>1. ProbeTyped'
    BY <1>3 DEF Begin, BTyped, ProbeTyped, Slots
  <2>2. CallTyped'
    <3>1. loads' \in 0 .. 1 /\ ret' \in {"none", "programmed"}
      BY <1>3 DEF Begin
    <3> QED BY <1>3, <3>1 DEF Begin, CallTyped
  <2>3. CountTyped'
    BY <1>3, LoopsAssumption DEF Begin, CountTyped
  <2>4. FpgaTyped'
    <3>1. 0 \in 0 .. Bytes /\ 0 < Bytes
      BY LoopsAssumption
    <3> QED BY <1>3, <3>1 DEF Begin, FpgaTyped
  <2> QED BY <2>1, <2>2, <2>3, <2>4 DEF BTyped
<1>4. ASSUME NEW d \in Devs, End(d) PROVE BTyped'
  <2>1. ProbeTyped' /\ LookAway
    BY <1>4 DEF End, BTyped, ProbeTyped, Slots
  <2>2. 0 \in 0 .. Bytes /\ 0 \in 0 .. Polls /\ 0 \in 0 .. 1
    BY LoopsAssumption
  <2>3. FpgaTyped' /\ CountTyped'
    BY <2>1, <2>2 DEF LookAway, FpgaTyped, CountTyped
  <2>4. CallTyped'
    BY <2>1, <2>2 DEF LookAway, CallTyped
  <2> QED BY <2>1, <2>3, <2>4 DEF BTyped
<1> QED BY <1>1, <1>2, <1>3, <1>4 DEF BoardsNext

(***************************************************************************)
(* Every variable of the PCI driver keeps its type: no loop counts out of  *)
(* its range and no FPGA takes more bytes than a bitfile has.              *)
(***************************************************************************)
THEOREM BoardsTyped == BoardsSpec => []BoardsTypeOK
<1>1. BoardsInit => BTyped
  <2> SUFFICES ASSUME BoardsInit PROVE BTyped
    OBVIOUS
  <2>1. AtRest /\ ProbeTyped
    BY DEF BoardsInit, ProbeTyped
  <2>2. 0 \in 0 .. Bytes /\ 0 \in 0 .. Polls /\ 0 \in 0 .. 1
    BY LoopsAssumption
  <2>3. FpgaTyped /\ CountTyped
    BY <2>1, <2>2 DEF AtRest, FpgaTyped, CountTyped
  <2>4. CallTyped
    BY <2>1, <2>2 DEF AtRest, CallTyped
  <2> QED BY <2>1, <2>3, <2>4 DEF BTyped
<1>2. IInv /\ BTyped => BoardsTypeOK
  <2> SUFFICES ASSUME IInv, BTyped PROVE BoardsTypeOK
    OBVIOUS
  <2>1. P!TypeOK
    BY DEF BTyped, FpgaTyped, CountTyped, CallTyped, P!TypeOK
  <2> QED BY <2>1 DEF IInv, BTyped, ProbeTyped, BoardsTypeOK
<1> QED BY <1>1, <1>2, BTypedStep, BoardsImplementDriver, Inductive, PTL DEF BoardsSpec
=============================================================================
