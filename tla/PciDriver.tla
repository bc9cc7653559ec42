----------------------------- MODULE PciDriver ------------------------------
(***************************************************************************)
(* Loading, probing, removing and unloading in the PCI driver of           *)
(* hm2-export.c (hm2_pci).  The PCI core (external) probes every device the*)
(* driver is not bound to when the driver registers and later on demand,   *)
(* one at a time, calls remove when a bound device goes, and for all bound *)
(* devices when the driver unregisters.  The HostMot2 core (external)      *)
(* registers a board or refuses it.                                        *)
(***************************************************************************)
EXTENDS Integers, FiniteSets

CONSTANTS Devs, None,
          UnknownSubsystem, UnknownDevice, \* devices with ids the driver does not know
          HM2_PCI_MAX_BOARDS
ASSUME DevsAssumption ==
  None \notin Devs /\ UnknownSubsystem \subseteq Devs /\ UnknownDevice \subseteq Devs
ASSUME MaxAssumption == HM2_PCI_MAX_BOARDS \in Nat \ {0}

Slots == 0 .. HM2_PCI_MAX_BOARDS - 1

VARIABLES pc,         \* where rtapi_app_main and rtapi_app_exit are
          hal,        \* the HAL component exists
          num_boards, failed_errno,
          board,      \* hm2_pci_board: the device and the mapping of each slot
          registered, \* slots registered with the HostMot2 core
          mapped,     \* devices whose memory is mapped
          enabled,    \* devices enabled
          bound,      \* devices the PCI core has bound to the driver
          present, todo   \* devices there, and still to be probed at registration

vars == <<pc, hal, num_boards, failed_errno, board, registered, mapped, enabled,
          bound, present, todo>>

Free == [dev |-> None, base |-> None]

Init ==
  /\ pc = "unloaded" /\ hal = FALSE /\ num_boards = 0 /\ failed_errno = FALSE
  /\ board = [s \in Slots |-> Free]
  /\ registered = {} /\ mapped = {} /\ enabled = {} /\ bound = {}
  /\ present \in SUBSET Devs /\ todo = {}

-----------------------------------------------------------------------------
\* hm2_pci_probe, by how it ends.
Skip(d) ==
  /\ num_boards >= HM2_PCI_MAX_BOARDS
  /\ UNCHANGED <<num_boards, failed_errno, board, registered, mapped, enabled, bound>>

\* pci_enable_device fails, or (fail0) the ids or ioremap are no good.
EarlyFailure(d) ==
  /\ num_boards < HM2_PCI_MAX_BOARDS
  /\ failed_errno' = TRUE
  /\ \/ UNCHANGED board
     \/ d \notin UnknownSubsystem \cup UnknownDevice
        /\ board' = [board EXCEPT ![num_boards].base = None]
  /\ UNCHANGED <<num_boards, registered, mapped, enabled, bound>>

\* An unknown subsystem id: return without pci_disable_device.
UnknownBoard(d) ==
  /\ num_boards < HM2_PCI_MAX_BOARDS
  /\ d \in UnknownSubsystem
  /\ failed_errno' = TRUE /\ enabled' = enabled \cup {d}
  /\ UNCHANGED <<num_boards, board, registered, mapped, bound>>

KnownBoard(d) == d \in Devs \ (UnknownSubsystem \cup UnknownDevice)

\* fail1: hm2_register refuses; board->dev keeps pointing at the device.
Refused(d) ==
  /\ num_boards < HM2_PCI_MAX_BOARDS /\ KnownBoard(d)
  /\ failed_errno' = TRUE
  /\ board' = [board EXCEPT ![num_boards] = [dev |-> d, base |-> None]]
  /\ UNCHANGED <<num_boards, registered, mapped, enabled, bound>>

\* Mutant: the slot is not counted.
AcceptedUncounted(d) ==
  /\ num_boards < HM2_PCI_MAX_BOARDS /\ KnownBoard(d)
  /\ board' = [board EXCEPT ![num_boards] = [dev |-> d, base |-> d]]
  /\ registered' = registered \cup {num_boards}
  /\ mapped' = mapped \cup {d} /\ enabled' = enabled \cup {d} /\ bound' = bound \cup {d}
  /\ UNCHANGED <<num_boards, failed_errno>>

Accepted(d) ==
  /\ num_boards < HM2_PCI_MAX_BOARDS /\ KnownBoard(d)
  /\ board' = [board EXCEPT ![num_boards] = [dev |-> d, base |-> d]]
  /\ registered' = registered \cup {num_boards}
  /\ mapped' = mapped \cup {d} /\ enabled' = enabled \cup {d} /\ bound' = bound \cup {d}
  /\ num_boards' = num_boards + 1
  /\ UNCHANGED <<failed_errno>>

\* A probe that ends before hm2_register.
EndsEarly(d) == Skip(d) \/ EarlyFailure(d) \/ UnknownBoard(d)

-----------------------------------------------------------------------------
Holding(d) == {s \in Slots : s < num_boards /\ board[s].dev = d}

\* hm2_pci_remove
Remove(d) ==
  /\ registered' = registered \ Holding(d)
  /\ mapped' = mapped \ {board[s].base : s \in Holding(d)}
  /\ board' = [s \in Slots |-> IF s \in Holding(d) THEN Free ELSE board[s]]
  /\ enabled' = IF Holding(d) = {} THEN enabled ELSE enabled \ {d}
  /\ bound' = bound \ {d}

-----------------------------------------------------------------------------
\* rtapi_app_main: hal_init and pci_register_driver.  (Where either fails the
\* module is not loaded and nothing is left.)
Load ==
  /\ pc = "unloaded" /\ pc' = "probing"
  /\ hal' = TRUE /\ num_boards' = 0 /\ failed_errno' = FALSE
  /\ board' = [s \in Slots |-> Free]
  /\ todo' = present
  /\ UNCHANGED <<registered, mapped, enabled, bound, present>>

\* What the bus offers: a device that was there at registration, or one that
\* came, or was refused, later.
Offered(d) ==
  \/ pc = "probing" /\ d \in todo \ bound
  \/ pc \in {"probing", "running"} /\ d \in present \ (bound \cup todo)

Probe(d) ==
  /\ Offered(d)
  /\ EndsEarly(d) \/ Refused(d) \/ Accepted(d)
  /\ todo' = todo \ {d}
  /\ UNCHANGED <<pc, hal, present>>

Decide ==
  /\ pc = "probing" /\ todo \subseteq bound /\ todo' = {}
  /\ IF failed_errno \/ num_boards = 0
     THEN hal' = FALSE /\ pc' = "backout"
     ELSE UNCHANGED hal /\ pc' = "running"
  /\ UNCHANGED <<num_boards, failed_errno, board, registered, mapped, enabled,
                 bound, present>>

\* Mutant: rtapi_app_exit lets the component go first.
ExitHalFirst ==
  /\ pc = "running" /\ pc' = "exiting" /\ hal' = FALSE
  /\ UNCHANGED <<num_boards, failed_errno, board, registered, mapped, enabled,
                 bound, present, todo>>

\* rtapi_app_exit: pci_unregister_driver, then hal_exit.
Exit ==
  /\ pc = "running" /\ pc' = "exiting"
  /\ UNCHANGED <<hal, num_boards, failed_errno, board, registered, mapped, enabled,
                 bound, present, todo>>

Unregister(d) ==
  /\ pc \in {"backout", "exiting"} /\ d \in bound
  /\ Remove(d)
  /\ UNCHANGED <<pc, hal, num_boards, failed_errno, present, todo>>

Unloaded ==
  /\ pc \in {"backout", "exiting"} /\ bound = {}
  /\ pc' = "unloaded" /\ hal' = FALSE
  /\ UNCHANGED <<num_boards, failed_errno, board, registered, mapped, enabled,
                 bound, present, todo>>

\* The bus: a device comes, or goes.
Plug(d) ==
  /\ d \notin present /\ present' = present \cup {d}
  /\ UNCHANGED <<pc, hal, num_boards, failed_errno, board, registered, mapped,
                 enabled, bound, todo>>

Unplug(d) ==
  /\ d \in present /\ present' = present \ {d} /\ todo' = todo \ {d}
  /\ IF d \in bound THEN Remove(d)
                    ELSE UNCHANGED <<board, registered, mapped, enabled, bound>>
  /\ UNCHANGED <<pc, hal, num_boards, failed_errno>>

\* What does not involve the HostMot2 core taking a board.
Otherwise ==
  \/ Load \/ Decide \/ Exit \/ Unloaded
  \/ \E d \in Devs : Unregister(d) \/ Plug(d) \/ Unplug(d)

Next == Otherwise \/ \E d \in Devs : Probe(d)

Spec == Init /\ [][Next]_vars
-----------------------------------------------------------------------------
TypeOK ==
  /\ pc \in {"unloaded", "probing", "running", "backout", "exiting"}
  /\ hal \in BOOLEAN /\ failed_errno \in BOOLEAN
  /\ num_boards \in 0 .. HM2_PCI_MAX_BOARDS
  /\ board \in [Slots -> [dev : Devs \cup {None}, base : Devs \cup {None}]]
  /\ registered \subseteq Slots
  /\ mapped \subseteq Devs /\ enabled \subseteq Devs
  /\ bound \subseteq present /\ todo \subseteq present /\ present \subseteq Devs

(***************************************************************************)
(* Every bound device has exactly one counted slot, whose mapping is its   *)
(* own, and exactly those slots are registered with the HostMot2 core:     *)
(* whatever mix of refused boards, hot removals and new probes came before.*)
(***************************************************************************)
OwnSlot ==
  /\ \A d \in bound : \E s \in Slots : Holding(d) = {s} /\ board[s].base = d
  /\ registered = UNION {Holding(d) : d \in bound}

(***************************************************************************)
(* The driver holds nothing of a device it is not bound to, so nothing     *)
(* stays behind when it is unloaded, except that a device with an unknown  *)
(* subsystem id stays enabled (hm2-export.c:1807-1810).  Boards are        *)
(* registered only while the HAL component that owns their pins exists,    *)
(* except when rtapi_app_main gives a load up: there hal_exit comes before *)
(* pci_unregister_driver (hm2-export.c:1964, 1972).                        *)
(***************************************************************************)
NothingLeft ==
  /\ mapped = bound
  /\ bound \subseteq enabled /\ enabled \subseteq bound \cup UnknownSubsystem
  /\ registered # {} /\ pc # "backout" => hal

=============================================================================
