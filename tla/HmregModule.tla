---------------------------- MODULE HmregModule -----------------------------
(***************************************************************************)
(* The two kernel modules hmreg.c (hmreg_module/ and Software/             *)
(* linux-driver-test/C/hmregmodule/): a driver attribute through which     *)
(* tasks read and write the FPGA's registers.  Both build hmreg.ko, so one *)
(* of them is loaded at a time.  hmreg_init makes the attribute before it  *)
(* reserves and maps the registers; from then on tasks call hmreg_show and *)
(* hmreg_store whatever the load is doing.                                 *)
(*                                                                         *)
(* A call runs over pages of registers from hmreg_mem on; one page is      *)
(* mapped, and both builds have a call that does not stop there.           *)
(*                                                                         *)
(* The kernel is external: driver_remove_file waits for the calls in       *)
(* progress; release_mem_region of what nobody holds only warns; behind the*)
(* mapped page there is whatever the kernel mapped there, or nothing; an   *)
(* access where nothing is mapped kills the task inside the attribute,     *)
(* which is then never left, and the machine needs a reset.                *)
(***************************************************************************)
EXTENDS Naturals

CONSTANTS Builds,       \* the two hmreg.ko
          NoBuild,
          Requested,    \* the page each build requests: base + offset
          Mapped,       \* the page it maps
          Base,         \* the page a failed mapping releases: the base
          NoPage,
          Spans,        \* how many pages the calls of each build run over
          Readers       \* tasks that use the attribute

VARIABLES ko,          \* the build being loaded, loaded or removed
          stage,       \* where hmreg_init or hmreg_exit is
          registered,  \* hmreg_driver is registered
          file,        \* the attribute exists
          reserved,    \* pages reserved with request_mem_region
          hmreg_mem,   \* the page that is mapped
          inside,      \* tasks inside hmreg_show or hmreg_store
          to,          \* each task's call: how many pages it runs over
          page,        \* and the page it accesses next
          faulted,     \* tasks killed there
          early,       \* history: tasks let in while nothing was mapped
          lost         \* history: pages left reserved by a failed mapping

callVars == <<inside, to, page, faulted, early>>
hmVars == <<ko, stage, registered, file, reserved, hmreg_mem, callVars, lost>>

Init ==
  /\ ko = NoBuild /\ stage = "out" /\ registered = FALSE /\ file = FALSE
  /\ reserved = {} /\ hmreg_mem = NoPage
  /\ inside = {} /\ faulted = {} /\ early = {} /\ lost = {}
  /\ to = [t \in Readers |-> 0] /\ page = [t \in Readers |-> 0]

Loading == {"create", "request", "map"}

-----------------------------------------------------------------------------
\* hmreg_init.  driver_register may fail: nothing was done.
Register(b) ==
  /\ stage = "out"
  /\ ko' = b /\ stage' = "create" /\ registered' = TRUE
  /\ UNCHANGED <<file, reserved, hmreg_mem, callVars, lost>>

CreateFile ==
  /\ stage = "create"
  /\ stage' = "request" /\ file' = TRUE
  /\ UNCHANGED <<ko, registered, reserved, hmreg_mem, callVars, lost>>

CreateFails ==
  /\ stage = "create"
  /\ stage' = "out" /\ ko' = NoBuild /\ registered' = FALSE
  /\ UNCHANGED <<file, reserved, hmreg_mem, callVars, lost>>

Request ==
  /\ stage = "request" /\ Requested[ko] \notin reserved
  /\ stage' = "map" /\ reserved' = reserved \cup {Requested[ko]}
  /\ UNCHANGED <<ko, registered, file, hmreg_mem, callVars, lost>>

\* The page is taken, by a page lost before or by another driver.  From here,
\* driver_remove_file: the name goes, the calls in progress are waited for.
RequestFails ==
  /\ stage = "request"
  /\ stage' = "unregister" /\ file' = FALSE
  /\ UNCHANGED <<ko, registered, reserved, hmreg_mem, callVars, lost>>

Map ==
  /\ stage = "map"
  /\ stage' = "in" /\ hmreg_mem' = Mapped[ko]
  /\ UNCHANGED <<ko, registered, file, reserved, callVars, lost>>

MapFails ==
  /\ stage = "map"
  /\ stage' = "unregister_release" /\ file' = FALSE
  /\ UNCHANGED <<ko, registered, reserved, hmreg_mem, callVars, lost>>

\* driver_remove_file returned; driver_unregister; and, when the mapping failed,
\* release_mem_region(hmreg_BASE): not the page that was requested.
GiveUp ==
  /\ stage \in {"unregister", "unregister_release"} /\ inside = {}
  /\ stage' = "out" /\ ko' = NoBuild /\ registered' = FALSE
  /\ reserved' = IF stage = "unregister" THEN reserved ELSE reserved \ {Base}
  /\ lost' = IF stage = "unregister" THEN lost ELSE lost \cup ({Requested[ko]} \ {Base})
  /\ UNCHANGED <<file, hmreg_mem, callVars>>

-----------------------------------------------------------------------------
\* Mutant: the mapping goes before the attribute.
ExitUnmapsFirst ==
  /\ stage = "in"
  /\ stage' = "exit" /\ file' = FALSE /\ hmreg_mem' = NoPage
  /\ UNCHANGED <<ko, registered, reserved, callVars, lost>>

\* hmreg_exit: remove the attribute, wait, unregister, release, unmap.
Exit ==
  /\ stage = "in"
  /\ stage' = "exit" /\ file' = FALSE
  /\ UNCHANGED <<ko, registered, reserved, hmreg_mem, callVars, lost>>

ExitEnds ==
  /\ stage = "exit" /\ inside = {}
  /\ stage' = "out" /\ ko' = NoBuild /\ registered' = FALSE
  /\ reserved' = reserved \ {Requested[ko]} /\ hmreg_mem' = NoPage
  /\ UNCHANGED <<file, callVars, lost>>

-----------------------------------------------------------------------------
\* hmreg_show, hmreg_store: enter, access page after page, leave.
Enter(t) ==
  /\ file /\ t \notin inside
  /\ inside' = inside \cup {t}
  /\ \E n \in Spans[ko] : to' = [to EXCEPT ![t] = n]
  /\ early' = IF hmreg_mem = NoPage THEN early \cup {t} ELSE early
  /\ UNCHANGED <<ko, stage, registered, file, reserved, hmreg_mem, page, faulted, lost>>

Accessing(t) == t \in inside \ faulted /\ page[t] < to[t]

Access(t) ==
  /\ Accessing(t) /\ hmreg_mem # NoPage
  /\ page' = [page EXCEPT ![t] = @ + 1]
  /\ UNCHANGED <<ko, stage, registered, file, reserved, hmreg_mem, inside, to, faulted, early, lost>>

\* Nothing is there: hmreg_mem is not set, or the call is beyond the mapped page.
AccessFaults(t) ==
  /\ Accessing(t) /\ (hmreg_mem = NoPage \/ page[t] > 0)
  /\ faulted' = faulted \cup {t}
  /\ UNCHANGED <<ko, stage, registered, file, reserved, hmreg_mem, inside, to, page, early, lost>>

Leave(t) ==
  /\ t \in inside \ faulted /\ page[t] = to[t]
  /\ inside' = inside \ {t} /\ early' = early \ {t}
  /\ to' = [to EXCEPT ![t] = 0] /\ page' = [page EXCEPT ![t] = 0]
  /\ UNCHANGED <<ko, stage, registered, file, reserved, hmreg_mem, faulted, lost>>

Reset ==
  /\ faulted # {}
  /\ ko' = NoBuild /\ stage' = "out" /\ registered' = FALSE /\ file' = FALSE
  /\ reserved' = {} /\ hmreg_mem' = NoPage
  /\ inside' = {} /\ faulted' = {} /\ early' = {} /\ lost' = {}
  /\ to' = [t \in Readers |-> 0] /\ page' = [t \in Readers |-> 0]

Next ==
  \/ \E b \in Builds : Register(b)
  \/ CreateFile \/ CreateFails \/ Request \/ RequestFails \/ Map \/ MapFails \/ GiveUp
  \/ Exit \/ ExitEnds \/ Reset
  \/ \E t \in Readers : Enter(t) \/ Access(t) \/ AccessFaults(t) \/ Leave(t)

Spec == Init /\ [][Next]_hmVars
-----------------------------------------------------------------------------
TypeOK ==
  /\ ko \in Builds \cup {NoBuild}
  /\ stage \in Loading \cup {"out", "in", "exit", "unregister", "unregister_release"}
  /\ registered \in BOOLEAN /\ file \in BOOLEAN
  /\ reserved \subseteq {Requested[b] : b \in Builds} /\ lost \subseteq reserved
  /\ hmreg_mem \in {Mapped[b] : b \in Builds} \cup {NoPage}
  /\ faulted \subseteq inside /\ early \subseteq inside /\ inside \subseteq Readers
  /\ to \in [Readers -> Nat] /\ page \in [Readers -> Nat]
  /\ \A t \in Readers : page[t] <= to[t]

(***************************************************************************)
(* Removing the module kills nobody, whatever runs meanwhile: a task dies  *)
(* inside the attribute only because the load let it in before ioremap     *)
(* (hmreg_module/hmreg.c:83-98) or because its call runs beyond the one    *)
(* page that is mapped (27; linux-driver-test 69).                         *)
(***************************************************************************)
RemovalKillsNobody == \A t \in faulted : t \in early \/ page[t] > 0

(***************************************************************************)
(* A module that is out has given back all but the page of a load whose    *)
(* mapping failed; that page stays reserved and no later load gets it.     *)
(***************************************************************************)
GivenBack ==
  /\ stage = "out" => ~registered /\ ~file /\ inside = {} /\ hmreg_mem = NoPage
                      /\ reserved = lost
  /\ stage = "in" => Requested[ko] \in reserved \ lost
=============================================================================
