----------------------------- MODULE UioDevice ------------------------------
(***************************************************************************)
(* Probing, opening and removing in Software/hm2reg_uio-module.  A device  *)
(* comes from the device tree (OF), where probe allocates its uio_info, or *)
(* with platform data, where the uio_info is the board code's and outlives *)
(* every probe.  Memory may run out and the UIO core (external) may refuse *)
(* the device.  An open file keeps the module, but not the driver bound to *)
(* its device: uio_open and sysfs unbind (external) do not exclude each    *)
(* other, and a file open at the removal holds its power reference on.     *)
(***************************************************************************)
EXTENDS Integers

CONSTANTS Devs, OF,
          Misconfigured, \* platform data that comes with a handler of its own
          MaxOpens       \* bound: open files of a device

VARIABLES info,     \* each device's uio_info: "none", "clean", or "armed": handler,
                    \* irqcontrol, open and release point into the driver
          priv,     \* devices whose priv is allocated
          pm,       \* runtime PM: depth of enables
          power,    \* runtime PM: users that hold the device on
          uio,      \* devices registered with the UIO core
          bound,    \* devices bound to the driver
          opens,    \* open files of the device as it is bound now
          orphaned  \* open files of devices that were removed under them

vars == <<info, priv, pm, power, uio, bound, opens, orphaned>>

Init ==
  /\ info = [d \in Devs |-> IF d \in OF THEN "none"
                            ELSE IF d \in Misconfigured THEN "armed" ELSE "clean"]
  /\ priv = {} /\ uio = {} /\ bound = {}
  /\ pm = [d \in Devs |-> 0] /\ power = [d \in Devs |-> 0]
  /\ opens = [d \in Devs |-> 0] /\ orphaned = [d \in Devs |-> 0]

-----------------------------------------------------------------------------
\* uio_pdrv_hm2reg_io_probe, by how it ends.
BadConfiguration(d) ==
  /\ d \notin OF /\ info[d] = "armed"
  /\ UNCHANGED <<info, priv, pm, uio, bound>>

\* bad2, and bad0 for want of priv: OF devices have their uio_info freed again.
NoMemory(d) ==
  /\ d \in OF \/ info[d] = "clean"
  /\ UNCHANGED <<info, priv, pm, uio, bound>>

\* Mutant: bad1 forgets kfree(priv).
RegistrationFailsKeepPriv(d) ==
  /\ d \in OF \/ info[d] = "clean"
  /\ info' = [info EXCEPT ![d] = IF d \in OF THEN "none" ELSE "armed"]
  /\ priv' = priv \cup {d}
  /\ UNCHANGED <<pm, uio, bound>>

\* bad1: the uio_info of a platform device stays armed.
RegistrationFails(d) ==
  /\ d \in OF \/ info[d] = "clean"
  /\ info' = [info EXCEPT ![d] = IF d \in OF THEN "none" ELSE "armed"]
  /\ UNCHANGED <<priv, pm, uio, bound>>

Registered(d) ==
  /\ d \in OF \/ info[d] = "clean"
  /\ info' = [info EXCEPT ![d] = "armed"]
  /\ priv' = priv \cup {d} /\ uio' = uio \cup {d} /\ bound' = bound \cup {d}
  /\ pm' = [pm EXCEPT ![d] = @ + 1]

Probe(d) ==
  /\ d \notin bound
  /\ BadConfiguration(d) \/ NoMemory(d) \/ RegistrationFails(d) \/ Registered(d)
  /\ UNCHANGED <<power, opens, orphaned>>

\* uio_pdrv_hm2reg_io_remove
Remove(d) ==
  /\ d \in bound
  /\ info' = [info EXCEPT ![d] = IF d \in OF THEN "none" ELSE "clean"]
  /\ priv' = priv \ {d} /\ uio' = uio \ {d} /\ bound' = bound \ {d}
  /\ pm' = [pm EXCEPT ![d] = @ - 1]
  /\ opens' = [opens EXCEPT ![d] = 0]
  /\ orphaned' = [orphaned EXCEPT ![d] = @ + opens[d]]
  /\ UNCHANGED power

\* uio_pdrv_genirq_open, uio_pdrv_genirq_release
Open(d) ==
  /\ d \in uio /\ opens[d] + orphaned[d] < MaxOpens
  /\ opens' = [opens EXCEPT ![d] = @ + 1]
  /\ power' = [power EXCEPT ![d] = @ + 1]
  /\ UNCHANGED <<info, priv, pm, uio, bound, orphaned>>

Release(d) ==
  /\ \/ opens[d] > 0 /\ opens' = [opens EXCEPT ![d] = @ - 1] /\ UNCHANGED orphaned
     \/ orphaned[d] > 0 /\ orphaned' = [orphaned EXCEPT ![d] = @ - 1] /\ UNCHANGED opens
  /\ power' = [power EXCEPT ![d] = @ - 1]
  /\ UNCHANGED <<info, priv, pm, uio, bound>>

Next == \E d \in Devs : Probe(d) \/ Remove(d) \/ Open(d) \/ Release(d)

Spec == Init /\ [][Next]_vars
-----------------------------------------------------------------------------
TypeOK ==
  /\ info \in [Devs -> {"none", "clean", "armed"}]
  /\ priv \subseteq Devs /\ uio \subseteq Devs /\ bound \subseteq Devs
  /\ pm \in [Devs -> 0 .. 1]
  /\ power \in [Devs -> 0 .. MaxOpens]
  /\ opens \in [Devs -> 0 .. MaxOpens] /\ orphaned \in [Devs -> 0 .. MaxOpens]

(***************************************************************************)
(* The references the driver holds are exactly those its users need: a     *)
(* device registered with the UIO core has its uio_info and priv and is    *)
(* powered while anyone has it open (hm2reg_uio-module.c:207-212), once per*)
(* open file, those it was removed under included; one that is not bound   *)
(* has no open file of its own and holds nothing but, after a failed       *)
(* registration, the function pointers in platform data.                   *)
(***************************************************************************)
HeldWhileBound ==
  /\ uio = bound /\ priv = bound
  /\ \A d \in Devs : /\ pm[d] = IF d \in bound THEN 1 ELSE 0
                     /\ power[d] = opens[d] + orphaned[d]
                     /\ d \notin bound => opens[d] = 0
                     /\ d \in bound => info[d] = "armed"
                     /\ d \in OF \ bound => info[d] = "none"

=============================================================================
