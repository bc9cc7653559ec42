----------------------------- MODULE UioDriver ------------------------------
(***************************************************************************)
(* The whole of Software/hm2reg_uio-module: devices come, are opened and go*)
(* (UioDevice) while the interrupt of one of them, the bridge of the FPGA, *)
(* is handled, masked and unmasked (UioIrq).  irqcontrol is called from    *)
(* write() on an open file.  uio_register_device requests the interrupt,   *)
(* which starts it with a disable count of 0; uio_unregister_device frees  *)
(* it, which waits for a running handler, and takes the lock that the UIO  *)
(* core's write() holds around irqcontrol (external).                      *)
(***************************************************************************)
EXTENDS UioIrq

CONSTANTS Bridge,  \* the device with the interrupt
          Devs, OF, Misconfigured, MaxOpens
ASSUME DevsAssumption ==
  OF \subseteq Devs /\ Misconfigured \subseteq Devs \ OF /\ Bridge \in OF
ASSUME MaxOpensAssumption == MaxOpens \in Nat

VARIABLES info, priv, pm, power, uio, bound, opens, orphaned

Device == INSTANCE UioDevice

deviceVars == <<info, priv, pm, power, uio, bound, opens, orphaned>>
driverVars == <<vars, deviceVars>>

DriverInit == Init /\ Device!Init

NoCall == \A t \in Tasks : tpc[t] = "idle"

\* Mutant: the state of the mask is carried over to the next probe.
StaleFlag ==
  /\ depth' = 0 /\ event' = FALSE /\ quiet' = FALSE
  /\ UNCHANGED <<flag, lock, tpc, irq_on, hpc, line>>

\* A probe that succeeds makes a new priv, whose flags are 0.
FreshIrq ==
  /\ flag' = FALSE /\ depth' = 0 /\ event' = FALSE /\ quiet' = FALSE
  /\ UNCHANGED <<lock, tpc, irq_on, hpc, line>>

ProbeStep(d) ==
  /\ Device!Probe(d)
  /\ IF d = Bridge /\ Bridge \in bound' THEN FreshIrq ELSE UNCHANGED vars

RemoveStep(d) ==
  /\ Device!Remove(d) /\ (d = Bridge => hpc = "idle" /\ NoCall)
  /\ UNCHANGED vars

FileStep(d) ==
  /\ Device!Open(d) \/ (Device!Release(d) /\ (d = Bridge /\ opens'[d] = 0 => NoCall))
  /\ UNCHANGED vars

-----------------------------------------------------------------------------
HandlerStep == Bridge \in bound /\ Handler /\ UNCHANGED deviceVars

CallStep(t) == InCall(t) /\ UNCHANGED deviceVars

Write(t, on) == opens[Bridge] > 0 /\ Lock(t, on) /\ UNCHANGED deviceVars

LineStep == (Raise \/ Ack) /\ UNCHANGED deviceVars

DriverNext ==
  \/ HandlerStep \/ LineStep
  \/ \E t \in Tasks : CallStep(t) \/ \E on \in BOOLEAN : Write(t, on)
  \/ \E d \in Devs : ProbeStep(d) \/ RemoveStep(d) \/ FileStep(d)

\* The kernel delivers an unmasked interrupt; a handler and a call run to the end.
DriverSpec ==
  /\ DriverInit /\ [][DriverNext]_driverVars
  /\ WF_driverVars(HandlerStep)
  /\ \A t \in Tasks : WF_driverVars(CallStep(t))
-----------------------------------------------------------------------------
DriverTypeOK == TypeOK /\ Device!TypeOK

(***************************************************************************)
(* A bound device has its data, is powered exactly while a file is open    *)
(* (whether or not it was unbound meanwhile), and leaves nothing behind but function pointers in platform data        *)
(* (uio_pdrv_hm2reg_io_probe, _remove, _open and _release).                *)
(***************************************************************************)
HeldWhileBound == Device!HeldWhileBound

(***************************************************************************)
(* An asserted interrupt that the driver records as unmasked reaches the   *)
(* handler, unless the device drops it, a call intervenes or the driver is *)
(* unbound; also after the driver was unbound with the interrupt masked and*)
(* bound again.                                                            *)
(***************************************************************************)
UnmaskedIsDelivered ==
  line /\ ~flag /\ lock = NoTask /\ Bridge \in bound
    ~> hpc # "idle" \/ ~line \/ flag \/ lock # NoTask \/ Bridge \notin bound
=============================================================================
