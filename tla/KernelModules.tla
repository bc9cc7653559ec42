---------------------------- MODULE KernelModules ---------------------------
(***************************************************************************)
(* The kernel modules through which Linux reaches the FPGA's registers:    *)
(* hm2reg_uio (UioDriver), or one of the two hmreg (HmregModule).  They    *)
(* share no state, so a behaviour is of one of them.                       *)
(***************************************************************************)
EXTENDS UioDriver

CONSTANTS Builds, NoBuild, Requested, Mapped, Base, NoPage, Spans, Readers
ASSUME BuildsAssumption ==
  NoBuild \notin Builds /\ NoPage \notin {Base} \cup {Mapped[b] : b \in Builds}
ASSUME SpansAssumption == \A b \in Builds : Spans[b] \subseteq Nat

VARIABLES inUse,  \* "uio" or "hmreg"
          ko, stage, registered, file, reserved, hmreg_mem, inside, to, page,
          faulted, early, lost

Hmreg == INSTANCE HmregModule
hmVars == <<ko, stage, registered, file, reserved, hmreg_mem,
            <<inside, to, page, faulted, early>>, lost>>
kernelVars == <<driverVars, inUse, hmVars>>

KernelInit == inUse \in {"uio", "hmreg"} /\ DriverInit /\ Hmreg!Init

UioStep == inUse = "uio" /\ DriverNext /\ UNCHANGED <<inUse, hmVars>>

HmregStep == inUse = "hmreg" /\ Hmreg!Next /\ UNCHANGED <<inUse, driverVars>>

KernelNext == UioStep \/ HmregStep

KernelSpec ==
  /\ KernelInit /\ [][KernelNext]_kernelVars
  /\ WF_driverVars(HandlerStep)
  /\ \A t \in Tasks : WF_driverVars(CallStep(t))
-----------------------------------------------------------------------------
KernelTypeOK == DriverTypeOK /\ Hmreg!TypeOK

(***************************************************************************)
(* No call of an hmreg attribute dies of a removal, in whatever state the  *)
(* removal finds it; the calls that die were let in before the load had    *)
(* mapped the registers, or ran beyond the page it mapped.                 *)
(***************************************************************************)
RemovalKillsNobody == Hmreg!RemovalKillsNobody

(***************************************************************************)
(* What a module holds is what its users need, and it leaves behind only   *)
(* the function pointers in platform data (hm2reg_uio) and the page of a   *)
(* load whose mapping failed (hmreg).                                      *)
(***************************************************************************)
HeldWhileLoaded == HeldWhileBound /\ Hmreg!GivenBack
=============================================================================
