------------------------ MODULE KernelModules_proofs ------------------------
(***************************************************************************)
(* Proofs about the kernel modules.                                        *)
(*                                                                         *)
(* UioDriver: the driver's record of the interrupt mask is right on one    *)
(* CPU, and on any number of CPUs if user space unmasks only in answer to  *)
(* an event, for every set of tasks and devices, whatever devices are      *)
(* probed, opened and removed meanwhile.                                   *)
(*                                                                         *)
(* KernelModules: that is kept, for a step of hmreg leaves the variables of*)
(* hm2reg_uio alone; the rest is about hmreg, for any number of builds,    *)
(* whatever pages they request, map and release, and any number of tasks in*)
(* the attribute.                                                          *)
(***************************************************************************)
EXTENDS KernelModules, TLAPS

-----------------------------------------------------------------------------
USE DEF TypeOK

(***************************************************************************)
(* The lock: its owner, and nobody else, is inside irqcontrol; on one CPU  *)
(* the handler and a call exclude each other.                              *)
(***************************************************************************)
LockInv ==
  /\ \A t \in Tasks : tpc[t] # "idle" <=> lock = t
  /\ ~SMP /\ hpc # "idle" => lock = NoTask

Busy(t) == tpc[t] \in {"enable", "disable"}

(***************************************************************************)
(* How flag and depth are related at every point of the two programs.      *)
(***************************************************************************)
MaskInv ==
  /\ \A t \in Tasks : tpc[t] = "enable" => ~flag /\ depth = 1 /\ hpc = "idle"
  /\ \A t \in Tasks : tpc[t] = "disable" => flag /\ depth = 0 /\ hpc # "disable"
  /\ \A t \in Tasks : tpc[t] = "sync" => flag /\ hpc # "disable"
  /\ \A t \in Tasks : tpc[t] = "test" /\ irq_on[t] => hpc = "idle" /\ ~event /\ (SMP => flag)
  /\ hpc = "disable" => flag /\ depth = 0
  /\ hpc = "return" => flag
  /\ hpc # "disable" /\ (\A t \in Tasks : ~Busy(t)) /\ flag => depth = 1
  /\ hpc # "disable" /\ (\A t \in Tasks : ~Busy(t)) /\ ~flag => depth = 0

(***************************************************************************)
(* An event that is not answered yet has left the interrupt masked.        *)
(***************************************************************************)
EventInv ==
  event /\ SMP =>
    /\ flag
    /\ hpc # "idle" => \E t \in Tasks : tpc[t] \in {"disable", "sync"}

(***************************************************************************)
(* A call that masks has set the flag since it looked; when it returns the *)
(* flag stays, and on one CPU the handler does not start again.            *)
(***************************************************************************)
QuietInv ==
  /\ \A t \in Tasks : tpc[t] \in {"disable", "sync", "unlock"} /\ ~irq_on[t] => flag
  /\ \A t \in Tasks : tpc[t] = "enable" => irq_on[t]
  /\ quiet => lock = NoTask /\ flag /\ (hpc # "idle" => SMP)

IInv == TypeOK /\ LockInv /\ MaskInv /\ EventInv /\ QuietInv

LEMMA InitInv == Init => IInv
<1> SUFFICES ASSUME Init PROVE IInv
  OBVIOUS
<1> USE TasksAssumption DEF Init
<1>1. depth \in Nat
  OBVIOUS
<1>2. TypeOK
  BY <1>1, Zenon
<1>3. LockInv
  BY DEF LockInv
<1>4. MaskInv /\ EventInv /\ QuietInv
  BY DEF MaskInv, Busy, EventInv, QuietInv
<1> QED BY <1>2, <1>3, <1>4 DEF IInv

LEMMA HandlerStepInv ==
  ASSUME IInv, Handler
  PROVE  IInv'
<1> USE TasksAssumption, ModeAssumption DEF IInv, LockInv, MaskInv, EventInv, QuietInv, Busy
<1>1. CASE HandlerStart
  BY <1>1 DEF HandlerStart, HandlerMayStart
<1>2. CASE HandlerTest
  BY <1>2 DEF HandlerTest
<1>3. CASE HandlerDisable
  BY <1>3 DEF HandlerDisable
<1>4. CASE HandlerReturn
  BY <1>4 DEF HandlerReturn
<1> QED BY <1>1, <1>2, <1>3, <1>4 DEF Handler

LEMMA CallStepInv ==
  ASSUME ~SMP \/ OnePerEvent, IInv, NEW t \in Tasks,
         (\E on \in BOOLEAN : Lock(t, on)) \/ InCall(t)
  PROVE  IInv'
<1> USE TasksAssumption, ModeAssumption
    DEF IInv, LockInv, MaskInv, EventInv, QuietInv, Busy, Goto, TaskMayRun
<1>1. ASSUME NEW on \in BOOLEAN, Lock(t, on)
      PROVE  IInv'
  BY <1>1 DEF Lock
<1>2. CASE Test(t)
  <2>1. LockInv'
    <3>1. PICK w \in {"unlock", "enable", "disable"} :
            /\ tpc' = [tpc EXCEPT ![t] = w]
            /\ tpc[t] = "test" /\ UNCHANGED <<lock, hpc>>
      BY <1>2 DEF Test
    <3>2. lock = t
      BY <3>1
    <3>3. tpc'[t] = w /\ \A u \in Tasks \ {t} : tpc'[u] = tpc[u]
      BY <3>1
    <3>4. \A u \in Tasks : tpc'[u] # "idle" <=> tpc[u] # "idle"
      BY <3>1, <3>3
    <3>5. \A u \in Tasks : tpc[u] # "idle" <=> lock' = u
      BY <3>1
    <3>6. ~SMP /\ hpc' # "idle" => lock' = NoTask
      BY <3>1
    <3> QED BY <3>4, <3>5, <3>6, Zenon
  <2>2. CASE irq_on[t] /\ flag
    <3>1. ~flag' /\ tpc' = [tpc EXCEPT ![t] = "enable"]
      BY <1>2, <2>2 DEF Test
    <3>2. tpc[t] = "test" /\ UNCHANGED <<depth, lock, irq_on, hpc, line, event, quiet>>
      BY <1>2 DEF Test
    <3>3. flag' \in BOOLEAN
      BY <1>2 DEF Test
    <3> QED BY <2>1, <2>2, <3>1, <3>2, <3>3
  <2>3. CASE irq_on[t] /\ ~flag
    <3>1. ~flag' /\ tpc' = [tpc EXCEPT ![t] = "unlock"]
      BY <1>2, <2>3 DEF Test
    <3>2. tpc[t] = "test" /\ UNCHANGED <<depth, lock, irq_on, hpc, line, event, quiet>>
      BY <1>2 DEF Test
    <3>3. flag' \in BOOLEAN
      BY <1>2 DEF Test
    <3> QED BY <2>1, <2>3, <3>1, <3>2, <3>3
  <2>4. CASE ~irq_on[t] /\ flag
    <3>1. flag' /\ tpc' = [tpc EXCEPT ![t] = "unlock"]
      BY <1>2, <2>4 DEF Test
    <3>2. tpc[t] = "test" /\ UNCHANGED <<depth, lock, irq_on, hpc, line, event, quiet>>
      BY <1>2 DEF Test
    <3>3. flag' \in BOOLEAN
      BY <1>2 DEF Test
    <3> QED BY <2>1, <2>4, <3>1, <3>2, <3>3
  <2>5. CASE ~irq_on[t] /\ ~flag
    <3>1. flag' /\ tpc' = [tpc EXCEPT ![t] = "disable"]
      BY <1>2, <2>5 DEF Test
    <3>2. tpc[t] = "test" /\ UNCHANGED <<depth, lock, irq_on, hpc, line, event, quiet>>
      BY <1>2 DEF Test
    <3>3. flag' \in BOOLEAN
      BY <1>2 DEF Test
    <3> QED BY <2>1, <2>5, <3>1, <3>2, <3>3
  <2> QED BY <2>2, <2>3, <2>4, <2>5
<1>3. CASE Enable(t)
  BY <1>3 DEF Enable
<1>4. CASE Disable(t)
  BY <1>4 DEF Disable
<1>5. CASE Sync(t)
  BY <1>5 DEF Sync
<1>6. CASE Unlock(t)
  BY <1>6 DEF Unlock
<1> QED BY <1>1, <1>2, <1>3, <1>4, <1>5, <1>6 DEF InCall

LEMMA IrqStepInv ==
  ASSUME ~SMP \/ OnePerEvent
  PROVE  IInv /\ [Next]_vars => IInv'
<1> SUFFICES ASSUME IInv, [Next]_vars PROVE IInv'
  OBVIOUS
<1>1. CASE Raise \/ Ack
  <2>1. line' \in BOOLEAN /\ UNCHANGED <<flag, depth, lock, tpc, irq_on, hpc, event, quiet>>
    BY <1>1, Zenon DEF Raise, Ack
  <2>2. TypeOK'
    BY <2>1 DEF IInv
  <2>3. LockInv' /\ MaskInv' /\ EventInv' /\ QuietInv'
    BY <2>1 DEF IInv, LockInv, MaskInv, EventInv, QuietInv, Busy
  <2> QED BY <2>2, <2>3 DEF IInv
<1>2. CASE UNCHANGED vars
  BY <1>2 DEF vars, IInv, LockInv, MaskInv, EventInv, QuietInv, Busy
<1> QED BY <1>1, <1>2, HandlerStepInv, CallStepInv DEF Next

-----------------------------------------------------------------------------
(***************************************************************************)
(* The references of every device: what Device!HeldWhileBound says, with   *)
(* the opens counted in power.                                             *)
(***************************************************************************)
Refs ==
  /\ uio = bound /\ priv = bound
  /\ info \in [Devs -> {"none", "clean", "armed"}]
  /\ pm = [d \in Devs |-> IF d \in bound THEN 1 ELSE 0]
  /\ opens \in [Devs -> Nat] /\ orphaned \in [Devs -> Nat] /\ power \in [Devs -> Nat]
  /\ \A d \in Devs : power[d] = opens[d] + orphaned[d]
  /\ \A d \in Devs : /\ d \in bound => info[d] = "armed"
                     /\ d \in OF \ bound => info[d] = "none"
                     /\ d \notin bound => opens[d] = 0

LEMMA DeviceInv ==
  ASSUME Refs, NEW d \in Devs,
         Device!Probe(d) \/ Device!Remove(d) \/ Device!Open(d) \/ Device!Release(d)
  PROVE  Refs'
<1> USE DEF Refs
<1>1. CASE Device!Probe(d)
  <2>1. CASE Device!BadConfiguration(d) \/ Device!NoMemory(d)
    BY <1>1, <2>1 DEF Device!Probe, Device!BadConfiguration, Device!NoMemory
  <2>2. CASE Device!RegistrationFails(d)
    BY <1>1, <2>2 DEF Device!Probe, Device!RegistrationFails
  <2>3. CASE Device!Registered(d)
    <3>1. UNCHANGED <<power, opens, orphaned>>
      BY <1>1 DEF Device!Probe
    <3>2. /\ uio' = bound' /\ priv' = bound'
          /\ pm' = [e \in Devs |-> IF e \in bound' THEN 1 ELSE 0]
      BY <1>1, <2>3 DEF Device!Probe, Device!Registered
    <3>3. \A e \in Devs : /\ e \in bound' => info'[e] = "armed"
                          /\ e \in OF \ bound' => info'[e] = "none"
                          /\ e \notin bound' => opens[e] = 0
      BY <1>1, <2>3 DEF Device!Probe, Device!Registered
    <3>4. info' \in [Devs -> {"none", "clean", "armed"}]
      BY <2>3 DEF Device!Registered
    <3>5. /\ opens' \in [Devs -> Nat] /\ orphaned' \in [Devs -> Nat]
          /\ power' \in [Devs -> Nat]
          /\ \A e \in Devs : power'[e] = opens'[e] + orphaned'[e]
      BY <3>1
    <3>6. opens' = opens
      BY <3>1
    <3> QED BY <3>2, <3>3, <3>4, <3>5, <3>6, Zenon
  <2> QED BY <1>1, <2>1, <2>2, <2>3 DEF Device!Probe
<1>2. CASE Device!Remove(d)
  <2>1. /\ uio' = bound' /\ priv' = bound'
        /\ pm' = [e \in Devs |-> IF e \in bound' THEN 1 ELSE 0]
    BY <1>2 DEF Device!Remove
  <2>2. \A e \in Devs : /\ e \in bound' => info'[e] = "armed"
                        /\ e \in OF \ bound' => info'[e] = "none"
                        /\ e \notin bound' => opens'[e] = 0
    BY <1>2 DEF Device!Remove
  <2>3. /\ opens' \in [Devs -> Nat] /\ orphaned' \in [Devs -> Nat] /\ power' = power
        /\ \A e \in Devs : opens'[e] + orphaned'[e] = opens[e] + orphaned[e]
    BY <1>2 DEF Device!Remove
  <2>4. info' \in [Devs -> {"none", "clean", "armed"}]
    BY <1>2 DEF Device!Remove
  <2>5. power' \in [Devs -> Nat] /\ \A e \in Devs : power'[e] = opens'[e] + orphaned'[e]
    BY <2>3
  <2> QED BY <2>1, <2>2, <2>3, <2>4, <2>5, Zenon
<1>3. CASE Device!Open(d)
  BY <1>3 DEF Device!Open
<1>4. CASE Device!Release(d)
  <2>1. CASE opens[d] > 0 /\ opens' = [opens EXCEPT ![d] = @ - 1] /\ UNCHANGED orphaned
    BY <1>4, <2>1 DEF Device!Release
  <2>2. CASE orphaned[d] > 0 /\ orphaned' = [orphaned EXCEPT ![d] = @ - 1] /\ UNCHANGED opens
    BY <1>4, <2>2 DEF Device!Release
  <2> QED BY <1>4, <2>1, <2>2 DEF Device!Release
<1> QED BY <1>1, <1>2, <1>3, <1>4

LEMMA RefsStep == Refs /\ [DriverNext]_driverVars => Refs'
<1> SUFFICES ASSUME Refs, [DriverNext]_driverVars PROVE Refs'
  OBVIOUS
<1>1. CASE UNCHANGED deviceVars
  BY <1>1 DEF Refs, deviceVars
<1>2. ASSUME NEW d \in Devs, ProbeStep(d) \/ RemoveStep(d) \/ FileStep(d) PROVE Refs'
  BY <1>2, DeviceInv DEF ProbeStep, RemoveStep, FileStep
<1> QED BY <1>1, <1>2 DEF DriverNext, HandlerStep, LineStep, CallStep, Write, driverVars

(***************************************************************************)
(* irqcontrol is called on an open file, and a device that is not bound has*)
(* neither a call nor a handler: so a probe may begin with a fresh flag.   *)
(***************************************************************************)
Served ==
  /\ opens[Bridge] = 0 => NoCall
  /\ Bridge \notin bound => hpc = "idle"

DInv == IInv /\ Refs /\ Served

LEMMA DriverInitInv == DriverInit => DInv
<1> SUFFICES ASSUME DriverInit PROVE DInv
  OBVIOUS
<1>1. IInv
  BY InitInv DEF DriverInit
<1>2. Refs
  BY DEF DriverInit, Device!Init, Refs
<1>3. Served
  BY DevsAssumption DEF DriverInit, Init, Served, NoCall
<1> QED BY <1>1, <1>2, <1>3 DEF DInv

LEMMA ProbeInv == ASSUME DInv, NEW d \in Devs, ProbeStep(d) PROVE DInv'
<1>1. Refs'
  BY RefsStep DEF DriverNext, DInv
<1>2. UNCHANGED <<tpc, hpc, lock, irq_on, line>>
  BY DEF ProbeStep, FreshIrq, vars
<1>3. opens' = opens /\ bound \subseteq bound'
  BY DEF ProbeStep, Device!Probe, Device!BadConfiguration, Device!NoMemory,
         Device!RegistrationFails, Device!Registered
<1>4. Served'
  BY <1>2, <1>3 DEF DInv, Served, NoCall
<1>5. IInv'
  <2>1. CASE d = Bridge /\ Bridge \in bound'
    <3>1. Bridge \notin bound
      BY <2>1 DEF ProbeStep, Device!Probe
    <3>2. hpc = "idle" /\ \A t \in Tasks : tpc[t] = "idle"
      BY <3>1, DevsAssumption DEF DInv, Served, Refs, NoCall
    <3>3. flag' = FALSE /\ depth' = 0 /\ event' = FALSE /\ quiet' = FALSE
      BY <2>1 DEF ProbeStep, FreshIrq
    <3>4. depth' \in Nat /\ flag' \in BOOLEAN /\ event' \in BOOLEAN /\ quiet' \in BOOLEAN
      BY <3>3
    <3>5. TypeOK'
      BY <1>2, <3>4 DEF DInv, IInv
    <3>6. LockInv' /\ MaskInv' /\ EventInv' /\ QuietInv'
      BY <1>2, <3>2, <3>3
         DEF DInv, IInv, LockInv, MaskInv, EventInv, QuietInv, Busy
    <3> QED BY <3>5, <3>6 DEF IInv
  <2>2. CASE ~(d = Bridge /\ Bridge \in bound')
    BY <2>2 DEF ProbeStep, DInv, IInv, vars, LockInv, MaskInv, EventInv, QuietInv, Busy
  <2> QED BY <2>1, <2>2
<1> QED BY <1>1, <1>4, <1>5 DEF DInv

LEMMA DriverStepInv ==
  ASSUME ~SMP \/ OnePerEvent, DInv, [DriverNext]_driverVars
  PROVE  DInv'
<1> USE DevsAssumption
<1>0. Refs'
  BY RefsStep DEF DInv
<1>1. CASE HandlerStep
  <2>1. IInv'
    BY <1>1, HandlerStepInv DEF HandlerStep, DInv
  <2>2. Served'
    BY <1>1 DEF HandlerStep, Handler, HandlerStart, HandlerTest, HandlerDisable,
                HandlerReturn, deviceVars, DInv, Refs, Served, NoCall
  <2> QED BY <1>0, <2>1, <2>2 DEF DInv
<1>2. CASE LineStep
  <2>1. IInv'
    BY <1>2, IrqStepInv DEF LineStep, DInv, Next
  <2>2. Served'
    BY <1>2 DEF LineStep, Raise, Ack, deviceVars, DInv, Refs, Served, NoCall
  <2> QED BY <1>0, <2>1, <2>2 DEF DInv
<1>3. ASSUME NEW t \in Tasks, CallStep(t) \/ \E on \in BOOLEAN : Write(t, on)
      PROVE  DInv'
  <2>1. IInv'
    BY <1>3, CallStepInv DEF CallStep, Write, DInv
  <2>2. UNCHANGED <<deviceVars, hpc>>
    BY <1>3 DEF CallStep, Write, InCall, Lock, Test, Enable, Disable, Sync, Unlock
  <2>3. opens[Bridge] # 0
    <3>1. CASE \E on \in BOOLEAN : Write(t, on)
      BY <3>1 DEF Write
    <3>2. CASE CallStep(t)
      BY <3>2 DEF CallStep, InCall, Test, Enable, Disable, Sync, Unlock, DInv, Served, NoCall
    <3> QED BY <1>3, <3>1, <3>2
  <2> QED BY <1>0, <2>1, <2>2, <2>3 DEF DInv, deviceVars, Served
<1>4. ASSUME NEW d \in Devs, RemoveStep(d) \/ FileStep(d) PROVE DInv'
  <2>1. IInv'
    BY <1>4 DEF RemoveStep, FileStep, DInv, IInv, vars, LockInv, MaskInv, EventInv,
                QuietInv, Busy
  <2>2. Served'
    <3>1. CASE RemoveStep(d)
      BY <3>1 DEF RemoveStep, Device!Remove, DInv, Served, NoCall, vars
    <3>2. CASE FileStep(d) /\ Device!Open(d)
      BY <3>2 DEF FileStep, Device!Open, DInv, Served, Refs, NoCall, vars
    <3>3. CASE FileStep(d) /\ Device!Release(d) /\ (d = Bridge /\ opens'[d] = 0 => NoCall)
      BY <3>3 DEF FileStep, Device!Release, DInv, Served, Refs, NoCall, vars
    <3> QED BY <1>4, <3>1, <3>2, <3>3 DEF FileStep
  <2> QED BY <1>0, <2>1, <2>2 DEF DInv
<1>5. CASE UNCHANGED driverVars
  BY <1>5 DEF driverVars, vars, deviceVars, DInv, IInv, LockInv, MaskInv, EventInv,
              QuietInv, Busy, Refs, Served, NoCall
<1> QED BY <1>1, <1>2, <1>3, <1>4, <1>5, ProbeInv DEF DriverNext

LEMMA DriverInductive ==
  ASSUME ~SMP \/ OnePerEvent
  PROVE  DriverSpec => []DInv
  BY DriverInitInv, DriverStepInv, PTL DEF DriverSpec

(***************************************************************************)
(* Whenever neither the handler nor a call is running, the kernel's        *)
(* disable count is what the flag records.                                 *)
(***************************************************************************)
THEOREM NoDepthDamage ==
  ASSUME ~SMP \/ OnePerEvent
  PROVE  DriverSpec => []DepthTracksFlag
<1>1. DInv => DepthTracksFlag
  BY TasksAssumption DEF DInv, IInv, LockInv, MaskInv, Busy, DepthTracksFlag
<1> QED BY <1>1, DriverInductive, PTL

(***************************************************************************)
(* After an irqcontrol(0) the handler does not start before another call.  *)
(***************************************************************************)
THEOREM QuietAlways ==
  ASSUME ~SMP \/ OnePerEvent
  PROVE  DriverSpec => []QuietAfterDisable
<1>1. DInv => QuietAfterDisable
  BY TasksAssumption
     DEF DInv, IInv, LockInv, MaskInv, QuietInv, Busy, QuietAfterDisable
<1> QED BY <1>1, DriverInductive, PTL

(***************************************************************************)
(* The driver holds of every device exactly what its users need.           *)
(***************************************************************************)
THEOREM HeldAlways == DriverSpec => []HeldWhileBound
<1>1. DriverInit => Refs
  BY DEF DriverInit, Device!Init, Refs
<1>2. Refs => HeldWhileBound
  BY DEF Refs, HeldWhileBound, Device!HeldWhileBound
<1> QED BY <1>1, <1>2, RefsStep, PTL DEF DriverSpec

-----------------------------------------------------------------------------
HIDE DEF TypeOK

GivingUp == {"unregister", "unregister_release"}

(***************************************************************************)
(* The page of a failed mapping that was not the base is lost, and it alone*)
(* stays reserved beside the page of the build that is loaded; a page that *)
(* is lost is never granted again.  Tasks are inside only while the module *)
(* is there, and the attribute is there only before anything took it away; *)
(* those inside with nothing mapped came in early.                         *)
(***************************************************************************)
Granted == stage \in {"map", "in", "exit", "unregister_release"}

Pages ==
  /\ reserved = lost \cup (IF Granted THEN {Requested[ko]} ELSE {})
  /\ Granted => Requested[ko] \notin lost
  /\ Base \notin lost

Attribute ==
  /\ file => stage \in {"request", "map", "in"}
  /\ inside # {} => stage \in {"request", "map", "in", "exit"} \cup GivingUp
  /\ stage \in {"in", "exit"} => hmreg_mem = Mapped[ko]
  /\ stage \in {"out", "create", "request", "map"} \cup GivingUp => hmreg_mem = NoPage

Driver ==
  /\ registered <=> stage # "out"
  /\ stage # "out" => ko \in Builds
  /\ stage \in {"create", "request", "map", "out", "in", "exit"} \cup GivingUp
  /\ faulted \subseteq inside

Calls ==
  /\ page \in [Readers -> Nat]
  /\ hmreg_mem = NoPage => inside \subseteq early
  /\ \A t \in faulted : t \in early \/ page[t] > 0

HInv == Pages /\ Attribute /\ Driver /\ Calls

-----------------------------------------------------------------------------
LEMMA HmregStepInv == HInv /\ [Hmreg!Next]_hmVars => HInv'
<1> SUFFICES ASSUME HInv, [Hmreg!Next]_hmVars PROVE HInv'
  OBVIOUS
<1> USE DEF HInv, Pages, Granted, Attribute, Driver, Calls, GivingUp, Hmreg!callVars
<1>1. ASSUME NEW b \in Builds, Hmreg!Register(b) PROVE HInv'
  BY <1>1 DEF Hmreg!Register
<1>2. CASE Hmreg!CreateFile
  BY <1>2 DEF Hmreg!CreateFile
<1>3. CASE Hmreg!CreateFails
  BY <1>3 DEF Hmreg!CreateFails
<1>4. CASE Hmreg!Request
  BY <1>4 DEF Hmreg!Request
<1>5. CASE Hmreg!RequestFails
  BY <1>5 DEF Hmreg!RequestFails
<1>6. CASE Hmreg!Map
  BY <1>6 DEF Hmreg!Map
<1>7. CASE Hmreg!MapFails
  BY <1>7 DEF Hmreg!MapFails
<1>8. CASE Hmreg!GiveUp
  BY <1>8 DEF Hmreg!GiveUp
<1>9. CASE Hmreg!Exit
  BY <1>9 DEF Hmreg!Exit
<1>10. CASE Hmreg!ExitEnds
  BY <1>10 DEF Hmreg!ExitEnds
<1>11. CASE Hmreg!Reset
  BY <1>11 DEF Hmreg!Reset
<1>12. ASSUME NEW t \in Readers, Hmreg!Enter(t)
       PROVE  HInv'
  BY <1>12 DEF Hmreg!Enter
<1>16. ASSUME NEW t \in Readers, Hmreg!Leave(t)
       PROVE  HInv'
  <2>1. page' \in [Readers -> Nat] /\ \A u \in Readers \ {t} : page'[u] = page[u]
    BY <1>16 DEF Hmreg!Leave
  <2>2. t \notin faulted /\ early' = early \ {t} /\ inside' = inside \ {t}
    BY <1>16 DEF Hmreg!Leave
  <2>3. UNCHANGED <<ko, stage, registered, file, reserved, hmreg_mem, faulted, lost>>
    BY <1>16 DEF Hmreg!Leave
  <2>4. \A u \in faulted : page'[u] = page[u]
    BY <2>2, <1>16 DEF Hmreg!Leave
  <2> QED BY <2>1, <2>2, <2>3, <2>4
<1>13. ASSUME NEW t \in Readers, Hmreg!Access(t)
       PROVE  HInv'
  BY <1>13 DEF Hmreg!Access, Hmreg!Accessing
<1>14. ASSUME NEW t \in Readers, Hmreg!AccessFaults(t)
       PROVE  HInv'
  BY <1>14 DEF Hmreg!AccessFaults, Hmreg!Accessing
<1>15. CASE UNCHANGED hmVars
  BY <1>15 DEF hmVars
<1> QED BY <1>1, <1>2, <1>3, <1>4, <1>5, <1>6, <1>7, <1>8, <1>9, <1>10, <1>11, <1>12,
           <1>13, <1>14, <1>15, <1>16 DEF Hmreg!Next

LEMMA OneOfThem ==
  [KernelNext]_kernelVars => [DriverNext]_driverVars /\ [Hmreg!Next]_hmVars
  BY DEF KernelNext, UioStep, HmregStep, kernelVars

LEMMA HmregInductive == KernelSpec => []HInv
<1>1. KernelInit => HInv
  BY DEF KernelInit, Hmreg!Init, HInv, Pages, Granted, Attribute, Driver, Calls, GivingUp
<1> QED BY <1>1, HmregStepInv, OneOfThem, PTL DEF KernelSpec

(***************************************************************************)
(* Removing a hmreg kills nobody, however many tasks are in its attribute  *)
(* and over however many pages their calls run: a task dies there only     *)
(* because the load let it in too early or beyond the mapped page.         *)
(***************************************************************************)
THEOREM RemovalKillsNobodyAlways == KernelSpec => []RemovalKillsNobody
<1>1. HInv => RemovalKillsNobody
  BY DEF HInv, Calls, RemovalKillsNobody, Hmreg!RemovalKillsNobody
<1> QED BY <1>1, HmregInductive, PTL

(***************************************************************************)
(* hm2reg_uio holds of every device exactly what its users need, and a     *)
(* hmreg that is out has given back all but lost pages.                    *)
(***************************************************************************)
THEOREM HeldWhileLoadedAlways == KernelSpec => []HeldWhileLoaded
<1>1. KernelInit => DriverInit
  BY DEF KernelInit
<1>2. KernelSpec => []HeldWhileBound
  <2>1. DriverInit => Refs
    BY DEF DriverInit, Device!Init, Refs
  <2>2. Refs => HeldWhileBound
    BY DEF Refs, HeldWhileBound, Device!HeldWhileBound
  <2> QED BY <1>1, <2>1, <2>2, RefsStep, OneOfThem, PTL DEF KernelSpec
<1>3. HInv => Hmreg!GivenBack
  BY DEF HInv, Pages, Granted, Attribute, Driver, Calls, GivingUp, Hmreg!GivenBack
<1> QED BY <1>2, <1>3, HmregInductive, PTL DEF HeldWhileLoaded

-----------------------------------------------------------------------------
(***************************************************************************)
(* Types.  Only a count of enables that follows the flag is a number: two  *)
(* CPUs that undo each other's disable_irq would take it below zero.       *)
(***************************************************************************)
LEMMA DeviceTyped == Refs /\ Device!TypeOK /\ [DriverNext]_driverVars => Device!TypeOK'
<1> SUFFICES ASSUME Refs, Device!TypeOK, [DriverNext]_driverVars PROVE Device!TypeOK'
  OBVIOUS
<1>1. Refs'
  BY RefsStep
<1> DEFINE Files(d) == opens[d] + orphaned[d]
<1>2. bound' \subseteq Devs /\ \A d \in Devs : Files(d)' <= MaxOpens
  <2> USE MaxOpensAssumption DEF Refs, Device!TypeOK
  <2>0. \A e \in Devs : Files(e) <= MaxOpens
    OBVIOUS
  <2>1. ASSUME NEW d \in Devs, Device!Probe(d)
        PROVE  bound' \subseteq Devs /\ opens' = opens /\ orphaned' = orphaned
    BY <2>1 DEF Device!Probe, Device!BadConfiguration, Device!NoMemory,
                Device!RegistrationFails, Device!Registered
  <2>2. ASSUME NEW d \in Devs, Device!Remove(d)
        PROVE  bound' \subseteq bound /\ \A e \in Devs : Files(e)' <= Files(e)
    BY <2>2 DEF Device!Remove
  <2>3. ASSUME NEW d \in Devs, Device!Release(d)
        PROVE  bound' = bound /\ \A e \in Devs : Files(e)' <= Files(e)
    <3>1. CASE opens[d] > 0 /\ opens' = [opens EXCEPT ![d] = @ - 1] /\ UNCHANGED orphaned
      BY <2>3, <3>1 DEF Device!Release
    <3>2. CASE orphaned[d] > 0 /\ orphaned' = [orphaned EXCEPT ![d] = @ - 1] /\ UNCHANGED opens
      BY <2>3, <3>2 DEF Device!Release
    <3> QED BY <2>3, <3>1, <3>2 DEF Device!Release
  <2>4. ASSUME NEW d \in Devs, Device!Open(d)
        PROVE  bound' = bound /\ \A e \in Devs : Files(e)' <= MaxOpens
    BY <2>0, <2>4 DEF Device!Open
  <2>5. CASE UNCHANGED deviceVars
    BY <2>0, <2>5 DEF deviceVars
  <2>6. \A e \in Devs : Files(e) \in Nat /\ Files(e)' \in Nat
    BY <1>1
  <2>7. ASSUME NEW d \in Devs, ProbeStep(d) \/ RemoveStep(d) \/ FileStep(d)
        PROVE  bound' \subseteq Devs /\ \A e \in Devs : Files(e)' <= MaxOpens
    <3>1. CASE Device!Probe(d)
      BY <2>0, <2>1, <3>1
    <3>2. CASE Device!Remove(d)
      BY <2>0, <2>2, <2>6, <3>2
    <3>3. CASE Device!Release(d)
      BY <2>0, <2>3, <2>6, <3>3
    <3>4. CASE Device!Open(d)
      BY <2>4, <3>4
    <3> QED BY <2>7, <3>1, <3>2, <3>3, <3>4 DEF ProbeStep, RemoveStep, FileStep
  <2> QED BY <2>5, <2>7 DEF DriverNext, HandlerStep, LineStep, CallStep, Write, driverVars
<1>3. /\ opens' \in [Devs -> 0 .. MaxOpens] /\ orphaned' \in [Devs -> 0 .. MaxOpens]
      /\ power' \in [Devs -> 0 .. MaxOpens]
  BY <1>1, <1>2, MaxOpensAssumption DEF Refs
<1>4. pm' \in [Devs -> 0 .. 1]
  BY <1>1 DEF Refs
<1> QED BY <1>1, <1>2, <1>3, <1>4 DEF Refs, Device!TypeOK

HTyped ==
  /\ ko \in Builds \cup {NoBuild}
  /\ registered \in BOOLEAN /\ file \in BOOLEAN
  /\ lost \subseteq {Requested[b] : b \in Builds}
  /\ inside \subseteq Readers /\ early \subseteq inside
  /\ to \in [Readers -> Nat] /\ page \in [Readers -> Nat]
  /\ \A t \in Readers : page[t] <= to[t] /\ (t \notin inside => page[t] = 0)

LEMMA HTypedStep == HInv /\ HTyped /\ [Hmreg!Next]_hmVars => HTyped'
<1> SUFFICES ASSUME HInv, HTyped, [Hmreg!Next]_hmVars PROVE HTyped'
  OBVIOUS
<1> USE DEF HTyped, Hmreg!callVars
<1>1. CASE Hmreg!GiveUp
  <2>1. Requested[ko] \in {Requested[b] : b \in Builds}
    BY <1>1 DEF Hmreg!GiveUp, HInv, Driver
  <2> QED BY <1>1, <2>1 DEF Hmreg!GiveUp
<1>2. CASE \/ \E b \in Builds : Hmreg!Register(b)
           \/ Hmreg!CreateFile \/ Hmreg!CreateFails \/ Hmreg!Request \/ Hmreg!RequestFails
  BY <1>2 DEF Hmreg!Register, Hmreg!CreateFile, Hmreg!CreateFails, Hmreg!Request,
              Hmreg!RequestFails
<1>3. CASE Hmreg!Map \/ Hmreg!MapFails \/ Hmreg!Exit \/ Hmreg!ExitEnds
  BY <1>3 DEF Hmreg!Map, Hmreg!MapFails, Hmreg!Exit, Hmreg!ExitEnds
<1>7. CASE Hmreg!Reset
  <2>1. to' \in [Readers -> Nat] /\ page' \in [Readers -> Nat]
    BY <1>7 DEF Hmreg!Reset
  <2>2. \A t \in Readers : page'[t] = 0 /\ to'[t] = 0
    BY <1>7 DEF Hmreg!Reset
  <2>3. /\ ko' = NoBuild /\ registered' \in BOOLEAN /\ file' \in BOOLEAN
        /\ inside' = {} /\ early' = {} /\ lost' = {}
    BY <1>7 DEF Hmreg!Reset
  <2> QED BY <2>1, <2>2, <2>3
<1>4. ASSUME NEW t \in Readers, Hmreg!Enter(t)
      PROVE  HTyped'
  <2>1. PICK n \in Spans[ko] : to' = [to EXCEPT ![t] = n]
    BY <1>4 DEF Hmreg!Enter
  <2>2. n \in Nat
    BY <1>4, SpansAssumption DEF Hmreg!Enter, HInv, Driver, Attribute
  <2>3. page[t] = 0
    BY <1>4 DEF Hmreg!Enter
  <2> QED BY <1>4, <2>1, <2>2, <2>3 DEF Hmreg!Enter
<1>5. ASSUME NEW t \in Readers,
             Hmreg!Access(t) \/ Hmreg!AccessFaults(t) \/ Hmreg!Leave(t)
      PROVE  HTyped'
  BY <1>5 DEF Hmreg!Access, Hmreg!AccessFaults, Hmreg!Accessing, Hmreg!Leave
<1>6. CASE UNCHANGED hmVars
  BY <1>6 DEF hmVars
<1> QED BY <1>1, <1>2, <1>3, <1>4, <1>5, <1>6, <1>7 DEF Hmreg!Next

LEMMA HmregTyped == HInv /\ HTyped => Hmreg!TypeOK
<1> SUFFICES ASSUME HInv, HTyped PROVE Hmreg!TypeOK
  OBVIOUS
<1>1. reserved \subseteq {Requested[b] : b \in Builds} /\ lost \subseteq reserved
  BY DEF HInv, HTyped, Pages, Granted, Driver
<1>2. hmreg_mem \in {Mapped[b] : b \in Builds} \cup {NoPage}
  BY DEF HInv, Attribute, Driver, GivingUp
<1>3. stage \in Hmreg!Loading \cup {"out", "in", "exit", "unregister", "unregister_release"}
  BY DEF HInv, Driver, GivingUp, Hmreg!Loading
<1> QED BY <1>1, <1>2, <1>3 DEF HInv, HTyped, Driver, Hmreg!TypeOK

(***************************************************************************)
(* Every variable of the kernel modules keeps its type; of the disable     *)
(* count that is so under the conditions of NoDepthDamage.                 *)
(***************************************************************************)
THEOREM KernelTyped ==
  ASSUME ~SMP \/ OnePerEvent
  PROVE  KernelSpec => []KernelTypeOK
<1>1. KernelInit => DInv /\ Device!TypeOK /\ HTyped
  <2> SUFFICES ASSUME KernelInit PROVE DInv /\ Device!TypeOK /\ HTyped
    OBVIOUS
  <2>1. DInv
    BY DriverInitInv DEF KernelInit
  <2>2. Device!TypeOK
    BY MaxOpensAssumption DEF KernelInit, DriverInit, Device!Init, Device!TypeOK
  <2>3. HTyped
    <3>1. to \in [Readers -> Nat] /\ page \in [Readers -> Nat]
      BY DEF KernelInit, Hmreg!Init
    <3>2. \A t \in Readers : page[t] = 0 /\ to[t] = 0
      BY DEF KernelInit, Hmreg!Init
    <3>3. /\ ko = NoBuild /\ registered \in BOOLEAN /\ file \in BOOLEAN
          /\ inside = {} /\ early = {} /\ lost = {}
      BY DEF KernelInit, Hmreg!Init
    <3> QED BY <3>1, <3>2, <3>3 DEF HTyped
  <2> QED BY <2>1, <2>2, <2>3
<1>2. DInv /\ Device!TypeOK /\ HTyped /\ HInv /\ [KernelNext]_kernelVars
        => DInv' /\ Device!TypeOK' /\ HTyped'
  <2>1. DInv => Refs
    BY DEF DInv
  <2> QED BY <2>1, DriverStepInv, DeviceTyped, HTypedStep, OneOfThem
<1>3. DInv /\ Device!TypeOK /\ HTyped /\ HInv => KernelTypeOK
  BY HmregTyped DEF DInv, IInv, KernelTypeOK, DriverTypeOK
<1> QED BY <1>1, <1>2, <1>3, HmregInductive, PTL DEF KernelSpec
=============================================================================
