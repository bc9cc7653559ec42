------------------------------- MODULE UioIrq -------------------------------
(***************************************************************************)
(* Interrupt control in Software/hm2reg_uio-module: the handler masks the  *)
(* interrupt, user space (one write to /dev/uio0 per irqcontrol call)      *)
(* masks and unmasks it.  A flag bit says whether the driver has it        *)
(* masked; the kernel counts the nesting of disable_irq in depth.          *)
(*                                                                         *)
(* The kernel is external: the handler runs on one CPU at a time, and only *)
(* while depth is 0; disable_irq waits for a running handler,              *)
(* disable_irq_nosync does not; enable_irq at depth 0 warns and does       *)
(* nothing; spin_lock_irqsave keeps the handler off the caller's own CPU.  *)
(* The SoC has two CPUs (SMP = TRUE); on one CPU no task runs while the    *)
(* handler does, and the handler does not start while the lock is held.    *)
(***************************************************************************)
EXTENDS Integers

CONSTANTS Tasks, NoTask,
          SMP,         \* more than one CPU
          OnePerEvent  \* user space unmasks only in answer to an interrupt event
ASSUME TasksAssumption == NoTask \notin Tasks
ASSUME ModeAssumption == SMP \in BOOLEAN /\ OnePerEvent \in BOOLEAN

VARIABLES flag,   \* bit 0 of priv->flags: the driver has masked the interrupt
          depth,  \* the kernel's disable count
          lock,   \* owner of priv->lock
          tpc,    \* where each task is in irqcontrol
          irq_on, \* the argument of each task's call
          hpc,    \* where the handler is
          line,   \* the device asserts its interrupt line
          event,  \* an interrupt was notified and not answered by an unmask yet
          quiet   \* history: the last finished irqcontrol masked the interrupt

vars == <<flag, depth, lock, tpc, irq_on, hpc, line, event, quiet>>

Init ==
  /\ flag = FALSE /\ depth = 0 /\ lock = NoTask
  /\ tpc = [t \in Tasks |-> "idle"]
  /\ irq_on = [t \in Tasks |-> FALSE]
  /\ hpc = "idle" /\ line = FALSE /\ event = FALSE /\ quiet = FALSE

TaskMayRun      == SMP \/ hpc = "idle"
HandlerMayStart == SMP \/ lock = NoTask

-----------------------------------------------------------------------------
\* The device raises its line; user space acknowledges it in the device.
Raise == ~line /\ line' = TRUE
         /\ UNCHANGED <<flag, depth, lock, tpc, irq_on, hpc, event, quiet>>
Ack == line /\ TaskMayRun /\ line' = FALSE
       /\ UNCHANGED <<flag, depth, lock, tpc, irq_on, hpc, event, quiet>>

\* uio_pdrv_genirq_handler
HandlerStart ==
  /\ hpc = "idle" /\ line /\ depth = 0 /\ HandlerMayStart
  /\ hpc' = "test"
  /\ UNCHANGED <<flag, depth, lock, tpc, irq_on, line, event, quiet>>

\* Mutant: the handler does not look at the flag.
HandlerNoTest ==
  /\ hpc = "test" /\ hpc' = "disable"
  /\ UNCHANGED <<flag, depth, lock, tpc, irq_on, line, event, quiet>>

HandlerTest ==
  /\ hpc = "test"
  /\ flag' = TRUE
  /\ hpc' = IF flag THEN "return" ELSE "disable"
  /\ UNCHANGED <<depth, lock, tpc, irq_on, line, event, quiet>>

HandlerDisable ==
  /\ hpc = "disable"
  /\ depth' = depth + 1
  /\ hpc' = "return"
  /\ UNCHANGED <<flag, lock, tpc, irq_on, line, event, quiet>>

HandlerReturn ==
  /\ hpc = "return" /\ hpc' = "idle"
  /\ event' = TRUE  \* uio_event_notify
  /\ UNCHANGED <<flag, depth, lock, tpc, irq_on, line, quiet>>

Handler == HandlerStart \/ HandlerTest \/ HandlerDisable \/ HandlerReturn

-----------------------------------------------------------------------------
\* uio_pdrv_genirq_irqcontrol: one call of task t, spin_lock to spin_unlock.
Goto(t, where) == tpc' = [tpc EXCEPT ![t] = where]

Lock(t, on) ==
  /\ tpc[t] = "idle" /\ lock = NoTask /\ TaskMayRun
  /\ on /\ OnePerEvent => event
  /\ event' = (event /\ ~on)
  /\ lock' = t
  /\ irq_on' = [irq_on EXCEPT ![t] = on]
  /\ quiet' = FALSE
  /\ Goto(t, "test")
  /\ UNCHANGED <<flag, depth, hpc, line>>

\* Mutant: unmasking leaves the flag set.
TestNoClear(t) ==
  /\ tpc[t] = "test" /\ TaskMayRun
  /\ flag' = (flag \/ ~irq_on[t])
  /\ Goto(t, IF flag # irq_on[t] THEN "unlock"
             ELSE IF irq_on[t] THEN "enable" ELSE "disable")
  /\ UNCHANGED <<depth, lock, irq_on, hpc, line, event, quiet>>

Test(t) ==
  /\ tpc[t] = "test" /\ TaskMayRun
  /\ flag' = ~irq_on[t]
  /\ Goto(t, IF flag # irq_on[t] THEN "unlock"
             ELSE IF irq_on[t] THEN "enable" ELSE "disable")
  /\ UNCHANGED <<depth, lock, irq_on, hpc, line, event, quiet>>

\* Mutant: a second call undoes the mask twice.
EnableTwice(t) ==
  /\ tpc[t] = "enable" /\ TaskMayRun
  /\ depth' = depth - 2
  /\ Goto(t, "unlock")
  /\ UNCHANGED <<flag, lock, irq_on, hpc, line, event, quiet>>

Enable(t) ==
  /\ tpc[t] = "enable" /\ TaskMayRun
  /\ depth' = IF depth = 0 THEN 0 ELSE depth - 1
  /\ Goto(t, "unlock")
  /\ UNCHANGED <<flag, lock, irq_on, hpc, line, event, quiet>>

Disable(t) ==
  /\ tpc[t] = "disable" /\ TaskMayRun
  /\ depth' = depth + 1
  /\ Goto(t, "sync")
  /\ UNCHANGED <<flag, lock, irq_on, hpc, line, event, quiet>>

Sync(t) ==
  /\ tpc[t] = "sync" /\ hpc = "idle"
  /\ Goto(t, "unlock")
  /\ UNCHANGED <<flag, depth, lock, irq_on, hpc, line, event, quiet>>

Unlock(t) ==
  /\ tpc[t] = "unlock" /\ TaskMayRun
  /\ lock' = NoTask
  /\ quiet' = ~irq_on[t]
  /\ Goto(t, "idle")
  /\ UNCHANGED <<flag, depth, irq_on, hpc, line, event>>

InCall(t) == Test(t) \/ Enable(t) \/ Disable(t) \/ Sync(t) \/ Unlock(t)

Next ==
  \/ Raise \/ Ack \/ Handler
  \/ \E t \in Tasks : (\E on \in BOOLEAN : Lock(t, on)) \/ InCall(t)

Spec == Init /\ [][Next]_vars
-----------------------------------------------------------------------------
TypeOK ==
  /\ flag \in BOOLEAN /\ line \in BOOLEAN /\ event \in BOOLEAN /\ quiet \in BOOLEAN
  /\ depth \in Nat
  /\ lock \in Tasks \cup {NoTask}
  /\ tpc \in [Tasks -> {"idle", "test", "enable", "disable", "sync", "unlock"}]
  /\ irq_on \in [Tasks -> BOOLEAN]
  /\ hpc \in {"idle", "test", "disable", "return"}

(***************************************************************************)
(* The driver's record of the mask agrees with the kernel's count whenever *)
(* neither the handler nor a call is in the middle: "keep track of the     *)
(* state to prevent per-irq depth damage.  Serialize this operation to     *)
(* support multiple tasks" (hm2reg_uio-module.c:83).                       *)
(***************************************************************************)
DepthTracksFlag ==
  hpc = "idle" /\ lock = NoTask => depth = IF flag THEN 1 ELSE 0

(***************************************************************************)
(* Once an irqcontrol(0) has returned, the handler does not start until a  *)
(* later call; on one CPU it is not running either.  (On two, a call that  *)
(* finds the flag set by a handler still running does not wait for it.)    *)
(***************************************************************************)
QuietAfterDisable ==
  quiet => IF hpc = "idle" THEN depth > 0 ELSE SMP /\ flag

=============================================================================
