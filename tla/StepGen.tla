------------------------------ MODULE StepGen -------------------------------
(***************************************************************************)
(* The step generator of hm2/kubstepgenzid.vhd in step/direction mode: an  *)
(* accumulator to which the rate is added at every tick of the basic rate; *)
(* when bit rsize-1 falls going up, or rises going down, one step is due.  *)
(* A step that is due too early for the pulse and direction timers is held *)
(* back by stopping the accumulator (ddshold).  One action is one clock.   *)
(*                                                                         *)
(* Not modelled: the step table, the quadrature and up/down outputs, which *)
(* are functions of the same state, the index and probe latches and the    *)
(* timer sample.  The times are set before the generator runs.             *)
(***************************************************************************)
EXTENDS Integers

CONSTANTS rsize, asize, \* bits of the rate and of the accumulator
          lowbits,      \* asize - buswidth: bits a load leaves alone
          Rates,        \* rates the host writes
          Loads, None,  \* what it loads into the accumulator
          PulseTimes, DirTimes  \* pulse times and direction times it may have set
ASSUME SizeAssumption ==
  /\ rsize \in Nat /\ lowbits \in Nat /\ asize \in Nat
  /\ lowbits < rsize /\ rsize < asize
ASSUME RatesAssumption == Rates \subseteq -(2 ^ (rsize - 1)) .. 2 ^ (rsize - 1) - 1
ASSUME LoadsAssumption == Loads \subseteq 0 .. 2 ^ (asize - lowbits) - 1 /\ None \notin Loads
ASSUME TimesAssumption ==  \* The timers are registers: there is a longest time.
  /\ PulseTimes \subseteq Nat /\ DirTimes \subseteq Nat
  /\ \E m \in PulseTimes \cup DirTimes : \A t \in PulseTimes \cup DirTimes : t <= m

VARIABLES stepaccum, steprate,
          dstepmsb, dstepdir,    \* the msb one clock ago; the direction of the last add
          stepdirout, steppulse,
          pulsewidthcount, dpulsewait,
          dirshcount, dirhold,
          times,                 \* pulseactivetime, pulseidletime, dirsetuptime, dirholdtime
          steps,                 \* history: steps up minus steps down, modulo the counter
          loadmoved,             \* history: the last change of the msb is a load's
          sinceDir, sinceStep, sinceIdle \* history: clocks since the direction changed,
                                 \* the pulse began, the pulse ended (up to Long)

vars == <<stepaccum, steprate, dstepmsb, dstepdir, stepdirout, steppulse,
          pulsewidthcount, dpulsewait, dirshcount, dirhold, times, steps,
          loadmoved, sinceDir, sinceStep, sinceIdle>>

Positions == 2 ^ (asize - rsize)
Msb(a) == (a \div 2 ^ (rsize - 1)) % 2 = 1
Position(a) == a \div 2 ^ rsize
Long == 1 + CHOOSE m \in PulseTimes \cup DirTimes : \A t \in PulseTimes \cup DirTimes : t <= m

\* Registers without an initial value start at 0 (the FPGA's power-up state).
Init ==
  /\ stepaccum = 0 /\ steprate = 0 /\ dstepmsb = FALSE /\ dstepdir = FALSE
  /\ stepdirout = FALSE /\ steppulse = FALSE
  /\ pulsewidthcount = 0 /\ dpulsewait = FALSE /\ dirshcount = 0 /\ dirhold = FALSE
  /\ times \in [active : PulseTimes \ {0}, idle : PulseTimes, setup : DirTimes, hold : DirTimes]
  /\ steps = 0 /\ loadmoved = FALSE
  /\ sinceDir = Long /\ sinceStep = Long /\ sinceIdle = Long

-----------------------------------------------------------------------------
\* The combinational signals.  A direction is TRUE when down.
stepmsb == Msb(stepaccum)
stepdir == steprate < 0
nextaccumWide == stepaccum + steprate  \* Mutant: the accumulator does not wrap.
nextaccum == (stepaccum + steprate) % 2 ^ asize
dirchange == stepdirout # stepdir
pulsewait == pulsewidthcount # 0
dirshwait == dirshcount # 0
dirholdwait == dirhold /\ dirshwait
dirsetupwait == ~dirhold /\ dirshwait
wewouldcount == \/ stepmsb /\ ~Msb(nextaccum) /\ ~stepdir
                \/ ~stepmsb /\ Msb(nextaccum) /\ stepdir

\* Mutant: "misses the case where Dirhold has timed out!"
ddsholdWaitForHold ==
  wewouldcount /\ ((dirholdwait /\ dirchange) \/ dirsetupwait \/ pulsewait \/ dpulsewait)
\* Mutant: a step waits for a direction that waits for the step.
ddsholdSettled ==
  wewouldcount /\ (dirholdwait \/ dirsetupwait \/ pulsewait \/ dpulsewait \/ dirchange \/ ~dirhold)

ddshold ==
  wewouldcount /\ ((dirholdwait /\ dirchange) \/ dirsetupwait \/ pulsewait \/ dpulsewait \/ dirchange)

\* Mutant: the present rate's direction, not that of the last add.
stepUpByRate == ~stepmsb /\ dstepmsb /\ ~stepdir

stepUp == ~stepmsb /\ dstepmsb /\ ~dstepdir
stepDown == stepmsb /\ ~dstepmsb /\ dstepdir
step == stepUp \/ stepDown

\* What becomes of the two timers and what they time.
Pulse ==
  LET ends == ~pulsewait /\ dpulsewait /\ steppulse IN
  /\ steppulse' = (step \/ (steppulse /\ ~ends))
  /\ pulsewidthcount' = IF step THEN times.active
                        ELSE IF ends THEN times.idle
                        ELSE IF pulsewait THEN pulsewidthcount - 1 ELSE 0
  /\ dpulsewait' = pulsewait

\* Mutant: the direction does not wait for its hold time.
DirectionNoHold ==
  LET turns == ~step /\ dirchange IN
  /\ stepdirout' = IF turns THEN stepdir ELSE stepdirout
  /\ dirshcount' = IF step THEN times.hold
                   ELSE IF turns THEN times.setup
                   ELSE IF dirshwait THEN dirshcount - 1 ELSE 0
  /\ dirhold' = IF step THEN TRUE ELSE IF turns THEN FALSE ELSE dirhold

Direction ==
  LET turns == ~step /\ ~dirholdwait /\ dirchange IN
  /\ stepdirout' = IF turns THEN stepdir ELSE stepdirout
  /\ dirshcount' = IF step THEN times.hold
                   ELSE IF turns THEN times.setup
                   ELSE IF dirshwait THEN dirshcount - 1 ELSE 0
  /\ dirhold' = IF step THEN TRUE ELSE IF turns THEN FALSE ELSE dirhold

\* A load replaces the upper bits only; dstepmsb's last assignment wins.
Accumulate(tick, load) ==
  LET added == IF tick /\ ~ddshold THEN nextaccum ELSE stepaccum IN
  /\ stepaccum' = IF load = None THEN added ELSE load * 2 ^ lowbits + (added % 2 ^ lowbits)
  /\ dstepdir' = IF tick /\ ~ddshold THEN stepdir ELSE dstepdir
  /\ dstepmsb' = stepmsb
  /\ loadmoved' = (load # None /\ Msb(stepaccum') # Msb(added))

Min2(a, b) == IF a < b THEN a ELSE b
Since(event, t) == IF event THEN 0 ELSE Min2(Long, t + 1)

Observe ==
  /\ steps' = (steps + (IF stepUp THEN 1 ELSE 0) - (IF stepDown THEN 1 ELSE 0)) % Positions
  /\ sinceDir' = Since(stepdirout' # stepdirout, sinceDir)
  /\ sinceStep' = Since(step, sinceStep)
  /\ sinceIdle' = Since(steppulse /\ ~steppulse', sinceIdle)

\* One clock: tick is basicrate = '1' and hold = '0'.
Clock(tick, rate, load) ==
  /\ Accumulate(tick, load) /\ Pulse /\ Direction /\ Observe
  /\ steprate' = rate
  /\ UNCHANGED times

Next ==
  \E tick \in BOOLEAN, rate \in Rates \cup {steprate}, load \in Loads \cup {None} :
    Clock(tick, rate, load)

Spec == Init /\ [][Next]_vars

\* The basic rate ticks again and again, with the rate left alone.
FairSpec == Spec /\ WF_vars(Clock(TRUE, steprate, None))
-----------------------------------------------------------------------------
TypeOK ==
  /\ stepaccum \in 0 .. 2 ^ asize - 1
  /\ steprate \in Rates \cup {0}
  /\ dstepmsb \in BOOLEAN /\ dstepdir \in BOOLEAN /\ stepdirout \in BOOLEAN
  /\ steppulse \in BOOLEAN /\ dpulsewait \in BOOLEAN /\ dirhold \in BOOLEAN
  /\ loadmoved \in BOOLEAN
  /\ pulsewidthcount \in 0 .. Long /\ dirshcount \in 0 .. Long
  /\ times \in [active : PulseTimes, idle : PulseTimes, setup : DirTimes, hold : DirTimes]
  /\ steps \in 0 .. Positions - 1
  /\ sinceDir \in 0 .. Long /\ sinceStep \in 0 .. Long /\ sinceIdle \in 0 .. Long

(***************************************************************************)
(* A step comes in the direction the output shows, after at least the setup*)
(* time of that direction, with the pulse before over for at least its idle*)
(* time: however the host changes rate and direction in between.           *)
(***************************************************************************)
StepIsSafe ==
  step => /\ stepdirout = stepDown
          /\ ~steppulse /\ sinceDir >= times.setup /\ sinceIdle >= times.idle

(***************************************************************************)
(* The direction changes only after the hold time of the last step, and a  *)
(* pulse is not cut short.                                                 *)
(***************************************************************************)
HoldAndWidth ==
  [][/\ stepdirout' # stepdirout => sinceStep >= times.hold
     /\ steppulse /\ ~steppulse' => sinceStep >= times.active]_vars

(***************************************************************************)
(* No step is lost and none made up: but for a step that is due in this    *)
(* very clock the steps put out are those the accumulator has counted.     *)
(***************************************************************************)
StepsFollowAccumulator == ~step => steps = Position(stepaccum)

(***************************************************************************)
(* A generator whose rate stays the same, and not 0, goes on stepping: the *)
(* holds never block each other.                                           *)
(***************************************************************************)
KeepsStepping ==
  \A r \in Rates \ {0} : <>[](steprate = r) => []<>step

(***************************************************************************)
(* Loading the accumulator makes no step: "avoid generating a step when    *)
(* loading accumulator" (kubstepgenzid.vhd:265).                           *)
(***************************************************************************)
NoStepOnLoad == ~(step /\ loadmoved)
=============================================================================
