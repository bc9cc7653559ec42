--------------------------- MODULE StepGen_proofs ---------------------------
(***************************************************************************)
(* Proofs about StepGen, for every width of its registers, every set of    *)
(* rates and every set of times.  Steps are safe because the sum of a timer*)
(* and of the clocks since it was started never falls below the time it    *)
(* was started with; there, of the accumulator only matters that its msb   *)
(* does not move but when it adds.  Steps are counted right because an     *)
(* addition moves the position by the one step it makes due: that needs    *)
(* the powers of two, which are counted as sets of subsets.                *)
(***************************************************************************)
EXTENDS StepGen, FiniteSetTheorems, FunctionTheorems, TLAPS

LEMMA LongIsLong ==
  Long \in Nat /\ \A t \in PulseTimes \cup DirTimes : t < Long
<1> DEFINE T == PulseTimes \cup DirTimes
           M == CHOOSE m \in T : \A t \in T : t <= m
<1>1. M \in T /\ \A t \in T : t <= M
  BY TimesAssumption
<1>2. Long = 1 + M /\ T \subseteq Nat
  BY TimesAssumption DEF Long
<1> HIDE DEF T, M
<1>3. \A t \in T : t < Long
  BY <1>1, <1>2
<1>4. Long \in Nat
  BY <1>1, <1>2
<1> QED BY <1>3, <1>4 DEF T

-----------------------------------------------------------------------------
Typed ==
  /\ pulsewidthcount \in Nat /\ dirshcount \in Nat
  /\ sinceDir \in Nat /\ sinceStep \in Nat /\ sinceIdle \in Nat
  /\ times.active \in PulseTimes \ {0} /\ times.idle \in PulseTimes
  /\ times.setup \in DirTimes /\ times.hold \in DirTimes
  /\ stepdirout \in BOOLEAN

LEMMA TimesShort ==
  ASSUME Typed
  PROVE  /\ Long \in Nat /\ times.active \in Nat /\ times.idle \in Nat
         /\ times.setup \in Nat /\ times.hold \in Nat
         /\ times.active # 0 /\ times.active < Long /\ times.idle < Long
         /\ times.setup < Long /\ times.hold < Long
<1>1. /\ times.active \in PulseTimes /\ times.idle \in PulseTimes /\ times.active # 0
      /\ times.setup \in DirTimes /\ times.hold \in DirTimes
  BY DEF Typed
<1> QED BY <1>1, LongIsLong, TimesAssumption

\* The pulse: while it lasts its timer runs, and then its idle time.
PulseTimed ==
  /\ steppulse => pulsewait \/ dpulsewait
  /\ steppulse => sinceStep + pulsewidthcount >= times.active
  /\ ~steppulse => sinceIdle + pulsewidthcount >= times.idle

\* The direction: setup time after it changed, hold time after a step.
DirTimed ==
  /\ IF dirhold THEN sinceDir >= times.setup
                ELSE sinceDir + dirshcount >= times.setup
  /\ IF dirhold THEN sinceStep + dirshcount >= times.hold
                ELSE sinceStep >= times.hold

IInv == Typed /\ PulseTimed /\ DirTimed /\ StepIsSafe

-----------------------------------------------------------------------------
LEMMA InitInv == Init => IInv
<1> SUFFICES ASSUME Init PROVE IInv
  OBVIOUS
<1> USE LongIsLong, TimesAssumption DEF Init
<1>1. Typed
  <2>1. times.active \in PulseTimes \ {0} /\ times.idle \in PulseTimes
    OBVIOUS
  <2>2. times.setup \in DirTimes /\ times.hold \in DirTimes
    OBVIOUS
  <2> QED BY <2>1, <2>2 DEF Typed
<1>2. PulseTimed /\ DirTimed
  BY <1>1, TimesShort DEF PulseTimed, DirTimed
<1>3. ~step
  BY DEF step, stepUp, stepDown
<1> QED BY <1>1, <1>2, <1>3 DEF IInv, StepIsSafe

(***************************************************************************)
(* A step is due only in the clock after an add that crossed the msb, and  *)
(* in its direction: no wait was on when the accumulator added, and the    *)
(* clock of the add is no step's clock itself.                             *)
(***************************************************************************)
LEMMA StepNeedsAdd ==
  ASSUME NEW tick \in BOOLEAN, Accumulate(tick, None), step'
  PROVE  /\ wewouldcount /\ ~ddshold
         /\ stepDown' <=> stepdir
<1> USE DEF step, stepUp, stepDown, stepmsb
<1>1. dstepmsb' = stepmsb
  BY DEF Accumulate
<1>2. CASE tick /\ ~ddshold
  <2>1. stepaccum' = nextaccum /\ dstepdir' = stepdir
    BY <1>2 DEF Accumulate
  <2>2. stepDown' <=> (Msb(nextaccum) /\ ~stepmsb /\ stepdir)
    BY <1>1, <2>1
  <2>3. stepUp' <=> (~Msb(nextaccum) /\ stepmsb /\ ~stepdir)
    BY <1>1, <2>1
  <2> QED BY <1>2, <2>2, <2>3 DEF wewouldcount
<1>3. CASE ~(tick /\ ~ddshold)
  BY <1>1, <1>3 DEF Accumulate
<1> QED BY <1>2, <1>3

LEMMA NoStepDuringAdd ==
  ASSUME IInv, wewouldcount, ~ddshold
  PROVE  ~step /\ ~dirchange /\ ~pulsewait /\ ~dpulsewait /\ ~dirsetupwait
<1>1. ~dirchange /\ ~pulsewait /\ ~dpulsewait /\ ~dirsetupwait
  BY DEF ddshold
<1>2. stepmsb => ~stepdir
  BY DEF wewouldcount
<1>3. ~stepmsb => stepdir
  BY DEF wewouldcount
<1>4. ASSUME step PROVE FALSE
  <2>1. stepDown <=> stepdir
    BY <1>1, <1>4 DEF IInv, StepIsSafe, dirchange
  <2> QED BY <1>2, <1>3, <1>4, <2>1 DEF step, stepUp, stepDown
<1> QED BY <1>1, <1>4

-----------------------------------------------------------------------------
\* One clock, without a load.
LEMMA ClockInv ==
  ASSUME IInv, NEW tick \in BOOLEAN, NEW rate, Clock(tick, rate, None)
  PROVE  IInv'
<1> USE TimesShort
<1>0. Typed
  BY DEF IInv
<1>1. /\ sinceDir' = Since(stepdirout' # stepdirout, sinceDir)
      /\ sinceStep' = Since(step, sinceStep)
      /\ sinceIdle' = Since(steppulse /\ ~steppulse', sinceIdle)
      /\ times' = times /\ dpulsewait' = pulsewait
  BY DEF Clock, Observe, Pulse
<1>2. Typed'
  <2>1. pulsewidthcount' \in Nat
    BY <1>0 DEF Clock, Pulse, Typed, pulsewait
  <2>2. dirshcount' \in Nat
    BY <1>0 DEF Clock, Direction, Typed, dirshwait
  <2>3. sinceDir' \in Nat /\ sinceStep' \in Nat /\ sinceIdle' \in Nat
    BY <1>0, <1>1 DEF Since, Min2, Typed
  <2>4. stepdirout' \in BOOLEAN
    <3>1. stepdir \in BOOLEAN
      BY DEF stepdir
    <3> QED BY <1>0, <3>1 DEF Clock, Direction, Typed
  <2> QED BY <1>1, <2>1, <2>2, <2>3, <2>4 DEF IInv, Typed
<1>3. step => ~steppulse
  BY DEF IInv, StepIsSafe
<1>4. PulseTimed'
  <2>1. CASE step
    <3>1. steppulse' /\ pulsewidthcount' = times.active /\ sinceStep' = 0
      BY <1>1, <2>1 DEF Clock, Pulse, Since
    <3> QED BY <1>1, <1>2, <3>1 DEF PulseTimed, pulsewait, Typed
  <2>2. CASE ~step /\ steppulse /\ ~pulsewait
    <3>1. ~steppulse' /\ pulsewidthcount' = times.idle /\ sinceIdle' = 0
      BY <1>1, <2>2 DEF Clock, Pulse, Since, IInv, PulseTimed
    <3> QED BY <1>1, <1>2, <3>1 DEF PulseTimed, Typed
  <2>3. CASE ~step /\ ~(steppulse /\ ~pulsewait)
    <3>1. steppulse' <=> steppulse
      BY <2>3 DEF Clock, Pulse
    <3>2. pulsewidthcount' = IF pulsewait THEN pulsewidthcount - 1 ELSE 0
      BY <2>3 DEF Clock, Pulse
    <3>3. sinceStep' = Min2(Long, sinceStep + 1) /\ sinceIdle' = Min2(Long, sinceIdle + 1)
      BY <1>1, <2>3, <3>1 DEF Since
    <3>4. steppulse => pulsewait
      BY <2>3
    <3>5. steppulse' => sinceStep' + pulsewidthcount' >= times.active
      BY <1>0, <3>1, <3>2, <3>3, <3>4 DEF IInv, Typed, PulseTimed, pulsewait, Min2
    <3>6. ~steppulse' => sinceIdle' + pulsewidthcount' >= times.idle
      BY <1>0, <3>1, <3>2, <3>3 DEF IInv, Typed, PulseTimed, pulsewait, Min2
    <3>7. steppulse' => dpulsewait'
      BY <1>1, <3>1, <3>4
    <3> QED BY <1>1, <3>5, <3>6, <3>7 DEF PulseTimed
  <2> QED BY <2>1, <2>2, <2>3
<1>5. DirTimed'
  <2>1. CASE step
    <3>1. dirhold' /\ dirshcount' = times.hold /\ stepdirout' = stepdirout
      BY <2>1 DEF Clock, Direction
    <3>2. sinceStep' = 0 /\ sinceDir' = Min2(Long, sinceDir + 1)
      BY <1>1, <2>1, <3>1 DEF Since
    <3>3. sinceDir >= times.setup
      BY <2>1 DEF IInv, StepIsSafe
    <3> QED BY <1>0, <1>1, <3>1, <3>2, <3>3 DEF Typed, DirTimed, Min2
  <2>2. CASE ~step /\ ~dirholdwait /\ dirchange
    <3>1. ~dirhold' /\ dirshcount' = times.setup /\ sinceStep' = Min2(Long, sinceStep + 1)
      BY <1>1, <2>2 DEF Clock, Direction, Since
    <3>2. sinceStep >= times.hold
      BY <2>2 DEF IInv, Typed, DirTimed, dirholdwait, dirshwait
    <3> QED BY <1>0, <1>1, <1>2, <3>1, <3>2 DEF Typed, DirTimed, Min2
  <2>3. CASE ~step /\ ~(~dirholdwait /\ dirchange)
    <3>1. /\ stepdirout' = stepdirout /\ dirhold' = dirhold
          /\ dirshcount' = IF dirshwait THEN dirshcount - 1 ELSE 0
      BY <2>3 DEF Clock, Direction
    <3>2. sinceStep' = Min2(Long, sinceStep + 1) /\ sinceDir' = Min2(Long, sinceDir + 1)
      BY <1>1, <2>3, <3>1 DEF Since
    <3> QED BY <1>0, <1>1, <3>1, <3>2 DEF IInv, Typed, DirTimed, dirshwait, Min2
  <2> QED BY <2>1, <2>2, <2>3
<1>6. StepIsSafe'
  <2> SUFFICES ASSUME step' PROVE StepIsSafe'
    BY DEF StepIsSafe
  <2>1. wewouldcount /\ ~ddshold /\ (stepDown' <=> stepdir)
    BY StepNeedsAdd DEF Clock
  <2>2. ~step /\ ~dirchange /\ ~pulsewait /\ ~dpulsewait /\ ~dirsetupwait
    BY <2>1, NoStepDuringAdd
  <2>3. stepdirout' = stepdirout /\ stepdirout = stepdir
    BY <2>2 DEF Clock, Direction, dirchange
  <2>4. ~steppulse /\ ~steppulse'
    BY <2>2 DEF Clock, Pulse, IInv, PulseTimed
  <2>5. sinceDir >= times.setup /\ sinceIdle >= times.idle
    BY <2>2, <2>4 DEF IInv, Typed, PulseTimed, DirTimed, pulsewait, dirsetupwait, dirshwait
  <2>6. sinceDir' >= times.setup /\ sinceIdle' >= times.idle
    BY <1>0, <1>1, <2>3, <2>4, <2>5 DEF Since, Min2, Typed
  <2> QED BY <1>1, <2>1, <2>3, <2>4, <2>6 DEF StepIsSafe, stepDown, stepdir
<1> QED BY <1>2, <1>4, <1>5, <1>6 DEF IInv

\* The direction turns, and the pulse ends, only when its time is over.
LEMMA ClockHolds ==
  ASSUME IInv, NEW tick \in BOOLEAN, NEW rate, Clock(tick, rate, None)
  PROVE  /\ stepdirout' # stepdirout => sinceStep >= times.hold
         /\ steppulse /\ ~steppulse' => sinceStep >= times.active
<1> USE TimesAssumption
<1>1. ASSUME stepdirout' # stepdirout PROVE sinceStep >= times.hold
  <2>1. ~dirholdwait
    BY <1>1 DEF Clock, Direction
  <2> QED BY <2>1 DEF IInv, Typed, DirTimed, dirholdwait, dirshwait
<1>2. ASSUME steppulse, ~steppulse' PROVE sinceStep >= times.active
  <2>1. ~pulsewait
    BY <1>2 DEF Clock, Pulse
  <2> QED BY <1>2, <2>1 DEF IInv, Typed, PulseTimed, pulsewait
<1> QED BY <1>1, <1>2

-----------------------------------------------------------------------------
LEMMA StepInv ==
  ASSUME Loads = {}, IInv, [Next]_vars
  PROVE  IInv'
<1>1. CASE Next
  BY <1>1, ClockInv DEF Next
<1>2. CASE UNCHANGED vars
  BY <1>2 DEF vars, IInv, Typed, PulseTimed, DirTimed, StepIsSafe, step, stepUp,
              stepDown, stepmsb, pulsewait
<1> QED BY <1>1, <1>2

(***************************************************************************)
(* However rate and direction change, a step comes in the direction shown, *)
(* after its setup time, and after the idle time of the pulse before.      *)
(***************************************************************************)
THEOREM StepIsSafeAlways ==
  ASSUME Loads = {}
  PROVE  Spec => []StepIsSafe
<1>1. IInv /\ [Next]_vars => IInv'
  BY StepInv
<1>2. IInv => StepIsSafe
  BY DEF IInv
<1> QED BY <1>1, <1>2, InitInv, PTL DEF Spec

(***************************************************************************)
(* The direction keeps its hold time and a pulse its width.                *)
(***************************************************************************)
THEOREM HoldAndWidthAlways ==
  ASSUME Loads = {}
  PROVE  Spec => HoldAndWidth
<1>1. IInv /\ [Next]_vars => IInv'
  BY StepInv
<1>2. ASSUME IInv, [Next]_vars
      PROVE  [/\ stepdirout' # stepdirout => sinceStep >= times.hold
              /\ steppulse /\ ~steppulse' => sinceStep >= times.active]_vars
  BY <1>2, ClockHolds DEF Next
<1> QED BY <1>1, <1>2, InitInv, PTL DEF Spec, HoldAndWidth

-----------------------------------------------------------------------------
(***************************************************************************)
(* Powers of two, which the provers know nothing of: 2 ^ n counts the sets *)
(* of n elements.                                                          *)
(***************************************************************************)
LEMMA Subsets ==
  ASSUME NEW n \in Nat, NEW i \in Nat, NEW j \in Nat, j = i + n, NEW S, S = i + 1 .. j
  PROVE  IsFiniteSet(SUBSET S) /\ Cardinality(SUBSET S) = 2 ^ n
<1>1. IsFiniteSet(S) /\ Cardinality(S) = n
  BY FS_Interval
<1> QED BY <1>1, FS_SUBSET

LEMMA PowerPositive == ASSUME NEW n \in Nat PROVE 2 ^ n \in Nat \ {0}
<1> DEFINE S == 1 .. n
<1>1. n = 0 + n /\ S = 0 + 1 .. n
  OBVIOUS
<1> HIDE DEF S
<1>2. IsFiniteSet(SUBSET S) /\ Cardinality(SUBSET S) = 2 ^ n
  BY <1>1, Subsets
<1>3. SUBSET S # {}
  OBVIOUS
<1>4. Cardinality(SUBSET S) \in Nat /\ Cardinality(SUBSET S) # 0
  BY <1>2, <1>3, FS_CardinalityType, FS_EmptySet
<1> QED BY <1>2, <1>4

LEMMA PowerSum == ASSUME NEW n \in Nat, NEW k \in Nat PROVE 2 ^ (n + k) = 2 ^ n * 2 ^ k
<1>0. PICK m \in Nat : m = n + k
  OBVIOUS
<1> DEFINE N == 1 .. n
           K == n + 1 .. m
           T == 1 .. m
           P == (SUBSET N) \X (SUBSET K)
           f == [p \in P |-> p[1] \cup p[2]]
<1>1. N \cup K = T /\ N \cap K = {}
  BY <1>0
<1>2. /\ n = 0 + n /\ N = 0 + 1 .. n
      /\ m = 0 + m /\ T = 0 + 1 .. m
      /\ K = n + 1 .. m
  OBVIOUS
<1> HIDE DEF N, K, T
<1>3. /\ IsFiniteSet(SUBSET N) /\ Cardinality(SUBSET N) = 2 ^ n
      /\ IsFiniteSet(SUBSET K) /\ Cardinality(SUBSET K) = 2 ^ k
      /\ IsFiniteSet(SUBSET T) /\ Cardinality(SUBSET T) = 2 ^ m
  <2>1. IsFiniteSet(SUBSET N) /\ Cardinality(SUBSET N) = 2 ^ n
    BY <1>2, Subsets
  <2>2. IsFiniteSet(SUBSET K) /\ Cardinality(SUBSET K) = 2 ^ k
    BY <1>0, <1>2, Subsets
  <2>3. IsFiniteSet(SUBSET T) /\ Cardinality(SUBSET T) = 2 ^ m
    BY <1>2, Subsets
  <2> QED BY <2>1, <2>2, <2>3
<1>4. f \in Bijection(P, SUBSET T)
  <2>1. f \in [P -> SUBSET T]
    BY <1>1
  <2>2. ASSUME NEW p \in P, NEW q \in P, f[p] = f[q]
        PROVE  p = q
    <3>1. p[1] \cup p[2] = q[1] \cup q[2]
      BY <2>2
    <3>2. p[1] = q[1] /\ p[2] = q[2]
      BY <3>1, <1>1
    <3> QED BY <3>2
  <2>3. ASSUME NEW u \in SUBSET T PROVE \E p \in P : f[p] = u
    <3>1. <<u \cap N, u \cap K>> \in P
      OBVIOUS
    <3>2. f[<<u \cap N, u \cap K>>] = u
      BY <1>1, <3>1
    <3> QED BY <3>1, <3>2
  <2> HIDE DEF f, P
  <2> QED BY <2>1, <2>2, <2>3, Fun_IsBij
<1> HIDE DEF f
<1>5. ExistsBijection(P, SUBSET T)
  BY <1>4 DEF ExistsBijection
<1>6. IsFiniteSet(P) /\ Cardinality(P) = 2 ^ n * 2 ^ k
  BY ZenonT(30), <1>3, FS_Product
<1> HIDE DEF P
<1> QED BY <1>0, <1>3, <1>5, <1>6, FS_Bijection

\* The quotient and the remainder are what they look like.
LEMMA Quotient ==
  ASSUME NEW m \in Nat \ {0}, NEW q \in Int, NEW x \in 0 .. m - 1, NEW a \in Int, a = m * q + x
  PROVE  a \div m = q /\ a % m = x
<1> DEFINE d == a \div m
           y == a % m
<1>1. d \in Int /\ y \in 0 .. m - 1 /\ a = m * d + y
  OBVIOUS
<1> HIDE DEF d, y
<1>2. m * (d - q) = x - y
  <2>1. m * d - m * q = x - y
    BY <1>1
  <2>2. m * (d - q) = m * d - m * q
    BY <1>1
  <2> QED BY <2>1, <2>2
<1>3. d - q < 1
  <2> SUFFICES ASSUME d - q >= 1 PROVE FALSE
    BY <1>1
  <2>1. m * (d - q) >= m
    BY <1>1
  <2> QED BY <1>1, <1>2, <2>1
<1>4. d - q > -1
  <2> SUFFICES ASSUME q - d >= 1 PROVE FALSE
    BY <1>1
  <2>1. m * (q - d) >= m
    BY <1>1
  <2>2. m * (q - d) = y - x
    BY <1>1
  <2> QED BY <1>1, <2>1, <2>2
<1>5. d = q
  BY <1>1, <1>3, <1>4
<1>6. y = x
  BY <1>1, <1>5
<1> QED BY <1>5, <1>6 DEF d, y

-----------------------------------------------------------------------------
(***************************************************************************)
(* The accumulator is a position and a fraction of Turn, of which the msb  *)
(* is the upper half.                                                      *)
(***************************************************************************)
Half == 2 ^ (rsize - 1)
Turn == 2 ^ rsize

LEMMA Widths ==
  /\ Half \in Nat \ {0} /\ Turn = 2 * Half
  /\ Positions \in Nat \ {0} /\ 2 ^ asize = Turn * Positions
<1>1. rsize - 1 \in Nat /\ asize - rsize \in Nat /\ rsize \in Nat
      /\ rsize = (rsize - 1) + 1 /\ asize = rsize + (asize - rsize)
  BY SizeAssumption
<1>2. Turn = Half * 2 ^ 1
  BY <1>1, PowerSum DEF Turn, Half
<1>3. 2 ^ 1 = 2
  OBVIOUS
<1>4. Half \in Nat \ {0} /\ Positions \in Nat \ {0}
  BY <1>1, PowerPositive DEF Half, Positions
<1>5. 2 ^ asize = Turn * Positions
  BY <1>1, PowerSum DEF Turn, Positions
<1> QED BY <1>2, <1>3, <1>4, <1>5

LEMMA Reading ==
  ASSUME NEW q \in Nat, NEW x \in 0 .. Turn - 1, NEW a \in Int, a = Turn * q + x
  PROVE  Position(a) = q /\ (Msb(a) <=> x >= Half)
<1> USE Widths
<1>1. Position(a) = q
  BY SMTT(20), Quotient DEF Position, Turn
<1> DEFINE b == IF x >= Half THEN 1 ELSE 0
           y == x - Half * b
           h == 2 * q + b
<1>2. b \in 0 .. 1 /\ y \in 0 .. Half - 1 /\ h \in Int
  OBVIOUS
<1>3. a = Half * h + y
  OBVIOUS
<1> HIDE DEF b, y
<1>4. a \div Half = h
  <2> HIDE DEF h
  <2> QED BY <1>2, <1>3, Quotient
<1>5. (2 * q + b) % 2 = b
  <2>1. 2 * q + b \in Int /\ 2 \in Nat \ {0} /\ b \in 0 .. 2 - 1
    BY <1>2
  <2> QED BY <2>1, Quotient
<1>6. Msb(a) <=> b = 1
  BY <1>4, <1>5 DEF Msb, Half
<1> QED BY <1>1, <1>6 DEF b

(***************************************************************************)
(* One addition: the position goes up when the msb falls and the rate is   *)
(* not negative, down when the msb rises and the rate is negative, and     *)
(* stays otherwise; both ends wrap.                                        *)
(***************************************************************************)
Moved(a, b, up, down) ==
  IF up THEN Position(b) = (Position(a) + 1) % Positions
  ELSE IF down THEN Position(b) = (Position(a) - 1) % Positions
  ELSE Position(b) = Position(a)

LEMMA AddMoves ==
  ASSUME stepaccum \in 0 .. 2 ^ asize - 1, steprate \in -Half .. Half - 1
  PROVE  /\ nextaccum \in 0 .. 2 ^ asize - 1
         /\ Moved(stepaccum, nextaccum, stepmsb /\ ~Msb(nextaccum) /\ ~stepdir,
                  ~stepmsb /\ Msb(nextaccum) /\ stepdir)
<1> DEFINE a == stepaccum
           q == a \div Turn
           x == a % Turn
           M == 2 ^ asize
<1>1. /\ Half \in Nat \ {0} /\ Turn = 2 * Half /\ Turn \in Nat \ {0}
      /\ Positions \in Nat \ {0} /\ M = Turn * Positions /\ M \in Nat \ {0}
  BY Widths
<1>2. x \in 0 .. Turn - 1 /\ a = Turn * q + x /\ a \in 0 .. M - 1 /\ q \in Int
  <2>1. a \in 0 .. M - 1 /\ a \in Int
    BY <1>1
  <2> HIDE DEF a, M
  <2> QED BY <1>1, <2>1
<1> HIDE DEF a, q, x, M
<1>3. q \in 0 .. Positions - 1
  <2>1. q >= 0
    <3> SUFFICES ASSUME q <= -1 PROVE FALSE
      BY <1>2
    <3>1. Turn * q <= -Turn
      BY <1>1, <1>2
    <3> QED BY <1>1, <1>2, <3>1
  <2>2. q <= Positions - 1
    <3> SUFFICES ASSUME q >= Positions PROVE FALSE
      BY <1>1, <1>2
    <3>1. Turn * q >= Turn * Positions
      BY <1>1, <1>2
    <3> QED BY <1>1, <1>2, <3>1
  <2> QED BY <1>1, <1>2, <2>1, <2>2
<1>4. Position(a) = q /\ (Msb(a) <=> x >= Half)
  BY <1>1, <1>2, <1>3, Reading
<1>5. ASSUME NEW p \in 0 .. Positions - 1, NEW y \in 0 .. Turn - 1, NEW w \in -1 .. 1,
             a + steprate = M * w + (Turn * p + y)
      PROVE  /\ nextaccum \in 0 .. M - 1
             /\ Position(nextaccum) = p /\ (Msb(nextaccum) <=> y >= Half)
  <2> DEFINE c == Turn * p + y
  <2>1. c \in Int /\ c >= 0
    BY <1>1
  <2>2. c <= M - 1
    <3>1. Turn * p <= Turn * (Positions - 1)
      BY <1>1
    <3>2. Turn * (Positions - 1) = Turn * Positions - Turn
      BY <1>1
    <3> QED BY <1>1, <3>1, <3>2
  <2>3. Position(c) = p /\ (Msb(c) <=> y >= Half)
    BY <1>1, <2>1, Reading
  <2>4. a + steprate \in Int /\ c \in 0 .. M - 1
    BY <1>1, <1>2, <2>1, <2>2
  <2>5. a + steprate = M * w + c
    BY <1>5
  <2> HIDE DEF c
  <2>6. nextaccum = c
    BY <1>1, <2>4, <2>5, Quotient DEF nextaccum, a, M
  <2> QED BY <2>3, <2>4, <2>6
<1> DEFINE y == x + steprate
<1>6. y \in Int /\ a + steprate = Turn * q + y
  BY <1>1, <1>2, <1>3
<1>7. CASE y \in 0 .. Turn - 1
  <2>1. a + steprate = M * 0 + (Turn * q + y)
    <3>1. M * 0 = 0 /\ Turn * q + y \in Int
      BY <1>1, <1>3, <1>6
    <3> QED BY <1>6, <3>1
  <2>2. /\ nextaccum \in 0 .. M - 1
        /\ Position(nextaccum) = q /\ (Msb(nextaccum) <=> y >= Half)
    BY <1>3, <1>5, <1>7, <2>1
  <2>3. ~(stepmsb /\ ~Msb(nextaccum) /\ ~stepdir) /\ ~(~stepmsb /\ Msb(nextaccum) /\ stepdir)
    BY <1>1, <1>2, <1>4, <2>2 DEF stepmsb, stepdir, a
  <2> QED BY <1>4, <2>2, <2>3 DEF Moved, a, M
<1>8. CASE y >= Turn
  <2>1. y - Turn \in 0 .. Turn - 1 /\ y - Turn < Half /\ steprate > 0 /\ x >= Half
    BY <1>1, <1>2, <1>8
  <2>2. nextaccum \in 0 .. M - 1 /\ Position(nextaccum) = (q + 1) % Positions
        /\ ~Msb(nextaccum)
    <3>1. CASE q + 1 < Positions
      <4>1. a + steprate = M * 0 + (Turn * (q + 1) + (y - Turn))
        BY <1>1, <1>3, <1>6
      <4>2. q + 1 \in 0 .. Positions - 1 /\ (q + 1) % Positions = q + 1
        BY <1>1, <1>3, <3>1
      <4>3. PICK p \in Int : p = q + 1
        BY <1>3
      <4>4. PICK z \in Int : z = y - Turn
        BY <1>1, <1>6
      <4> HIDE DEF y
      <4> QED BY <1>1, <1>5, <2>1, <4>1, <4>2, <4>3, <4>4
    <3>2. CASE q = Positions - 1
      <4>1. a + steprate = M * 1 + (Turn * 0 + (y - Turn))
        BY <1>1, <1>3, <1>6, <3>2
      <4>2. (q + 1) % Positions = 0
        BY <1>1, <3>2
      <4>3. PICK z \in Int : z = y - Turn
        BY <1>1, <1>6
      <4> HIDE DEF y
      <4> QED BY <1>1, <1>5, <2>1, <4>1, <4>2, <4>3
    <3> QED BY <1>1, <1>3, <3>1, <3>2
  <2>3. stepmsb /\ ~stepdir
    BY <1>4, <2>1 DEF stepmsb, stepdir, a
  <2> QED BY <1>4, <2>2, <2>3 DEF Moved, a, M
<1>9. CASE y < 0
  <2>1. y + Turn \in 0 .. Turn - 1 /\ y + Turn >= Half /\ steprate < 0 /\ x < Half
    BY <1>1, <1>2, <1>9
  <2>2. nextaccum \in 0 .. M - 1 /\ Position(nextaccum) = (q - 1) % Positions
        /\ Msb(nextaccum)
    <3>1. CASE q > 0
      <4>1. a + steprate = M * 0 + (Turn * (q - 1) + (y + Turn))
        BY <1>1, <1>3, <1>6
      <4>2. q - 1 \in 0 .. Positions - 1 /\ (q - 1) % Positions = q - 1
        BY <1>1, <1>3, <3>1
      <4>3. PICK p \in Int : p = q - 1
        BY <1>3
      <4>4. PICK z \in Int : z = y + Turn
        BY <1>1, <1>6
      <4> HIDE DEF y
      <4> QED BY <1>1, <1>5, <2>1, <4>1, <4>2, <4>3, <4>4
    <3>2. CASE q = 0
      <4>1. a + steprate = M * (-1) + (Turn * (Positions - 1) + (y + Turn))
        BY <1>1, <1>3, <1>6, <3>2
      <4>2. (q - 1) % Positions = Positions - 1
        <5>1. -1 = Positions * (-1) + (Positions - 1) /\ Positions - 1 \in 0 .. Positions - 1
          BY <1>1
        <5> QED BY <1>1, <3>2, <5>1, Quotient
      <4>3. PICK p \in Int : p = Positions - 1
        BY <1>1
      <4>4. PICK z \in Int : z = y + Turn
        BY <1>1, <1>6
      <4> HIDE DEF y
      <4>5. p \in 0 .. Positions - 1 /\ z \in 0 .. Turn - 1 /\ z >= Half
        BY <1>1, <2>1, <4>3, <4>4
      <4>6. a + steprate = M * (-1) + (Turn * p + z)
        BY <4>1, <4>3, <4>4
      <4> QED BY <1>5, <4>2, <4>3, <4>5, <4>6
    <3> QED BY <1>1, <1>3, <3>1, <3>2
  <2>3. ~stepmsb /\ stepdir
    BY <1>1, <1>2, <1>4, <2>1 DEF stepmsb, stepdir, a
  <2> QED BY <1>4, <2>2, <2>3 DEF Moved, a, M
<1> QED BY <1>1, <1>6, <1>7, <1>8, <1>9 DEF M

-----------------------------------------------------------------------------
\* What an addition, and then a load, leaves in the accumulator.
Added(tick) == IF tick /\ ~ddshold THEN nextaccum ELSE stepaccum

LEMMA Loaded ==
  ASSUME NEW a \in Int, NEW load \in Loads
  PROVE  load * 2 ^ lowbits + (a % 2 ^ lowbits) \in 0 .. 2 ^ asize - 1
<1> DEFINE L == 2 ^ lowbits
           U == 2 ^ (asize - lowbits)
           r == a % L
<1>1. lowbits \in Nat /\ asize - lowbits \in Nat /\ asize = lowbits + (asize - lowbits)
  BY SizeAssumption
<1>2. L \in Nat \ {0} /\ U \in Nat \ {0}
  BY <1>1, PowerPositive
<1>3. 2 ^ asize = L * U
  BY <1>1, PowerSum
<1>4. load \in 0 .. U - 1
  BY LoadsAssumption
<1> HIDE DEF L, U
<1>5. r \in 0 .. L - 1
  BY <1>2
<1> HIDE DEF r
<1>6. load * L >= 0 /\ load * L <= (U - 1) * L /\ (U - 1) * L = L * U - L
  BY <1>2, <1>4
<1>7. load * L + r \in 0 .. L * U - 1
  BY <1>2, <1>4, <1>5, <1>6
<1> QED BY <1>3, <1>7 DEF L, r

LEMMA RateInHalf == ASSUME steprate \in Rates \cup {0} PROVE steprate \in -Half .. Half - 1
BY RatesAssumption, Widths DEF Half

LEMMA AccumTyped ==
  ASSUME TypeOK, NEW tick \in BOOLEAN, NEW load \in Loads \cup {None}, Accumulate(tick, load)
  PROVE  stepaccum' \in 0 .. 2 ^ asize - 1
<1>1. stepaccum \in 0 .. 2 ^ asize - 1 /\ steprate \in -Half .. Half - 1
  BY RateInHalf DEF TypeOK
<1>2. nextaccum \in 0 .. 2 ^ asize - 1
  BY <1>1, AddMoves
<1>3. Added(tick) \in 0 .. 2 ^ asize - 1
  BY <1>1, <1>2 DEF Added
<1>4. stepaccum' = IF load = None THEN Added(tick)
                   ELSE load * 2 ^ lowbits + (Added(tick) % 2 ^ lowbits)
  BY DEF Accumulate, Added
<1>5. CASE load = None
  BY <1>3, <1>4, <1>5
<1>6. CASE load \in Loads /\ load # None
  <2>1. 2 ^ asize \in Nat
    BY PowerPositive, SizeAssumption
  <2>2. Added(tick) \in Int
    BY <1>3, <2>1
  <2> HIDE DEF Added
  <2> QED BY <1>4, <1>6, <2>2, Loaded
<1> QED BY <1>5, <1>6

LEMMA ObserveTyped ==
  ASSUME TypeOK, Observe
  PROVE  /\ steps' \in 0 .. Positions - 1
         /\ sinceDir' \in 0 .. Long /\ sinceStep' \in 0 .. Long /\ sinceIdle' \in 0 .. Long
<1>1. steps \in Int /\ Positions \in Nat \ {0} /\ Long \in Nat
  BY Widths, LongIsLong DEF TypeOK
<1>2. steps' \in 0 .. Positions - 1
  BY <1>1 DEF Observe
<1>3. \A e \in BOOLEAN : \A t \in 0 .. Long : Since(e, t) \in 0 .. Long
  BY <1>1 DEF Since, Min2
<1>4. /\ sinceDir' = Since(stepdirout' # stepdirout, sinceDir)
      /\ sinceStep' = Since(step, sinceStep)
      /\ sinceIdle' = Since(steppulse /\ ~steppulse', sinceIdle)
  BY DEF Observe
<1>5. step \in BOOLEAN
  BY DEF step, stepUp, stepDown
<1>6. sinceDir \in 0 .. Long /\ sinceStep \in 0 .. Long /\ sinceIdle \in 0 .. Long
  BY DEF TypeOK
<1> HIDE DEF Since, step
<1> QED BY <1>2, <1>3, <1>4, <1>5, <1>6

LEMMA TimesTyped ==
  ASSUME TypeOK
  PROVE  /\ times.active \in 0 .. Long /\ times.idle \in 0 .. Long
         /\ times.setup \in 0 .. Long /\ times.hold \in 0 .. Long
<1>1. /\ times.active \in PulseTimes /\ times.idle \in PulseTimes
      /\ times.setup \in DirTimes /\ times.hold \in DirTimes
  BY DEF TypeOK
<1>2. \A t \in PulseTimes \cup DirTimes : t \in 0 .. Long
  <2> SUFFICES ASSUME NEW t \in PulseTimes \cup DirTimes PROVE t \in 0 .. Long
    OBVIOUS
  <2>1. t \in Nat /\ Long \in Nat /\ t < Long
    BY LongIsLong, TimesAssumption
  <2> QED BY <2>1
<1> QED BY <1>1, <1>2

LEMMA ClockTyped ==
  ASSUME TypeOK, NEW tick \in BOOLEAN, NEW rate \in Rates \cup {steprate},
         NEW load \in Loads \cup {None}, Clock(tick, rate, load)
  PROVE  TypeOK'
<1>0. Accumulate(tick, load) /\ Pulse /\ Direction /\ Observe /\ steprate' = rate /\ times' = times
  BY DEF Clock
<1>1. stepaccum' \in 0 .. 2 ^ asize - 1
  BY <1>0, AccumTyped
<1>2. steprate' \in Rates \cup {0}
  BY <1>0 DEF TypeOK
<1>3. dstepmsb' \in BOOLEAN /\ dstepdir' \in BOOLEAN /\ loadmoved' \in BOOLEAN
  <2>1. stepmsb \in BOOLEAN /\ stepdir \in BOOLEAN
    BY DEF stepmsb, Msb, stepdir
  <2>2. dstepmsb' \in BOOLEAN /\ loadmoved' \in BOOLEAN
    BY <1>0, <2>1 DEF Accumulate
  <2>3. dstepdir' \in BOOLEAN
    BY <1>0, <2>1 DEF Accumulate, TypeOK
  <2> QED BY <2>2, <2>3
<1>4. steppulse' \in BOOLEAN /\ dpulsewait' \in BOOLEAN
  BY <1>0 DEF TypeOK, Pulse, step, stepUp, stepDown, pulsewait
<1>5. pulsewidthcount' \in 0 .. Long
  BY <1>0, TimesTyped, LongIsLong DEF TypeOK, Pulse, pulsewait
<1>6. dirshcount' \in 0 .. Long
  BY <1>0, TimesTyped, LongIsLong DEF TypeOK, Direction, dirshwait
<1>7. stepdirout' \in BOOLEAN /\ dirhold' \in BOOLEAN
  <2>1. stepdir \in BOOLEAN /\ stepdirout \in BOOLEAN /\ dirhold \in BOOLEAN
    BY DEF stepdir, TypeOK
  <2>2. stepdirout' \in {stepdir, stepdirout}
    BY <1>0 DEF Direction
  <2>3. dirhold' \in {TRUE, FALSE, dirhold}
    BY <1>0 DEF Direction
  <2> QED BY <2>1, <2>2, <2>3
<1>8. times' \in [active : PulseTimes, idle : PulseTimes, setup : DirTimes, hold : DirTimes]
  BY <1>0 DEF TypeOK
<1>9. /\ steps' \in 0 .. Positions - 1
      /\ sinceDir' \in 0 .. Long /\ sinceStep' \in 0 .. Long /\ sinceIdle' \in 0 .. Long
  BY <1>0, ObserveTyped
<1> QED BY <1>1, <1>2, <1>3, <1>4, <1>5, <1>6, <1>7, <1>8, <1>9 DEF TypeOK, Positions, Long

LEMMA InitTyped == Init => TypeOK
<1> SUFFICES ASSUME Init PROVE TypeOK
  OBVIOUS
<1>1. 0 \in 0 .. 2 ^ asize - 1 /\ 0 \in 0 .. Positions - 1 /\ Long \in 0 .. Long /\ 0 \in 0 .. Long
  <2>1. 2 ^ asize \in Nat \ {0}
    BY PowerPositive, SizeAssumption
  <2> QED BY <2>1, Widths, LongIsLong
<1>2. times \in [active : PulseTimes, idle : PulseTimes, setup : DirTimes, hold : DirTimes]
  BY DEF Init
<1> QED BY <1>1, <1>2 DEF Init, TypeOK

LEMMA StepTyped == ASSUME TypeOK, [Next]_vars PROVE TypeOK'
<1>1. ASSUME Next PROVE TypeOK'
  BY <1>1, ClockTyped DEF Next
<1>2. ASSUME UNCHANGED vars PROVE TypeOK'
  BY <1>2 DEF vars, TypeOK, Positions, Long
<1> QED BY <1>1, <1>2

(***************************************************************************)
(* Every register stays within its width and every timer within the longest*)
(* time, with any loads of the accumulator.                                *)
(***************************************************************************)
THEOREM Typing == Spec => []TypeOK
<1>1. TypeOK /\ [Next]_vars => TypeOK'
  BY StepTyped
<1> QED BY <1>1, InitTyped, PTL DEF Spec

-----------------------------------------------------------------------------
(***************************************************************************)
(* The inductive form of StepsFollowAccumulator: in the clock in which a   *)
(* step is due the accumulator is one position ahead, on that step's side. *)
(***************************************************************************)
Due == steps + (IF stepUp THEN 1 ELSE 0) - (IF stepDown THEN 1 ELSE 0)
Counted == TypeOK /\ Position(stepaccum) = Due % Positions

LEMMA Small == ASSUME NEW m \in Nat \ {0}, NEW x \in 0 .. m - 1 PROVE x % m = x
<1>1. x = m * 0 + x
  OBVIOUS
<1> QED BY <1>1, Quotient

LEMMA InitCounted == Init => Counted
<1> SUFFICES ASSUME Init PROVE Counted
  OBVIOUS
<1>1. TypeOK
  BY InitTyped
<1>2. 0 \in Nat /\ 0 \in 0 .. Turn - 1 /\ 0 \in Int /\ 0 = Turn * 0 + 0
  BY Widths
<1>3. Position(0) = 0 /\ ~Msb(0)
  <2> HIDE DEF Turn, Half
  <2>1. Position(0) = 0 /\ (Msb(0) <=> 0 >= Half)
    BY <1>2, Reading
  <2> QED BY <2>1, Widths
<1>4. stepaccum = 0 /\ steps = 0 /\ ~dstepmsb
  BY DEF Init
<1>5. ~stepUp /\ ~stepDown
  BY <1>3, <1>4 DEF stepUp, stepDown, stepmsb
<1>6. Due = 0 /\ 0 % Positions = 0
  BY <1>4, <1>5, Widths DEF Due
<1> QED BY <1>1, <1>3, <1>4, <1>6 DEF Counted

\* One clock without a load: the steps catch up, and an add may make one due.
LEMMA ClockCounted ==
  ASSUME Counted, NEW tick \in BOOLEAN, NEW rate \in Rates \cup {steprate}, None \notin Loads,
         Clock(tick, rate, None)
  PROVE  Counted'
<1>1. TypeOK /\ TypeOK'
  <2>1. TypeOK
    BY DEF Counted
  <2> QED BY <2>1, ClockTyped
<1>2. steps' = Due % Positions /\ steps' = Position(stepaccum)
  BY DEF Clock, Observe, Due, Counted
<1>3. /\ dstepmsb' = stepmsb
      /\ stepaccum' = IF tick /\ ~ddshold THEN nextaccum ELSE stepaccum
      /\ dstepdir' = IF tick /\ ~ddshold THEN stepdir ELSE dstepdir
  BY DEF Clock, Accumulate
<1>4. steps' \in 0 .. Positions - 1 /\ Positions \in Nat \ {0}
  BY <1>1, Widths DEF TypeOK
<1>5. stepUp' <=> (~Msb(stepaccum') /\ stepmsb /\ ~dstepdir')
  BY <1>3 DEF stepUp, stepmsb
<1>6. stepDown' <=> (Msb(stepaccum') /\ ~stepmsb /\ dstepdir')
  BY <1>3 DEF stepDown, stepmsb
<1>7. ASSUME ~(tick /\ ~ddshold) PROVE Position(stepaccum') = Due' % Positions
  <2>1. stepaccum' = stepaccum
    BY <1>3, <1>7
  <2>2. ~stepUp' /\ ~stepDown'
    BY <1>5, <1>6, <2>1 DEF stepmsb
  <2>3. Due' = steps' /\ steps' % Positions = steps'
    <3>1. PICK s \in 0 .. Positions - 1 : s = steps'
      BY <1>4
    <3>2. Due' = s + 0 - 0
      BY <1>4, <2>2, <3>1 DEF Due
    <3>3. s % Positions = s
      BY <1>4, Small
    <3>4. s + 0 - 0 = s
      OBVIOUS
    <3>5. Due' = s
      BY <3>2, <3>4
    <3> QED BY <3>1, <3>3, <3>5
  <2> QED BY <1>2, <2>1, <2>3
<1>8. ASSUME tick /\ ~ddshold PROVE Position(stepaccum') = Due' % Positions
  <2>1. stepaccum' = nextaccum /\ dstepdir' = stepdir
    BY <1>3, <1>8
  <2>2. Moved(stepaccum, nextaccum, stepUp', stepDown')
    <3>1. stepaccum \in 0 .. 2 ^ asize - 1 /\ steprate \in -Half .. Half - 1
      BY <1>1, RateInHalf DEF TypeOK
    <3>2. Moved(stepaccum, nextaccum, stepmsb /\ ~Msb(nextaccum) /\ ~stepdir,
                ~stepmsb /\ Msb(nextaccum) /\ stepdir)
      BY <3>1, AddMoves
    <3> QED BY <1>5, <1>6, <2>1, <3>2 DEF Moved
  <2>3. CASE stepUp'
    <3>1. ~stepDown' /\ Position(stepaccum') = (steps' + 1) % Positions
      BY <1>2, <1>5, <1>6, <2>1, <2>2, <2>3 DEF Moved
    <3>2. Due' = steps' + 1
      BY <1>4, <2>3, <3>1 DEF Due
    <3> QED BY <3>1, <3>2
  <2>4. CASE ~stepUp' /\ stepDown'
    <3>1. Position(stepaccum') = (steps' - 1) % Positions
      BY <1>2, <2>1, <2>2, <2>4 DEF Moved
    <3>2. Due' = steps' - 1
      <4>1. steps' \in Int /\ Due' = steps' + 0 - 1
        BY <1>4, <2>4 DEF Due
      <4> QED BY <4>1
    <3> QED BY <3>1, <3>2
  <2>5. CASE ~stepUp' /\ ~stepDown'
    <3>1. Position(stepaccum') = steps'
      BY <1>2, <2>1, <2>2, <2>5 DEF Moved
    <3>2. Due' = steps' /\ steps' % Positions = steps'
      <4>1. PICK s \in 0 .. Positions - 1 : s = steps'
        BY <1>4
      <4>2. Due' = s + 0 - 0
        BY <1>4, <2>5, <4>1 DEF Due
      <4>3. s % Positions = s
        BY <1>4, Small
      <4>4. s + 0 - 0 = s
        OBVIOUS
      <4>5. Due' = s
        BY <4>2, <4>4
      <4> QED BY <4>1, <4>3, <4>5
    <3> QED BY <3>1, <3>2
  <2> QED BY <2>3, <2>4, <2>5
<1>9. Position(stepaccum)' = Position(stepaccum') /\ Positions' = Positions
  BY DEF Position, Positions
<1> QED BY <1>1, <1>7, <1>8, <1>9 DEF Counted

(***************************************************************************)
(* Without loads no step is lost and none made up: whatever holds back the *)
(* accumulator, for every width, every rate and every set of times.        *)
(***************************************************************************)
THEOREM StepsFollowAlways ==
  ASSUME Loads = {}
  PROVE  Spec => []StepsFollowAccumulator
<1>1. Counted /\ [Next]_vars => Counted'
  <2>1. ASSUME Counted, Next PROVE Counted'
    BY <2>1, ClockCounted, LoadsAssumption DEF Next
  <2>2. ASSUME Counted, UNCHANGED vars PROVE Counted'
    <3>1. TypeOK'
      BY <2>2, StepTyped DEF Counted
    <3> QED BY <2>2, <3>1 DEF vars, Counted, Due, Position, Positions, stepUp, stepDown, stepmsb, Msb
  <2> QED BY <2>1, <2>2
<1>2. Counted => StepsFollowAccumulator
  <2> SUFFICES ASSUME Counted, ~step PROVE steps = Position(stepaccum)
    BY DEF StepsFollowAccumulator
  <2>1. steps \in 0 .. Positions - 1 /\ Positions \in Nat \ {0}
    BY Widths DEF Counted, TypeOK
  <2>2. ~stepUp /\ ~stepDown
    BY DEF step
  <2>3. Due = steps /\ steps % Positions = steps
    BY <2>1, <2>2 DEF Due
  <2> QED BY <2>3 DEF Counted
<1> QED BY <1>1, <1>2, InitCounted, PTL DEF Spec

=============================================================================
