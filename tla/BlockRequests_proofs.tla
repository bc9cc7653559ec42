------------------------ MODULE BlockRequests_proofs ------------------------
(***************************************************************************)
(* Proofs about Hm2RegIO, for every set of registers and words and every   *)
(* timing with at least one wait state, and about BlockRequests, for every *)
(* fast clock that is not slower than the bus clock besides.  What a block *)
(* needs of the timing is a hypothesis of its theorem.                     *)
(***************************************************************************)
EXTENDS BlockRequests, TLAPS

-----------------------------------------------------------------------------
(***************************************************************************)
(* From the second clock of a strobe on, the data register holds the word  *)
(* of this access.                                                         *)
(***************************************************************************)
DataPathInv ==
  /\ con_write_out /\ left <= WriteWait => outdata = slave_writedata
  /\ con_read_out /\ left <= ReadWait => indata = reg[slave_address]

IInv == TypeOK /\ DataPathInv /\ WritesLand

LEMMA InitInv == Init => IInv
<1> SUFFICES ASSUME Init PROVE IInv
  OBVIOUS
<1>1. left \in Nat
  BY DEF Init
<1>2. TypeOK
  BY <1>1, DataAssumption, Zenon DEF Init, TypeOK
<1>3. DataPathInv /\ WritesLand
  BY DEF Init, DataPathInv, WritesLand, con_write_out, con_read_out
<1> QED BY <1>2, <1>3 DEF IInv

(***************************************************************************)
(* One case per action of Next; the data path moves only under a strobe.   *)
(***************************************************************************)
LEMMA StepInv == IInv /\ [Next]_vars => IInv'
<1> SUFFICES ASSUME IInv, [Next]_vars PROVE IInv'
  OBVIOUS
<1> USE DataAssumption, TimingAssumption
    DEF IInv, TypeOK, DataPathInv, WritesLand, con_write_out, con_read_out,
        access, Clock, BridgeClock, TargetClock
<1>1. ASSUME NEW r \in BOOLEAN, NEW a \in Addr, NEW d \in Data, Begin(r, a, d)
      PROVE  IInv'
  BY <1>1 DEF Begin
<1>2. CASE Wait
  BY <1>2 DEF Wait
<1>3. CASE Strobe
  BY <1>3 DEF Strobe, StrobeClocks
<1>4. CASE EndStrobe
  BY <1>4 DEF EndStrobe
<1>5. CASE EndAccess
  BY <1>5 DEF EndAccess
<1>6. CASE Reset
  BY <1>6 DEF Reset
<1>7. CASE UNCHANGED vars
  BY <1>7 DEF vars
<1> QED BY <1>1, <1>2, <1>3, <1>4, <1>5, <1>6, <1>7 DEF Next

THEOREM Inductive == Spec => []IInv
  BY InitInv, StepInv, PTL DEF Spec

(***************************************************************************)
(* A register holds the word of its last complete write.                   *)
(***************************************************************************)
THEOREM WritesLandAlways == Spec => []WritesLand
<1>1. IInv => WritesLand
  BY DEF IInv
<1> QED BY <1>1, Inductive, PTL

(***************************************************************************)
(* A read returns the addressed register.                                  *)
(***************************************************************************)
THEOREM ReadsAreCurrentAlways == Spec => ReadsAreCurrent
<1>1. IInv /\ [Next]_vars
      => [phase = "strobe" /\ isread /\ phase' = "hold"
            => result' = reg[slave_address]]_vars
  BY TimingAssumption
     DEF IInv, TypeOK, DataPathInv, con_read_out, Next, Begin, Wait, Strobe,
         EndStrobe, EndAccess, Reset
<1> QED BY <1>1, Inductive, PTL DEF Spec, ReadsAreCurrent

-----------------------------------------------------------------------------
allVars == <<vars, requestVars>>

-----------------------------------------------------------------------------
(***************************************************************************)
(* The bus is not disturbed: what is proved of Hm2RegIO holds here.        *)
(***************************************************************************)
THEOREM BusUndisturbed == RequestsSpec => Spec
<1>1. RequestsInit => Init
  BY DEF RequestsInit
<1>2. [RequestsNext]_allVars => [Next]_vars
  BY DEF RequestsNext, BusClock, FastClock, allVars, vars
<1> QED BY <1>1, <1>2, PTL DEF RequestsSpec, Spec, allVars

\* So its invariant is one of the detailed system.
LEMMA BusInv == RequestsSpec => []IInv
  BY BusUndisturbed, Inductive, PTL

(***************************************************************************)
(* WritesLand and ReadsAreCurrent behind any blocks.                       *)
(***************************************************************************)
THEOREM BusCorrect == RequestsSpec => []WritesLand /\ ReadsAreCurrent
  BY BusUndisturbed, WritesLandAlways, ReadsAreCurrentAlways, PTL

-----------------------------------------------------------------------------
(***************************************************************************)
(* From the third clock of a write strobe on, the register holds the word  *)
(* of this access.                                                         *)
(***************************************************************************)
Settled == con_write_out /\ left < WriteWait => reg[slave_address] = slave_writedata

(***************************************************************************)
(* A request is withdrawn while two is up.  If two is up without one, the  *)
(* last fast edge took the request, and it came after the last bus clock.  *)
(***************************************************************************)
JustTaken ==
  /\ {loadpwmreq, oldloadpwmreq, olderloadpwmreq} \subseteq BOOLEAN
  /\ edges \in Nat
  /\ loadpwmreq => ~olderloadpwmreq
  /\ olderloadpwmreq /\ ~oldloadpwmreq /\ edges # 0 => pwmval = reg[PwmReg]

RInv == IInv /\ Settled /\ JustTaken /\ LoadTaken

LEMMA RequestsInitInv == RequestsInit => RInv
<1> SUFFICES ASSUME RequestsInit PROVE RInv
  OBVIOUS
<1>1. IInv
  BY InitInv DEF RequestsInit
<1>2. Settled
  BY DEF RequestsInit, Init, Settled, con_write_out
<1>3. JustTaken
  BY DEF RequestsInit, Pwm!Init, JustTaken
<1>4. LoadTaken
  BY DEF RequestsInit, Init, LoadTaken
<1> QED BY <1>1, <1>2, <1>3, <1>4 DEF RInv

(***************************************************************************)
(* A bus clock.  Only the end of a write to the generator makes a claim    *)
(* about a new word: the request of that clock stands, or it falls in the  *)
(* fast clock after the generator took the word, which was there since the *)
(* clock before.                                                           *)
(***************************************************************************)
LEMMA SettledStep ==
  ASSUME WriteWait >= 2, IInv, Settled, Next
  PROVE  Settled'
<1> USE TimingAssumption
    DEF IInv, TypeOK, DataPathInv, Settled, con_write_out, con_read_out,
        access, Clock, BridgeClock, TargetClock
<1>1. ASSUME NEW r \in BOOLEAN, NEW a \in Addr, NEW d \in Data, Begin(r, a, d)
      PROVE  Settled'
  BY <1>1 DEF Begin
<1>2. CASE Wait
  BY <1>2 DEF Wait
<1>3. CASE Strobe
  BY <1>3 DEF Strobe, StrobeClocks
<1>4. CASE EndStrobe \/ EndAccess \/ Reset
  BY <1>4 DEF EndStrobe, EndAccess, Reset
<1> QED BY <1>1, <1>2, <1>3, <1>4 DEF Next

\* A clock without the end of a write to the generator.
LEMMA OtherClock ==
  ASSUME RInv, BusClock, ~(EndStrobe /\ loadpwmval)
  PROVE  LoadTaken'
<1> SUFFICES ASSUME (PwmReg \notin doubt)', (~loadpwmval)'
             PROVE  pwmval' = written'[PwmReg] \/ loadpwmreq' \/ oldloadpwmreq'
  BY DEF LoadTaken
<1> USE RegsAssumption DEF RInv, IInv, TypeOK, loadpwmval, con_write_out
<1>1. /\ pwmval' = pwmval /\ oldloadpwmreq' = oldloadpwmreq
      /\ loadpwmreq' = ((loadpwmreq \/ loadpwmval) /\ ~olderloadpwmreq)
  BY DEF BusClock, Pwm!BusEdge
<1>2. ~loadpwmval
  <2> SUFFICES ASSUME loadpwmval PROVE FALSE
    OBVIOUS
  <2>1. Next
    BY DEF BusClock
  <2>2. ASSUME NEW r \in BOOLEAN, NEW a \in Addr, NEW d \in Data, Begin(r, a, d)
        PROVE  FALSE
    BY <2>2 DEF Begin
  <2>3. CASE Wait
    BY <2>3 DEF Wait, access
  <2>4. CASE Strobe \/ EndAccess
    BY <2>4 DEF Strobe, EndAccess
  <2>5. CASE EndStrobe
    BY <2>5
  <2>6. CASE Reset
    BY <2>6 DEF Reset
  <2> QED BY <2>1, <2>2, <2>3, <2>4, <2>5, <2>6 DEF Next
<1>3. written'[PwmReg] = written[PwmReg] /\ PwmReg \notin doubt
  <2>1. Next
    BY DEF BusClock
  <2>2. CASE EndStrobe
    BY <1>2, <2>2 DEF EndStrobe
  <2>3. CASE ~EndStrobe
    BY <2>1, <2>3 DEF Next, Begin, Wait, Strobe, EndAccess, Reset
  <2> QED BY <2>2, <2>3
<1> QED BY <1>1, <1>2, <1>3 DEF LoadTaken, JustTaken

\* The end of a write to the generator.
LEMMA EndOfLoad ==
  ASSUME WriteWait >= 2, RInv, BusClock, EndStrobe, loadpwmval
  PROVE  LoadTaken'
<1> USE RegsAssumption, TimingAssumption, MinFastAssumption
    DEF RInv, IInv, TypeOK, loadpwmval, con_write_out
<1>1. written'[PwmReg] = slave_writedata
  BY DEF EndStrobe
<1>2. reg[PwmReg] = slave_writedata
  BY DEF EndStrobe, Settled
<1>3. edges # 0
  BY DEF BusClock, JustTaken
<1>4. CASE olderloadpwmreq
  BY <1>1, <1>2, <1>3, <1>4 DEF BusClock, Pwm!BusEdge, JustTaken, LoadTaken
<1>5. CASE ~olderloadpwmreq
  BY <1>5 DEF BusClock, Pwm!BusEdge, LoadTaken
<1> QED BY <1>4, <1>5

LEMMA BusClockInv == ASSUME WriteWait >= 2, RInv, BusClock PROVE RInv'
<1>1. IInv'
  BY StepInv DEF RInv, BusClock
<1>2. Settled'
  BY SettledStep DEF RInv, BusClock
<1>3. JustTaken'
  BY DEF RInv, JustTaken, BusClock, Pwm!BusEdge, loadpwmval, con_write_out
<1>4. LoadTaken'
  BY OtherClock, EndOfLoad
<1> QED BY <1>1, <1>2, <1>3, <1>4 DEF RInv

(***************************************************************************)
(* A fast clock.                                                           *)
(***************************************************************************)
LEMMA FastClockInv == ASSUME RInv, NEW c \in BOOLEAN, FastClock(c) PROVE RInv'
<1>1. UNCHANGED vars
  BY DEF FastClock
<1>2. IInv'
  BY <1>1, StepInv DEF RInv
<1>3. Settled'
  BY <1>1 DEF RInv, Settled, vars, con_write_out
<1>4. /\ oldloadpwmreq' = IF oldloadpwmreq /\ olderloadpwmreq THEN FALSE
                          ELSE oldloadpwmreq \/ (loadpwmreq /\ c)
      /\ olderloadpwmreq' = oldloadpwmreq
      /\ loadpwmreq' = (loadpwmreq /\ ~olderloadpwmreq')
      /\ pwmval' = IF oldloadpwmreq /\ olderloadpwmreq THEN reg[PwmReg] ELSE pwmval
  BY DEF FastClock, Pwm!FastEdge, Pwm!Taking
<1>5. edges' \in Nat
  BY DEF FastClock, RInv, JustTaken
<1>6. JustTaken'
  BY <1>1, <1>4, <1>5 DEF RInv, JustTaken, vars
<1>7. LoadTaken'
  <2> SUFFICES ASSUME PwmReg \notin doubt, ~loadpwmval
               PROVE  pwmval' = written[PwmReg] \/ loadpwmreq' \/ oldloadpwmreq'
    BY <1>1 DEF LoadTaken, loadpwmval, con_write_out, vars
  <2>1. reg[PwmReg] = written[PwmReg]
    BY RegsAssumption DEF RInv, IInv, WritesLand, loadpwmval
  <2> QED BY <1>4, <2>1 DEF RInv, LoadTaken, JustTaken
<1> QED BY <1>2, <1>3, <1>6, <1>7 DEF RInv

LEMMA RequestsStepInv == ASSUME WriteWait >= 2, RInv, [RequestsNext]_allVars PROVE RInv'
<1>1. CASE RequestsNext
  BY <1>1, BusClockInv, FastClockInv DEF RequestsNext
<1>2. CASE UNCHANGED allVars
  <2>1. UNCHANGED vars
    BY <1>2 DEF allVars
  <2>2. IInv'
    BY <1>2, <2>1, StepInv DEF RInv
  <2> QED BY <1>2, <2>1, <2>2
       DEF RInv, Settled, JustTaken, LoadTaken, loadpwmval, con_write_out, allVars, vars,
           requestVars
<1> QED BY <1>1, <1>2

(***************************************************************************)
(* The word of a finished write reaches the generator: no request is lost  *)
(* for good, whatever the phase of the two clocks, if the strobe of a write*)
(* lasts a clock longer than its data need (the component declares two).   *)
(***************************************************************************)
THEOREM LoadTakenAlways ==
  ASSUME WriteWait >= 2
  PROVE  RequestsSpec => []LoadTaken
<1>1. RInv => LoadTaken
  BY DEF RInv
<1>2. RInv /\ [RequestsNext]_allVars => RInv'
  BY RequestsStepInv
<1> QED BY <1>1, <1>2, RequestsInitInv, PTL DEF RequestsSpec, allVars
-----------------------------------------------------------------------------
(***************************************************************************)
(* Types: a request keeps its three bits, a pop is a natural number.       *)
(***************************************************************************)
LEMMA RequestsInitTyped == RequestsInit => RequestsTypeOK
<1> SUFFICES ASSUME RequestsInit PROVE RequestsTypeOK
  OBVIOUS
<1>1. TypeOK
  BY InitInv DEF RequestsInit, IInv
<1>2. pwmval \in Data
  BY <1>1, RegsAssumption DEF RequestsInit, TypeOK
<1>3. edges \in 0 .. MinFast /\ pops \in Nat
  BY MinFastAssumption DEF RequestsInit
<1>4. /\ loadpwmreq \in BOOLEAN /\ oldloadpwmreq \in BOOLEAN /\ olderloadpwmreq \in BOOLEAN
      /\ PopReq \in BOOLEAN /\ PopReq1 \in BOOLEAN /\ PopReq2 \in BOOLEAN
  BY DEF RequestsInit, Pwm!Init, Biss!Init
<1> QED BY <1>1, <1>2, <1>3, <1>4 DEF RequestsTypeOK

LEMMA BusClockTyped == ASSUME RequestsTypeOK, TypeOK', BusClock PROVE RequestsTypeOK'
<1>1. edges' = 0 /\ pwmval' = pwmval /\ pops' \in {0, pops}
  BY DEF BusClock
<1>2. /\ loadpwmreq' \in BOOLEAN /\ oldloadpwmreq' = oldloadpwmreq
      /\ olderloadpwmreq' = olderloadpwmreq
  BY DEF BusClock, Pwm!BusEdge, RequestsTypeOK, loadpwmval, con_write_out
<1>3. PopReq' \in BOOLEAN /\ PopReq1' = PopReq1 /\ PopReq2' = PopReq2
  BY DEF BusClock, Biss!BusEdge, RequestsTypeOK, Poplifo, con_read_out
<1> QED BY <1>1, <1>2, <1>3, MinFastAssumption DEF RequestsTypeOK

LEMMA FastClockTyped ==
  ASSUME RequestsTypeOK, NEW c \in BOOLEAN, FastClock(c)
  PROVE  RequestsTypeOK'
<1>1. TypeOK'
  BY DEF FastClock, vars, RequestsTypeOK, TypeOK
<1>2. /\ loadpwmreq' \in BOOLEAN /\ oldloadpwmreq' \in BOOLEAN /\ olderloadpwmreq' \in BOOLEAN
  BY DEF FastClock, Pwm!FastEdge, Pwm!Taking, RequestsTypeOK
<1>3. PopReq' \in BOOLEAN /\ PopReq1' \in BOOLEAN /\ PopReq2' \in BOOLEAN
  BY DEF FastClock, Biss!FastEdge, Biss!Taking, RequestsTypeOK
<1>4. pwmval' \in Data
  BY RegsAssumption DEF FastClock, RequestsTypeOK, TypeOK
<1>5. edges' \in 0 .. MinFast
  BY MinFastAssumption DEF FastClock, RequestsTypeOK
<1>6. pops' \in Nat
  BY DEF FastClock, RequestsTypeOK
<1> QED BY <1>1, <1>2, <1>3, <1>4, <1>5, <1>6 DEF RequestsTypeOK

LEMMA RequestsStepTyped ==
  ASSUME IInv, RequestsTypeOK, [RequestsNext]_allVars
  PROVE  RequestsTypeOK'
<1>1. ASSUME BusClock PROVE RequestsTypeOK'
  <2>1. TypeOK'
    BY <1>1, StepInv DEF BusClock, IInv
  <2> QED BY <1>1, <2>1, BusClockTyped
<1>2. ASSUME UNCHANGED allVars PROVE RequestsTypeOK'
  BY <1>2 DEF allVars, vars, requestVars, RequestsTypeOK, TypeOK
<1> QED BY <1>1, <1>2, FastClockTyped DEF RequestsNext

(***************************************************************************)
(* Bus, requests and what they move are well typed.                        *)
(***************************************************************************)
THEOREM RequestsTyped == RequestsSpec => []RequestsTypeOK
<1>1. IInv /\ RequestsTypeOK /\ [RequestsNext]_allVars => RequestsTypeOK'
  BY RequestsStepTyped
<1> QED BY <1>1, BusInv, RequestsInitTyped, PTL DEF RequestsSpec, allVars

-----------------------------------------------------------------------------
(***************************************************************************)
(* The pops of a read.  The fast edges it takes until nothing is asked any *)
(* more: three after a request, and one at least falls before every clock  *)
(* of the bus.  So a request that a reset left behind is gone when the next*)
(* access reaches its strobe, if that access is set up for two clocks: with*)
(* one the theorem is false, the late pop counts as one of the new read.   *)
(***************************************************************************)
FastEdgesDue == IF PopReq THEN IF PopReq1 THEN 2 ELSE 3 ELSE IF PopReq1 THEN 1 ELSE 0
Pending == IF FastEdgesDue = 0 THEN 0 ELSE 1
DueAfter(n) == FastEdgesDue <= IF edges = 0 THEN n ELSE n - 1

BissHandshake ==
  /\ PopReq => ~PopReq2
  /\ PopReq1 /\ ~PopReq2 => PopReq
  /\ PopReq2 /\ ~PopReq1 /\ edges # 0 => pops > 0

LeftCounts ==
  /\ phase = "setup" => left \in 1 .. Setup
  /\ phase = "strobe" => left >= 1 /\ left <= StrobeClocks

Settling ==
  /\ phase \in {"idle", "hold"} => DueAfter(3)
  /\ phase = "setup" => DueAfter(2)
  /\ phase = "setup" /\ left < Setup => DueAfter(1)

\* Pops taken and to come, against the clocks of the strobe that are over.
PopsAsked ==
  pops + Pending <= ReadWait + 1 - (IF Poplifo THEN left ELSE 0)

PopStands ==
  /\ isread /\ slave_address = BissReg
  /\ phase = "hold" \/ (phase = "strobe" /\ left <= ReadWait)
  => pops > 0 \/ PopReq \/ PopReq1

PopInv ==
  RequestsTypeOK /\ BissHandshake /\ LeftCounts /\ Settling /\ PopsAsked /\ PopStands

LEMMA InitPopInv == RequestsInit => PopInv
<1> SUFFICES ASSUME RequestsInit PROVE PopInv
  OBVIOUS
<1>1. RequestsTypeOK
  BY RequestsInitTyped
<1>2. /\ phase = "idle" /\ edges = 0 /\ pops = 0
      /\ PopReq = FALSE /\ PopReq1 = FALSE /\ PopReq2 = FALSE
  BY DEF RequestsInit, Init, Biss!Init
<1>3. FastEdgesDue = 0 /\ Pending = 0
  BY <1>2 DEF FastEdgesDue, Pending
<1>4. BissHandshake /\ LeftCounts /\ Settling /\ PopStands
  BY <1>2, <1>3 DEF BissHandshake, LeftCounts, Settling, PopStands, DueAfter
<1>5. PopsAsked
  BY <1>2, <1>3, TimingAssumption DEF PopsAsked, Poplifo, con_read_out
<1> QED BY <1>1, <1>4, <1>5 DEF PopInv

\* A fast edge brings every request nearer and counts the pop it takes.
LEMMA FastClockPops == ASSUME PopInv, NEW c \in BOOLEAN, FastClock(c) PROVE PopInv'
<1>1. RequestsTypeOK'
  BY FastClockTyped DEF PopInv
<1>2. /\ PopReq \in BOOLEAN /\ PopReq1 \in BOOLEAN /\ PopReq2 \in BOOLEAN
      /\ PopReq1' = IF PopReq1 /\ PopReq2 THEN FALSE ELSE PopReq1 \/ PopReq
      /\ PopReq2' = PopReq1
      /\ PopReq' = (PopReq /\ ~PopReq2')
      /\ pops' = IF PopReq1 /\ PopReq2 THEN pops + 1 ELSE pops
  BY DEF FastClock, Biss!FastEdge, Biss!Taking, PopInv, RequestsTypeOK
<1>3. edges' # 0 /\ edges' \in Nat /\ edges \in Nat /\ pops \in Nat
  BY MinFastAssumption DEF FastClock, PopInv, RequestsTypeOK
<1>4. /\ phase' = phase /\ left' = left /\ isread' = isread
      /\ slave_address' = slave_address /\ StrobeClocks' = StrobeClocks
      /\ Poplifo' = Poplifo
  BY DEF FastClock, vars, StrobeClocks, Poplifo, con_read_out
<1>5. BissHandshake
  BY DEF PopInv
<1>6. BissHandshake'
  BY <1>2, <1>3, <1>5 DEF BissHandshake
<1>7. /\ FastEdgesDue \in 0 .. 3
      /\ FastEdgesDue' = IF FastEdgesDue = 0 THEN 0 ELSE FastEdgesDue - 1
      /\ FastEdgesDue = 1 <=> PopReq1 /\ PopReq2
  BY <1>2, <1>5 DEF BissHandshake, FastEdgesDue
<1>8. Settling'
  <2>1. \A n \in {1, 2, 3} : DueAfter(n) => FastEdgesDue' <= n - 1
    BY <1>7 DEF DueAfter
  <2> QED BY <1>3, <1>4, <1>7, <2>1 DEF PopInv, Settling, DueAfter
<1>9. pops' + Pending' <= pops + Pending
  BY <1>2, <1>3, <1>7 DEF Pending
<1>10. PopsAsked'
  <2>1. Pending \in 0 .. 1 /\ Pending' \in 0 .. 1 /\ pops' \in Nat /\ left \in Nat
    BY <1>2, <1>3 DEF Pending, PopInv, RequestsTypeOK, TypeOK
  <2>2. PopsAsked
    BY DEF PopInv
  <2>3. ReadWait \in Nat
    BY TimingAssumption
  <2>4. PICK n \in Int : n = ReadWait + 1 - (IF Poplifo THEN left ELSE 0)
    BY <2>1, <2>3
  <2>5. n = ReadWait + 1 - (IF Poplifo' THEN left' ELSE 0)
    BY <1>4, <2>4
  <2>6. PICK p \in Int, q \in Int, y \in Int, z \in Int :
          p = Pending /\ q = Pending' /\ y = pops /\ z = pops'
    BY <1>3, <2>1
  <2>7. y + p <= n /\ z + q <= y + p
    BY <1>9, <2>2, <2>4, <2>6 DEF PopsAsked
  <2>8. z + q <= n
    BY <2>7
  <2> QED BY <2>5, <2>6, <2>8 DEF PopsAsked
<1>11. PopStands'
  BY <1>2, <1>3, <1>4 DEF PopInv, PopStands
<1> QED BY <1>1, <1>4, <1>6, <1>8, <1>10, <1>11 DEF PopInv, LeftCounts

\* What a bus clock asks for, and what it leaves alone.
LEMMA BusRequest ==
  ASSUME PopInv, BusClock
  PROVE  /\ PopReq' = ((PopReq \/ Poplifo) /\ ~PopReq2)
         /\ PopReq1' = PopReq1 /\ PopReq2' = PopReq2 /\ edges' = 0 /\ edges # 0
         /\ pops' = IF phase = "setup" THEN 0 ELSE pops
         /\ Next
<1>1. edges # 0
  BY MinFastAssumption DEF BusClock
<1> QED BY <1>1 DEF BusClock, Biss!BusEdge

LEMMA BusTimes ==
  ASSUME PopInv, Next
  PROVE  LeftCounts'
<1> USE TimingAssumption DEF PopInv, LeftCounts, RequestsTypeOK, TypeOK, StrobeClocks, access
<1>1. ASSUME NEW r \in BOOLEAN, NEW a \in Addr, NEW d \in Data, Begin(r, a, d)
      PROVE  LeftCounts'
  BY <1>1 DEF Begin
<1>2. ASSUME Wait PROVE LeftCounts'
  BY <1>2 DEF Wait
<1>3. ASSUME Strobe PROVE LeftCounts'
  BY <1>3 DEF Strobe
<1>4. ASSUME EndStrobe \/ EndAccess \/ Reset PROVE LeftCounts'
  BY <1>4 DEF EndStrobe, EndAccess, Reset
<1> QED BY <1>1, <1>2, <1>3, <1>4 DEF Next

LEMMA BusHandshake ==
  ASSUME PopInv, BusClock
  PROVE  /\ BissHandshake' /\ FastEdgesDue' \in 0 .. 3 /\ FastEdgesDue \in 0 .. 3
         /\ ~Poplifo => FastEdgesDue' = FastEdgesDue
<1>1. /\ PopReq' = ((PopReq \/ Poplifo) /\ ~PopReq2)
      /\ PopReq1' = PopReq1 /\ PopReq2' = PopReq2 /\ edges' = 0
  BY BusRequest
<1>2. BissHandshake'
  BY <1>1 DEF PopInv, BissHandshake
<1>3. ~Poplifo => (PopReq' <=> PopReq)
  BY <1>1 DEF PopInv, BissHandshake
<1> QED BY <1>1, <1>2, <1>3 DEF FastEdgesDue

\* Every bus clock finds a request one fast edge nearer.
LEMMA BusSettling ==
  ASSUME PopInv, BusClock
  PROVE  Settling'
<1> USE DEF PopInv, LeftCounts, RequestsTypeOK, TypeOK, Poplifo, con_read_out, StrobeClocks, access
<1>1. Next /\ edges' = 0 /\ edges # 0
  BY BusRequest
<1>2. /\ FastEdgesDue' \in 0 .. 3
      /\ ~Poplifo => FastEdgesDue' = FastEdgesDue
  BY BusHandshake
<1>3. phase \in {"idle", "hold"} => FastEdgesDue <= 2
  BY <1>1 DEF Settling, DueAfter
<1>4. phase = "setup" => FastEdgesDue <= 1
  BY <1>1 DEF Settling, DueAfter
<1> SUFFICES /\ phase' = "setup" => FastEdgesDue' <= 2
             /\ phase' = "setup" /\ left' < Setup => FastEdgesDue' <= 1
  BY <1>1, <1>2 DEF Settling, DueAfter
<1>5. ASSUME NEW r \in BOOLEAN, NEW a \in Addr, NEW d \in Data, Begin(r, a, d)
      PROVE  phase' = "setup" /\ left' = Setup /\ FastEdgesDue' <= 2
  BY <1>2, <1>3, <1>5 DEF Begin
<1>6. ASSUME Wait, phase' = "setup" PROVE FastEdgesDue' <= 1
  BY <1>2, <1>4, <1>6 DEF Wait
<1>7. Strobe \/ EndStrobe \/ EndAccess \/ Reset => phase' # "setup"
  BY DEF Strobe, EndStrobe, EndAccess, Reset
<1>8. Setup \in Nat
  BY TimingAssumption
<1>9. CASE \E r \in BOOLEAN, a \in Addr, d \in Data : Begin(r, a, d)
  BY <1>5, <1>8, <1>9
<1>10. CASE Wait
  BY <1>2, <1>6, <1>10
<1> QED BY <1>1, <1>7, <1>9, <1>10 DEF Next

\* A strobed clock asks for one pop at most; the strobe of a read starts at rest.
LEMMA BusAsked ==
  ASSUME Setup >= 2, PopInv, BusClock
  PROVE  PopsAsked'
<1> USE DEF PopInv, LeftCounts, RequestsTypeOK, TypeOK
<1>0. /\ Next /\ edges' = 0 /\ edges # 0 /\ PopsAsked
      /\ pops' = IF phase = "setup" THEN 0 ELSE pops
      /\ ReadWait \in Nat /\ Setup \in Nat /\ ReadWait # 0
  BY BusRequest, TimingAssumption
<1>1. /\ FastEdgesDue' \in 0 .. 3 /\ FastEdgesDue \in 0 .. 3
      /\ ~Poplifo => FastEdgesDue' = FastEdgesDue
  BY BusHandshake
<1>2. /\ Pending \in 0 .. 1 /\ Pending' \in 0 .. 1 /\ pops \in Nat /\ pops' \in Nat /\ left \in Nat
      /\ ~Poplifo => Pending' = Pending
  BY <1>0, <1>1 DEF Pending
<1>3. pops' <= pops
  BY <1>0, <1>2
<1>4. ASSUME ~Poplifo, ~Poplifo' PROVE PopsAsked'
  <2>1. pops + Pending <= ReadWait + 1 - 0
    BY <1>0, <1>4 DEF PopsAsked
  <2>2. pops' + Pending' <= ReadWait + 1 - 0
    BY <1>0, <1>2, <1>3, <1>4, <2>1
  <2> QED BY <1>4, <2>2 DEF PopsAsked
<1>5. ASSUME ~Poplifo, Poplifo' PROVE PopsAsked'
  <2>1. Strobe
    BY <1>0, <1>5 DEF Next, Begin, Wait, Strobe, EndStrobe, EndAccess, Reset, Poplifo,
                      con_read_out, access
  <2>2. phase = "setup" /\ left = 1 /\ left' = ReadWait + 1
    BY <1>5, <2>1 DEF Strobe, StrobeClocks, Poplifo, con_read_out, access
  <2>3. FastEdgesDue = 0
    BY <1>0, <1>1, <2>2 DEF Settling, DueAfter
  <2>4. Pending' = 0 /\ pops' = 0
    BY <1>0, <1>1, <1>5, <2>2, <2>3 DEF Pending
  <2>5. pops' + Pending' <= ReadWait + 1 - left'
    BY <1>0, <2>2, <2>4
  <2> QED BY <1>5, <2>5 DEF PopsAsked
<1>6. ASSUME Poplifo PROVE PopsAsked'
  <2>1. pops + Pending <= ReadWait + 1 - left /\ left >= 1 /\ phase = "strobe"
    BY <1>0, <1>6 DEF PopsAsked, Poplifo, con_read_out
  <2>2. PICK p \in 0 .. 1, q \in 0 .. 1, y \in Nat, z \in Nat, l \in Nat, w \in Nat :
          /\ p = Pending /\ q = Pending' /\ y = pops /\ z = pops' /\ l = left /\ w = ReadWait
    BY <1>0, <1>2
  <2>3. y + p <= w + 1 - l /\ l >= 1 /\ z <= y
    BY <1>3, <2>1, <2>2
  <2>4. z + q <= w + 1 - (l - 1) /\ z + q <= w + 1 - 0
    BY <2>3
  <2>5. ASSUME ~Poplifo' PROVE PopsAsked'
    BY <2>2, <2>4, <2>5 DEF PopsAsked
  <2>6. ASSUME Poplifo' PROVE PopsAsked'
    <3>1. Wait
      BY <1>0, <2>1, <2>6 DEF Next, Begin, Wait, Strobe, EndStrobe, EndAccess, Reset, Poplifo,
                        con_read_out
    <3>2. left' = l - 1
      BY <2>2, <3>1 DEF Wait
    <3> QED BY <2>2, <2>4, <2>6, <3>2 DEF PopsAsked
  <2> QED BY <2>5, <2>6
<1> QED BY <1>4, <1>5, <1>6

\* The first strobed clock leaves a request, or finds a pop just taken.
LEMMA BusStands ==
  ASSUME PopInv, BusClock
  PROVE  PopStands'
<1> SUFFICES ASSUME isread', slave_address' = BissReg,
                    phase' = "hold" \/ (phase' = "strobe" /\ left' <= ReadWait)
             PROVE  pops' > 0 \/ PopReq' \/ PopReq1'
  BY DEF PopStands
<1> USE DEF PopInv, LeftCounts, RequestsTypeOK, TypeOK
<1>0. /\ Next /\ edges # 0 /\ pops' = IF phase = "setup" THEN 0 ELSE pops
      /\ PopReq' = ((PopReq \/ Poplifo) /\ ~PopReq2) /\ PopReq1' = PopReq1
      /\ ReadWait \in Nat
  BY BusRequest, TimingAssumption
<1>1. phase \in {"strobe", "hold"} /\ isread /\ slave_address = BissReg
  <2>1. ~Strobe
    <3> SUFFICES ASSUME Strobe PROVE FALSE
      OBVIOUS
    <3>1. left' = ReadWait + 1 /\ phase' = "strobe"
      BY DEF Strobe, StrobeClocks, access
    <3> QED BY <1>0, <3>1
  <2>2. \A r \in BOOLEAN, a \in Addr, d \in Data : ~Begin(r, a, d)
    BY DEF Begin
  <2>3. Wait \/ EndStrobe \/ EndAccess \/ Reset
    BY <1>0, <2>1, <2>2 DEF Next
  <2> QED BY <2>3 DEF Wait, EndStrobe, EndAccess, Reset, access
<1>2. pops' = pops
  BY <1>0, <1>1
<1>3. CASE phase = "strobe"
  <2>1. Poplifo
    BY <1>1, <1>3 DEF Poplifo, con_read_out
  <2> QED BY <1>0, <1>2, <2>1 DEF BissHandshake
<1>4. CASE phase = "hold"
  <2>1. pops > 0 \/ PopReq \/ PopReq1
    BY <1>1, <1>4 DEF PopStands
  <2> QED BY <1>0, <1>2, <2>1 DEF BissHandshake
<1> QED BY <1>1, <1>3, <1>4

(***************************************************************************)
(* A read pops the FIFO at least once and at most once per strobed clock,  *)
(* whatever the phase of the two clocks, if an access is set up for two    *)
(* clocks or more (the component declares four).                           *)
(***************************************************************************)
THEOREM PopTakenAlways ==
  ASSUME Setup >= 2
  PROVE  RequestsSpec => []PopTaken
<1>1. ASSUME PopInv, IInv, [RequestsNext]_allVars PROVE PopInv'
  <2>1. ASSUME BusClock PROVE PopInv'
    <3>1. RequestsTypeOK'
      BY <1>1, RequestsStepTyped DEF PopInv
    <3>2. LeftCounts'
      BY <1>1, <2>1, BusRequest, BusTimes
    <3> QED BY <1>1, <2>1, <3>1, <3>2, BusHandshake, BusSettling, BusAsked, BusStands DEF PopInv
  <2>2. ASSUME UNCHANGED allVars PROVE PopInv'
    <3>1. RequestsTypeOK'
      BY <1>1, RequestsStepTyped DEF PopInv
    <3> USE <1>1, <2>2 DEF PopInv, allVars, vars, requestVars
    <3>2. BissHandshake' /\ LeftCounts'
      BY DEF BissHandshake, LeftCounts, StrobeClocks
    <3>3. FastEdgesDue' = FastEdgesDue /\ Pending' = Pending
      BY DEF FastEdgesDue, Pending
    <3>4. Settling' /\ PopStands'
      BY <3>3 DEF Settling, DueAfter, PopStands
    <3>5. PopsAsked'
      BY <3>3 DEF PopsAsked, Poplifo, con_read_out
    <3> QED BY <3>1, <3>2, <3>4, <3>5
  <2> QED BY <1>1, <2>1, <2>2, FastClockPops DEF RequestsNext
<1>2. PopInv => PopTaken
  <2> SUFFICES ASSUME PopInv PROVE PopTaken
    OBVIOUS
  <2>1. pops \in Nat /\ left \in Nat /\ Pending \in 0 .. 1 /\ ReadWait \in Nat /\ PopsAsked
    BY TimingAssumption DEF PopInv, RequestsTypeOK, TypeOK, Pending
  <2>2. pops <= ReadWait + 1
    BY <2>1 DEF PopsAsked
  <2> QED BY <2>2 DEF PopInv, PopStands, PopTaken
<1>3. PopInv /\ IInv /\ [RequestsNext]_allVars => PopInv'
  BY <1>1
<1> QED BY <1>2, <1>3, BusInv, InitPopInv, PTL DEF RequestsSpec, allVars
=============================================================================
