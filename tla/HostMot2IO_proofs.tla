------------------------- MODULE HostMot2IO_proofs --------------------------
(***************************************************************************)
(* Proofs about HostMot2IO, for every bus width (Half), set of ports and   *)
(* set of pins.                                                            *)
(***************************************************************************)
EXTENDS HostMot2IO, TLAPS

USE HalfAssumption

(***************************************************************************)
(* What the outputs need to be inductive: an enable bit that is set was    *)
(* asked for since the last clear.                                         *)
(***************************************************************************)
EnableInv ==
  \A p \in Ports : ddrreg[p] \subseteq enabled[p] /\ opendrainsel[p] \subseteq enabled[p]

(***************************************************************************)
(* What the bite needs: where the timer and the edge detector are, from    *)
(* the value it was last loaded with and the clocks since.                 *)
(***************************************************************************)
TimerInv ==
  /\ loaded < Half /\ sincePet <= loaded => wdtimer = loaded - sincePet
  /\ loaded < Half /\ sincePet > loaded => wdtimer = 2 * Half - 1
  /\ loaded >= Half => wdtimer = loaded
  /\ loaded < Half /\ sincePet \in 1 .. (loaded + 1) => ~oldwdtimermsb
  /\ loaded < Half /\ sincePet > loaded + 1 => oldwdtimermsb
  /\ loaded >= Half /\ sincePet > 0 => oldwdtimermsb

-----------------------------------------------------------------------------
(***************************************************************************)
(* Every clock either reloads the timer (time write, good cookie) or       *)
(* counts, and always runs the edge detector.                              *)
(***************************************************************************)
Reload == \E w \in Word : wdtimer' = w /\ wdtime' = w /\ Pet(w)
Count  == CountDown /\ wdtime' = wdtime /\ Aged

LEMMA TimerStep ==
  ASSUME TypeOK, Next
  PROVE  /\ Reload \/ Count
         /\ EdgeDetect
         /\ wdstatus' \in BOOLEAN
<1> USE DEF TypeOK, WdTypeOK, Reload, Count, Status, BiteEdge, wdtimermsb
<1>1. CASE Idle
  BY <1>1 DEF Idle, NoWrite
<1>2. ASSUME NEW w \in Word, WriteTime(w)
      PROVE  (Reload \/ Count) /\ EdgeDetect /\ wdstatus' \in BOOLEAN
  BY <1>2 DEF WriteTime, LoadTime
<1>3. ASSUME NEW b \in BOOLEAN, WriteCookie(b)
      PROVE  (Reload \/ Count) /\ EdgeDetect /\ wdstatus' \in BOOLEAN
  BY <1>3 DEF WriteCookie, Cookie
<1>4. ASSUME NEW b \in BOOLEAN, WriteStatus(b)
      PROVE  (Reload \/ Count) /\ EdgeDetect /\ wdstatus' \in BOOLEAN
  BY <1>4 DEF WriteStatus, LoadStatus
<1>5. ASSUME NEW p \in Ports, NEW bits \in SUBSET Pins,
             \/ WritePort(p, bits) \/ WriteDDR(p, bits) \/ WriteAltDataSrc(p, bits)
             \/ WriteOpenDrainMode(p, bits) \/ WriteOutputInv(p, bits)
      PROVE  (Reload \/ Count) /\ EdgeDetect /\ wdstatus' \in BOOLEAN
  BY <1>5 DEF WritePort, WriteDDR, WriteAltDataSrc, WriteOpenDrainMode,
              WriteOutputInv, NoWrite
<1> QED BY <1>1, <1>2, <1>3, <1>4, <1>5 DEF Next

(***************************************************************************)
(* The registers of the ports keep their types, and an enable bit gets set *)
(* only together with its entry in "enabled".                              *)
(***************************************************************************)
LEMMA PortStep ==
  ASSUME TypeOK, EnableInv, Next
  PROVE  IoTypeOK' /\ enabled' \in [Ports -> SUBSET Pins] /\ EnableInv'
<1> DEFINE Goal == IoTypeOK' /\ enabled' \in [Ports -> SUBSET Pins] /\ EnableInv'
<1> USE DEF TypeOK, IoTypeOK, EnableInv, IoClock, Clearable, NoEnable
<1>1. CASE IoIdle(wdbite) /\ NoEnable
  BY <1>1 DEF IoIdle
<1>2. ASSUME NEW p \in Ports, NEW bits \in SUBSET Pins, WritePort(p, bits)
      PROVE  Goal
  BY <1>2 DEF WritePort, LoadPort
<1>3. ASSUME NEW p \in Ports, NEW bits \in SUBSET Pins, WriteDDR(p, bits)
      PROVE  Goal
  BY <1>3 DEF WriteDDR, LoadDDR, Enable
<1>4. ASSUME NEW p \in Ports, NEW bits \in SUBSET Pins, WriteAltDataSrc(p, bits)
      PROVE  Goal
  BY <1>4 DEF WriteAltDataSrc, LoadAltDataSrc
<1>5. ASSUME NEW p \in Ports, NEW bits \in SUBSET Pins, WriteOpenDrainMode(p, bits)
      PROVE  Goal
  BY <1>5 DEF WriteOpenDrainMode, LoadOpenDrainMode, Enable
<1>6. ASSUME NEW p \in Ports, NEW bits \in SUBSET Pins, WriteOutputInv(p, bits)
      PROVE  Goal
  BY <1>6 DEF WriteOutputInv, LoadInvert
<1>7. ASSUME Idle \/ (\E w \in Word : WriteTime(w))
             \/ (\E b \in BOOLEAN : WriteCookie(b) \/ WriteStatus(b))
      PROVE  IoIdle(wdbite) /\ NoEnable
  BY <1>7 DEF Idle, WriteTime, WriteCookie, WriteStatus
<1> QED BY <1>1, <1>2, <1>3, <1>4, <1>5, <1>6, <1>7 DEF Next

-----------------------------------------------------------------------------
IInv == TypeOK /\ EnableInv /\ TimerInv

LEMMA InitInv == Init => IInv
<1> SUFFICES ASSUME Init PROVE IInv
  OBVIOUS
<1>1. TypeOK
  <2>1. WdTypeOK
    <3>1. wdtimer \in Word /\ wdtime \in Word
      BY DEF Init, WdInit, Word
    <3> QED BY <3>1, Zenon DEF Init, WdInit, WdTypeOK
  <2>2. IoTypeOK /\ enabled \in [Ports -> SUBSET Pins]
    BY DEF Init, IoInit, IoTypeOK
  <2> QED BY <2>1, <2>2 DEF Init, TypeOK, Word, MaxAge
<1>2. EnableInv
  BY DEF Init, IoInit, EnableInv
<1>3. TimerInv
  BY DEF Init, WdInit, TimerInv
<1> QED BY <1>1, <1>2, <1>3 DEF IInv

LEMMA TimerTypeStep ==
  ASSUME TypeOK, Next
  PROVE  WdTypeOK' /\ sincePet' \in 0 .. MaxAge /\ loaded' \in Word
<1>1. wdtimer' \in Word /\ wdtime' \in Word
  BY TimerStep DEF Reload, Count, CountDown, Word, wdtimermsb, TypeOK, WdTypeOK
<1>2. sincePet' \in 0 .. MaxAge /\ loaded' \in Word
  BY TimerStep, <1>1 DEF Reload, Count, Pet, Aged, Older, MaxAge, TypeOK
<1>3. EdgeDetect /\ wdstatus' \in BOOLEAN
  BY TimerStep
<1>4. oldwdtimermsb' \in BOOLEAN /\ wdbite' \in BOOLEAN
  BY <1>3 DEF EdgeDetect, BiteEdge, wdtimermsb
<1> QED BY <1>1, <1>2, <1>3, <1>4 DEF WdTypeOK

LEMMA TimerInvStep ==
  ASSUME TypeOK, TimerInv, Next
  PROVE  TimerInv'
<1>1. (Reload \/ Count) /\ EdgeDetect
  BY TimerStep
<1>2. /\ wdtimer \in 0 .. (2 * Half - 1)
      /\ loaded \in 0 .. (2 * Half - 1)
      /\ sincePet \in 0 .. (2 * Half + 2)
  BY DEF TypeOK, WdTypeOK, Word, MaxAge
<1>3. /\ wdtimer >= Half => oldwdtimermsb'
      /\ ~(wdtimer >= Half) => ~oldwdtimermsb'
  BY <1>1, Zenon DEF EdgeDetect, wdtimermsb
<1>4. CASE Reload
  <2>1. PICK w \in Word : wdtimer' = w /\ sincePet' = 0 /\ loaded' = w
    BY <1>4 DEF Reload, Pet
  <2> QED BY <2>1 DEF TimerInv, Word
<1>5. CASE Count
  <2>1. /\ sincePet' = IF sincePet < 2 * Half + 2 THEN sincePet + 1 ELSE sincePet
        /\ loaded' = loaded
        /\ wdtimer' = IF wdtimer >= Half THEN wdtimer
                      ELSE IF wdtimer = 0 THEN 2 * Half - 1 ELSE wdtimer - 1
    BY <1>5 DEF Count, CountDown, Aged, Older, wdtimermsb, MaxAge
  <2> QED BY <1>2, <1>3, <2>1 DEF TimerInv
<1> QED BY <1>1, <1>4, <1>5

LEMMA StepInv == IInv /\ [Next]_vars => IInv'
<1> SUFFICES ASSUME IInv, [Next]_vars PROVE IInv'
  OBVIOUS
<1>1. CASE Next
  <2>1. TypeOK'
    BY <1>1, TimerTypeStep, PortStep DEF IInv, TypeOK, MaxAge
  <2> QED BY <1>1, <2>1, PortStep, TimerInvStep DEF IInv
<1>2. CASE UNCHANGED vars
  BY <1>2 DEF vars, IInv, TypeOK, WdTypeOK, IoTypeOK, EnableInv, TimerInv
<1> QED BY <1>1, <1>2

THEOREM Inductive == Spec => []IInv
  BY InitInv, StepInv, PTL DEF Spec

-----------------------------------------------------------------------------
(***************************************************************************)
(* The registers and the history always have their types.                  *)
(***************************************************************************)
THEOREM TypeCorrect == Spec => []TypeOK
  BY Inductive, PTL DEF IInv

(***************************************************************************)
(* After a bite, no pin of any port is driven until the host enables it    *)
(* again.                                                                  *)
(***************************************************************************)
THEOREM OutputsSafe == Spec => []DrivenOnlyIfEnabled
<1>1. IInv => DrivenOnlyIfEnabled
  BY DEF IInv, EnableInv, DrivenOnlyIfEnabled, Driven, tsoutreg
<1> QED BY <1>1, Inductive, PTL

(***************************************************************************)
(* The bite comes at exactly the clock that the loaded value promises.     *)
(***************************************************************************)
THEOREM BiteInTime == Spec => BiteOnTime
<1>1. IInv /\ [Next]_vars => [loaded < Half /\ sincePet = loaded + 1 => wdbite']_vars
  <2> SUFFICES ASSUME IInv, Next, loaded < Half, sincePet = loaded + 1
               PROVE  wdbite'
    OBVIOUS
  <2>1. wdtimer = 2 * Half - 1 /\ ~oldwdtimermsb
    BY DEF IInv, TimerInv, TypeOK, Word
  <2>2. EdgeDetect
    BY TimerStep DEF IInv
  <2>3. wdtimer >= Half
    BY <2>1
  <2> QED BY <2>1, <2>2, <2>3, Zenon DEF EdgeDetect, BiteEdge, wdtimermsb
<1> QED BY <1>1, Inductive, PTL DEF Spec, BiteOnTime

(***************************************************************************)
(* And never before it.                                                    *)
(***************************************************************************)
THEOREM BiteNotEarly == Spec => NoEarlyBite
<1>1. IInv /\ [Next]_vars
        => [wdbite' => \/ loaded < Half /\ sincePet = loaded + 1
                       \/ loaded >= Half /\ sincePet = 0]_vars
  <2> SUFFICES ASSUME IInv, Next, wdbite'
               PROVE  \/ loaded < Half /\ sincePet = loaded + 1
                      \/ loaded >= Half /\ sincePet = 0
    OBVIOUS
  <2>1. wdtimer >= Half /\ ~oldwdtimermsb
    BY TimerStep DEF IInv, EdgeDetect, BiteEdge, wdtimermsb
  <2> QED BY <2>1 DEF IInv, TimerInv, TypeOK, Word, MaxAge
<1> QED BY <1>1, Inductive, PTL DEF Spec, NoEarlyBite
=============================================================================
