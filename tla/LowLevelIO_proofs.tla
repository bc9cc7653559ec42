------------------------- MODULE LowLevelIO_proofs --------------------------
(***************************************************************************)
(* Proofs about the drivers of LowLevelIO, for every number of boards,     *)
(* ports, cycles, calls, registers, words, queued commands and packets     *)
(* under way: first the parallel port (EppBoards), then the Ethernet       *)
(* transport, then the test patterns.                                      *)
(*                                                                         *)
(* A call of the HostMot2 core over the parallel port and what setup and   *)
(* cleanup do with boards and ports disturb each other only where a board  *)
(* is claimed, so each has an invariant of its own.                        *)
(***************************************************************************)
EXTENDS LowLevelIO, SequenceTheorems, WellFoundedInduction, TLAPS

-----------------------------------------------------------------------------
(***************************************************************************)
(* The call in progress.  A cycle that was missed is still in the port's   *)
(* flag when a read or a write looks at it.                                *)
(***************************************************************************)
FlagKept ==
  call \in {"read", "write"} /\ ret = "busy" /\ missed => timeout

\* The cookie is wrong if a cycle of its read was missed, or went wide where
\* that does not work; the second read of it is never wide.
CookieProves ==
  /\ call = "cookie" /\ ret = "busy" =>
       /\ missed => wrong
       /\ left < 2 /\ epp_wide => wideWorks \/ wrong
  /\ call = "cookie_again" => ~epp_wide

\* Each of the two pairs of a reset that is answered clears the FPGA.
ResetClears ==
  call = "reset" /\ ~missed =>
    /\ left \in {7, 5} => selected
    /\ left <= 6 => master # "hostmot2"

PortInv ==
  /\ PortTypeOK
  /\ ret # "busy" => left = 0
  /\ call = "reset" => left <= 8
  /\ FlagKept /\ CookieProves /\ ResetClears
  /\ SuccessMeansAnswered /\ WideOnlyIfProven

LEMMA PortInvHolds ==
  PortInv => SuccessMeansAnswered /\ WideOnlyIfProven /\ ResetReachesCpld
  BY DEF PortInv, PortTypeOK, ResetClears, ResetReachesCpld

\* A new call: whatever the last one left in the flag is still there.
Standing ==
  /\ master \in {"cpld", "hostmot2", "other"}
  /\ timeout \in BOOLEAN /\ epp_wide \in BOOLEAN /\ wideWorks \in BOOLEAN
  /\ io_error \in BOOLEAN /\ needs_reset \in BOOLEAN
  /\ calls \in 0 .. MaxCalls

LEMMA BeginTyped ==
  ASSUME NEW c \in {"detect", "read", "write", "program", "cookie", "cookie_again", "reset"},
         NEW n \in 0 .. 8 + MaxCycles, Begin(c, n), Standing'
  PROVE  PortTypeOK'
<1>1. call' = c /\ left' = n /\ ret' = "busy" /\ ~selected' /\ ~wrong' /\ ~missed'
      /\ selected' \in BOOLEAN /\ wrong' \in BOOLEAN /\ missed' \in BOOLEAN
  BY DEF Begin
<1>2. call' \in {"none", "detect", "read", "write", "program", "cookie", "cookie_again", "reset"}
  BY <1>1
<1> QED BY <1>1, <1>2 DEF PortTypeOK, Standing

LEMMA BeginInv ==
  ASSUME NEW c \in {"detect", "read", "write", "program", "cookie", "cookie_again", "reset"},
         NEW n \in 0 .. 8 + MaxCycles, Begin(c, n), Standing',
         c = "reset" => n = 8, c = "cookie" => n = 2, c = "cookie_again" => ~epp_wide'
  PROVE  PortInv'
<1>1. call' = c /\ left' = n /\ ret' = "busy" /\ ~missed' /\ ~selected'
  BY DEF Begin
<1>2. PortTypeOK'
  BY BeginTyped
<1> QED BY <1>1, <1>2
        DEF PortInv, FlagKept, CookieProves, ResetClears, SuccessMeansAnswered,
            WideOnlyIfProven

LEMMA CycleTyped ==
  ASSUME PortTypeOK, NEW answered \in BOOLEAN,
         DetectCycle(answered) \/ AccessCycle(answered) \/ ProgramCycle(answered)
           \/ ResetCycle(answered)
  PROVE  PortTypeOK'
<1>1. Cycle(answered)
  BY DEF DetectCycle, AccessCycle, ProgramCycle, ResetCycle
<1>2. /\ left' \in 0 .. 8 + MaxCycles /\ timeout' \in BOOLEAN /\ missed' \in BOOLEAN
      /\ UNCHANGED <<epp_wide, wideWorks, io_error, needs_reset, call, ret, calls>>
  BY <1>1, MaxCyclesAssumption DEF Cycle, PortTypeOK
<1>3. /\ master' \in {"cpld", "hostmot2", "other"}
      /\ selected' \in BOOLEAN /\ wrong' \in BOOLEAN
  BY DEF DetectCycle, AccessCycle, ProgramCycle, ResetCycle, PortTypeOK
<1> QED BY <1>2, <1>3 DEF PortTypeOK

LEMMA CycleInv ==
  ASSUME PortInv, NEW answered \in BOOLEAN,
         DetectCycle(answered) \/ AccessCycle(answered) \/ ProgramCycle(answered)
           \/ ResetCycle(answered)
  PROVE  PortInv'
<1>1. PortTypeOK' /\ left \in Int
  BY CycleTyped, MaxCyclesAssumption DEF PortInv, PortTypeOK
<1>2. ret = "busy" /\ ret' = "busy"
  BY <1>1 DEF PortInv, DetectCycle, AccessCycle, ProgramCycle, ResetCycle, Cycle
<1>3. CASE DetectCycle(answered) \/ ProgramCycle(answered)
  BY <1>1, <1>2, <1>3
     DEF DetectCycle, ProgramCycle, PortInv, FlagKept, CookieProves, ResetClears, Cycle,
         SuccessMeansAnswered, WideOnlyIfProven
<1>4. CASE AccessCycle(answered)
  BY <1>1, <1>2, <1>4
     DEF AccessCycle, PortInv, FlagKept, CookieProves, ResetClears, Cycle,
         SuccessMeansAnswered, WideOnlyIfProven
<1>5. CASE ResetCycle(answered)
  <2>1. call = "reset" /\ call' = "reset" /\ left' = left - 1 /\ left <= 8
    BY <1>5 DEF ResetCycle, Cycle, PortInv
  <2>2. ResetClears'
    <3>1. SUFFICES ASSUME ~missed'
                   PROVE  /\ left' \in {7, 5} => selected'
                          /\ left' <= 6 => master' # "hostmot2"
      BY DEF ResetClears
    <3>2. answered /\ ~missed
      BY <1>5, <3>1 DEF ResetCycle, Cycle
    <3>3. left' \in {7, 5} => selected'
      <4>1. left' \in {7, 5} => left \in {8, 6}
        BY <1>1, <2>1
      <4>2. selected' = (answered /\ left \in {8, 6})
        BY <1>5 DEF ResetCycle
      <4> QED BY <4>1, <4>2, <3>2
    <3>4. /\ left \in {7, 5} => selected
          /\ left <= 6 => master # "hostmot2"
      BY <2>1, <3>2 DEF PortInv, ResetClears
    <3>5. left' <= 6 => master' # "hostmot2"
      BY <1>1, <1>5, <2>1, <3>2, <3>4 DEF ResetCycle
    <3> QED BY <3>3, <3>5
  <2> QED BY <1>1, <1>2, <2>1, <2>2
          DEF PortInv, FlagKept, CookieProves, SuccessMeansAnswered, WideOnlyIfProven
<1> QED BY <1>3, <1>4, <1>5

LEMMA EndTyped ==
  ASSUME PortTypeOK,
         DetectEnd \/ AccessEnd \/ ProgramSent \/ CookieEnd \/ CookieAgainEnd \/ ResetEnd
  PROVE  PortTypeOK'
<1> USE MaxCyclesAssumption DEF PortTypeOK, Begin, Checked
<1>1. CASE DetectEnd \/ AccessEnd
  BY ZenonT(30), <1>1 DEF DetectEnd, AccessEnd
<1>2. CASE ProgramSent
  <2>1. /\ UNCHANGED <<epp_wide, wideWorks, io_error, needs_reset, calls>>
        /\ master' \in {"cpld", "hostmot2", "other"}
    BY <1>2 DEF ProgramSent
  <2>2. /\ timeout' \in BOOLEAN /\ selected' \in BOOLEAN /\ wrong' \in BOOLEAN
        /\ missed' \in BOOLEAN
    BY <1>2 DEF ProgramSent
  <2>3. left' \in 0 .. 8 + MaxCycles /\ ret' \in {"busy", "ok", "failed"}
    BY <1>2 DEF ProgramSent
  <2>4. call' \in {"program", "cookie"}
    BY <1>2 DEF ProgramSent
  <2> QED BY <2>1, <2>2, <2>3, <2>4
<1>3. CASE CookieEnd
  <2>1. Checked /\ UNCHANGED <<master, wideWorks, calls>>
    BY <1>3 DEF CookieEnd
  <2>2. /\ timeout' \in BOOLEAN /\ io_error' \in BOOLEAN /\ needs_reset' \in BOOLEAN
        /\ master' \in {"cpld", "hostmot2", "other"} /\ wideWorks' \in BOOLEAN
        /\ calls' \in 0 .. MaxCalls
    BY <2>1
  <2>3. /\ epp_wide' \in BOOLEAN /\ selected' \in BOOLEAN /\ wrong' \in BOOLEAN
        /\ missed' \in BOOLEAN
    BY <1>3 DEF CookieEnd
  <2>4. left' \in 0 .. 8 + MaxCycles /\ ret' \in {"busy", "ok"}
    BY <1>3 DEF CookieEnd
  <2>5. call' \in {"cookie", "cookie_again"}
    BY <1>3 DEF CookieEnd
  <2> QED BY <2>2, <2>3, <2>4, <2>5
<1>4. CASE CookieAgainEnd
  BY <1>4 DEF CookieAgainEnd
<1>5. CASE ResetEnd
  BY <1>5 DEF ResetEnd
<1> QED BY <1>1, <1>2, <1>3, <1>4, <1>5

LEMMA EndInv ==
  ASSUME PortInv,
         DetectEnd \/ AccessEnd \/ ProgramSent \/ CookieEnd \/ CookieAgainEnd \/ ResetEnd
  PROVE  PortInv'
<1>1. PortTypeOK'
  BY EndTyped DEF PortInv
<1>2. PortTypeOK
  BY DEF PortInv
<1> USE DEF PortInv, FlagKept, CookieProves, ResetClears, SuccessMeansAnswered, WideOnlyIfProven
<1>3. CASE DetectEnd \/ AccessEnd
  BY <1>1, <1>3 DEF DetectEnd, AccessEnd, Checked
<1>4. CASE ProgramSent
  BY <1>1, <1>4 DEF ProgramSent, Begin
<1>5. CASE CookieEnd
  <2>1. CASE wrong \/ master # "hostmot2"
    <3>1. Begin("cookie_again", 5) /\ ~epp_wide'
      BY <1>5, <2>1 DEF CookieEnd
    <3>2. Standing' /\ 5 \in 0 .. 8 + MaxCycles
      BY <1>1, MaxCyclesAssumption DEF PortTypeOK, Standing
    <3> QED BY <3>1, <3>2, BeginInv
  <2>2. CASE ~(wrong \/ master # "hostmot2")
    BY <1>1, <1>5, <2>2 DEF CookieEnd
  <2> QED BY <2>1, <2>2
<1>6. CASE CookieAgainEnd \/ ResetEnd
  BY <1>1, <1>6 DEF CookieAgainEnd, ResetEnd, Checked
<1> QED BY <1>3, <1>4, <1>5, <1>6

LEMMA ClaimInv == ASSUME PortInv, Claim PROVE PortInv'
<1>1. CASE UNCHANGED portVars
  BY <1>1 DEF portVars, PortInv, PortTypeOK, FlagKept, CookieProves, ResetClears,
              SuccessMeansAnswered, WideOnlyIfProven
<1>2. CASE Attach /\ (Begin("reset", 8) \/ Begin("detect", 2))
  <2>0. calls' \in 0 .. MaxCalls
    BY <1>2, MaxCallsAssumption DEF Attach
  <2>1. Standing'
    BY <1>2, <2>0 DEF Standing, Attach
  <2>2. 2 \in 0 .. 8 + MaxCycles /\ 8 \in 0 .. 8 + MaxCycles
    BY MaxCyclesAssumption
  <2>3. CASE Begin("reset", 8)
    BY <2>1, <2>2, <2>3, BeginInv
  <2>4. CASE Begin("detect", 2)
    BY <2>1, <2>2, <2>4, BeginInv
  <2> QED BY <1>2, <2>3, <2>4
<1> QED BY <1>1, <1>2 DEF Claim

LEMMA CallInv == ASSUME PortInv, Detect \/ Core PROVE PortInv'
<1>1. Standing
  BY DEF PortInv, PortTypeOK, Standing
<1>2. ASSUME NEW c \in {"read", "write", "program", "reset"}, NEW n \in Nat, Start(c, n),
             IF c = "reset" THEN n = 8 ELSE n <= 1 + MaxCycles
      PROVE  PortInv'
  <2>1. calls' \in 0 .. MaxCalls
    BY <1>1, <1>2, MaxCallsAssumption DEF Standing, Start
  <2>2. Standing'
    BY <1>1, <1>2, <2>1 DEF Standing, Start
  <2>3. n \in 0 .. 8 + MaxCycles
    BY <1>2, MaxCyclesAssumption
  <2> QED BY <1>2, <2>2, <2>3, BeginInv DEF Start
<1>3. CASE Detect
  <2>1. Standing' /\ 2 \in 0 .. 8 + MaxCycles /\ Begin("detect", 2)
    BY <1>1, <1>3, MaxCyclesAssumption DEF Standing, Detect
  <2> QED BY <2>1, BeginInv
<1>4. CASE Core
  BY <1>2, <1>4, MaxCyclesAssumption DEF Core, CoreCalls, StartProgram
<1> QED BY <1>3, <1>4

LEMMA PortStepInv == PortInv /\ [Next]_vars => PortInv'
<1> SUFFICES ASSUME PortInv, [Next]_vars PROVE PortInv'
  OBVIOUS
<1>1. CASE UNCHANGED portVars
  BY <1>1 DEF portVars, PortInv, PortTypeOK, FlagKept, CookieProves, ResetClears,
              SuccessMeansAnswered, WideOnlyIfProven
<1>2. CASE Claim \/ Detect \/ Core
  BY <1>2, ClaimInv, CallInv
<1>3. CASE Access
  BY <1>3, CycleInv, EndInv DEF Access, Within
<1>4. CASE UserClears
  <2>1. /\ io_error' \in BOOLEAN /\ needs_reset' \in BOOLEAN
        /\ UNCHANGED <<master, timeout, epp_wide, wideWorks, call, left, selected, wrong,
                       missed, ret, calls>>
    BY <1>4 DEF UserClears, Recover
  <2>2. PortTypeOK'
    BY <2>1 DEF PortInv, PortTypeOK
  <2> QED BY <2>1, <2>2 DEF PortInv, FlagKept, CookieProves, ResetClears,
                            SuccessMeansAnswered, WideOnlyIfProven
<1> QED BY <1>1, <1>2, <1>3, <1>4
        DEF Next, vars, Load, SetupDone, Detected, Register, Exit, CleanupBoard, HalExit

LEMMA PortAlways == Spec => []PortInv
<1>1. Init => PortInv
  <2>1. 0 \in 0 .. 8 + MaxCycles /\ 0 \in 0 .. MaxCalls
    BY MaxCyclesAssumption, MaxCallsAssumption
  <2>2. Init => PortTypeOK
    BY <2>1 DEF Init, PortTypeOK
  <2> QED BY <2>2 DEF Init, PortInv, FlagKept, CookieProves, ResetClears,
                      SuccessMeansAnswered, WideOnlyIfProven
<1> QED BY <1>1, PortStepInv, PTL DEF Spec

(***************************************************************************)
(* A read or a write that returns success had every cycle answered.        *)
(***************************************************************************)
THEOREM SuccessMeansAnsweredAlways == Spec => []SuccessMeansAnswered
  BY PortAlways, PortInvHolds, PTL

(***************************************************************************)
(* After program_fpga words are moved by 32-bit cycles only if that was    *)
(* seen to work.                                                           *)
(***************************************************************************)
THEOREM WideOnlyIfProvenAlways == Spec => []WideOnlyIfProven
  BY PortAlways, PortInvHolds, PTL

(***************************************************************************)
(* A reset whose cycles were all answered leaves HostMot2 firmware nowhere.*)
(***************************************************************************)
THEOREM ResetReachesCpldAlways == Spec => []ResetReachesCpld
  BY PortAlways, PortInvHolds, PTL

-----------------------------------------------------------------------------
(***************************************************************************)
(* What setup and cleanup hold.  The registered boards are those below     *)
(* num_boards, in cleanup from i on; beside them the driver has the port of*)
(* the board it is setting up.  So no board is let go that is not held, and*)
(* no two boards have one port.                                            *)
(***************************************************************************)
Driven ==
  {k \in Slots : /\ pc # "unloaded" /\ k < num_boards
                 /\ pc = "cleanup" => i <= k}

SettingUp == pc \in {"setup", "register"}

Held == Driven \cup (IF SettingUp THEN {i} ELSE {})

Ported ==
  /\ \A p \in Ports : owner[p] \in Slots => owner[p] \in Held /\ ioaddr[owner[p]] = p
  /\ \A k \in Held : owner[ioaddr[k]] = k
  /\ ~overdone

Counted ==
  /\ pc \in {"claim", "setup", "register"} => i = num_boards
  /\ SettingUp => i < MaxBoards /\ config[i]
  /\ pc = "cleanup" => i <= num_boards
  /\ pc \in {"claim", "setup", "register", "ready"} => \A k \in Driven : config[k]
  /\ pc = "ready" => num_boards = MaxBoards \/ ~config[num_boards]

BoardsTyped ==
  /\ driver \in {"7i43", "7i90"}
  /\ config \in [Slots -> BOOLEAN] /\ ioaddr \in [Slots -> Ports]
  /\ pc \in {"unloaded", "claim", "setup", "register", "ready", "cleanup"}
  /\ i \in 0 .. MaxBoards /\ num_boards \in 0 .. MaxBoards
  /\ hal \in BOOLEAN /\ overdone \in BOOLEAN
  /\ owner \in [Ports -> Slots \cup {MaxBoards, None}]

BoardsInv ==
  /\ BoardsTyped /\ Counted /\ Ported
  /\ registered = Driven
  /\ pc # "unloaded" => hal

LEMMA BoardsInvHolds == BoardsInv => NothingLeft /\ AllOrNothing
<1> SUFFICES ASSUME BoardsInv PROVE NothingLeft /\ AllOrNothing
  OBVIOUS
<1> USE MaxBoardsAssumption DEF BoardsInv, BoardsTyped, Counted, Ported, Held, SettingUp, Driven, Slots
<1>1. NothingLeft
  BY DEF NothingLeft
<1>2. AllOrNothing
  <2> SUFFICES ASSUME pc = "ready", NEW k \in Slots
               PROVE  /\ k \in registered <=> \A j \in 0 .. k : config[j]
                      /\ k \in registered => owner[ioaddr[k]] = k
    BY DEF AllOrNothing
  <2>1. k \in registered => \A j \in 0 .. k : config[j]
    OBVIOUS
  <2>2. k \notin registered => ~config[num_boards] /\ num_boards \in 0 .. k
    OBVIOUS
  <2>3. k \in registered => owner[ioaddr[k]] = k
    OBVIOUS
  <2> QED BY <2>1, <2>2, <2>3
<1> QED BY <1>1, <1>2

LEMMA BoardsInit == Init => BoardsInv
<1> SUFFICES ASSUME Init PROVE BoardsInv
  OBVIOUS
<1>1. Driven = {} /\ Held = {}
  BY DEF Init, Driven, Held, SettingUp
<1>2. BoardsTyped
  <2>1. 0 \in 0 .. MaxBoards
    BY MaxBoardsAssumption
  <2>2. owner \in [Ports -> Slots \cup {MaxBoards, None}]
    BY DEF Init
  <2>3. /\ driver \in {"7i43", "7i90"}
        /\ config \in [Slots -> BOOLEAN] /\ ioaddr \in [Slots -> Ports]
    BY DEF Init
  <2> QED BY <2>1, <2>2, <2>3 DEF Init, BoardsTyped
<1>3. \A p \in Ports : owner[p] \notin Slots
  BY MaxBoardsAssumption, NoneAssumption DEF Init, Slots
<1> QED BY <1>1, <1>2, <1>3 DEF Init, BoardsInv, Ported, Counted, SettingUp

LEMMA ClaimBoards == ASSUME BoardsInv, Claim PROVE BoardsInv'
<1> USE MaxBoardsAssumption, NoneAssumption
    DEF BoardsInv, BoardsTyped, Counted, SettingUp, Driven, Slots, given, Claim
<1>1. CASE owner[ioaddr[i]] = None
  <2>1. /\ owner' = [owner EXCEPT ![ioaddr[i]] = i] /\ pc' = "setup" /\ pc = "claim"
        /\ i \in Slots /\ ioaddr[i] \in Ports /\ i' = i /\ i = num_boards
        /\ UNCHANGED <<given, num_boards, hal, registered, overdone>>
    BY <1>1
  <2>2. Driven' = Driven /\ Held = Driven /\ Held' = Held \cup {i}
    BY <2>1 DEF Held
  <2>3. Ported'
    BY <2>1, <2>2 DEF Ported
  <2>4. BoardsTyped' /\ Counted'
    BY <1>1, <2>1
  <2> QED BY <2>1, <2>2, <2>3, <2>4
<1>2. CASE owner[ioaddr[i]] # None
  <2>1. /\ pc' = "cleanup" /\ i' = 0
        /\ UNCHANGED <<given, num_boards, hal, registered, overdone, owner>>
    BY <1>2
  <2>2. Driven' = Driven /\ Held' = Held
    BY <2>1 DEF Held
  <2> QED BY <2>1, <2>2 DEF Ported
<1> QED BY <1>1, <1>2

LEMMA ReleaseInv ==
  ASSUME BoardsInv, NEW k \in Held, Release(k), UNCHANGED <<config, ioaddr>>,
         Held' = Held \ {k}
  PROVE  Ported' /\ owner' \in [Ports -> Slots \cup {MaxBoards, None}]
<1>1. k \in Slots /\ ioaddr[k] \in Ports
  <2>1. k \in Driven => k \in Slots
    BY DEF Driven
  <2>2. SettingUp /\ k = i => k \in Slots
    BY MaxBoardsAssumption DEF BoardsInv, BoardsTyped, Counted, Slots
  <2>3. k \in Slots
    BY <2>1, <2>2 DEF Held
  <2> QED BY <2>3 DEF BoardsInv, BoardsTyped
<1>2. /\ owner' = [owner EXCEPT ![ioaddr[k]] = None]
      /\ owner \in [Ports -> Slots \cup {MaxBoards, None}]
      /\ None \notin Slots
  BY NoneAssumption, MaxBoardsAssumption DEF Release, BoardsInv, BoardsTyped, Slots
<1>3. ~overdone'
  BY DEF Release, BoardsInv, Ported
<1>4. ASSUME NEW p \in Ports, owner'[p] \in Slots
      PROVE  owner'[p] \in Held' /\ ioaddr[owner'[p]] = p
  BY <1>1, <1>2, <1>4 DEF BoardsInv, Ported
<1>5. ASSUME NEW j \in Held' PROVE owner'[ioaddr[j]] = j
  <2>1. j \in Held /\ j # k
    BY <1>5
  <2>2. owner[ioaddr[j]] = j /\ owner[ioaddr[k]] = k
    BY <2>1 DEF BoardsInv, Ported
  <2> QED BY <1>2, <2>1, <2>2
<1> QED BY <1>1, <1>2, <1>3, <1>4, <1>5 DEF Ported

LEMMA RegisterBoards == ASSUME BoardsInv, Register PROVE BoardsInv'
<1> USE MaxBoardsAssumption
    DEF BoardsInv, BoardsTyped, Counted, SettingUp, Driven, Slots, given, Register
<1>1. CASE pc' = "claim"
  <2>1. /\ pc = "register" /\ i = num_boards /\ i \in Slots
        /\ registered' = registered \cup {i} /\ num_boards' = num_boards + 1 /\ i' = i + 1
        /\ UNCHANGED <<owner, overdone, given, hal>>
    BY <1>1
  <2>2. Driven' = Driven \cup {i} /\ Held' = Held
    BY <1>1, <2>1 DEF Held
  <2>3. Ported'
    BY <2>1, <2>2 DEF Ported
  <2>4. BoardsTyped'
    BY <1>1, <2>1
  <2>5. Counted'
    BY <1>1, <2>1, <2>2
  <2> QED BY <1>1, <2>1, <2>2, <2>3, <2>4, <2>5
<1>2. CASE pc' = "cleanup"
  <2>1. /\ pc = "register" /\ i = num_boards /\ i \in Slots /\ i' = 0 /\ Release(i)
        /\ UNCHANGED <<registered, num_boards, given, hal>>
    BY <1>2
  <2>2. Driven' = Driven /\ Held' = Held \ {i} /\ i \in Held
    BY <1>2, <2>1 DEF Held
  <2>3. Ported' /\ owner' \in [Ports -> Slots \cup {MaxBoards, None}]
    BY <2>1, <2>2, ReleaseInv
  <2>4. registered' = Driven' /\ hal' /\ num_boards \in 0 .. MaxBoards
    BY <2>1, <2>2
  <2> HIDE DEF BoardsInv, Driven, Slots, Register
  <2>5. Counted'
    BY <1>2, <2>1, <2>4
  <2>6. BoardsTyped'
    BY <1>2, <2>1, <2>3 DEF BoardsInv, Release
  <2> HIDE DEF BoardsTyped, Counted, SettingUp
  <2> QED BY <1>2, <2>3, <2>4, <2>5, <2>6 DEF BoardsInv
<1> QED BY <1>1, <1>2

LEMMA CleanupBoards == ASSUME BoardsInv, CleanupBoard PROVE BoardsInv'
<1> USE MaxBoardsAssumption
    DEF BoardsInv, BoardsTyped, Counted, SettingUp, Driven, Slots, given, CleanupBoard
<1>1. /\ pc = "cleanup" /\ pc' = "cleanup" /\ i \in Slots /\ i' = i + 1 /\ i < num_boards
      /\ registered' = registered \ {i} /\ Release(i)
      /\ UNCHANGED <<num_boards, given, hal>>
  OBVIOUS
<1>2. Driven' = Driven \ {i} /\ Held' = Held \ {i} /\ i \in Held
  BY <1>1 DEF Held
<1>3. Ported' /\ owner' \in [Ports -> Slots \cup {MaxBoards, None}]
  BY <1>1, <1>2, ReleaseInv
<1>4. registered' = Driven' /\ hal' /\ num_boards \in 0 .. MaxBoards /\ i' \in 0 .. MaxBoards
      /\ i' <= num_boards'
  BY <1>1, <1>2
<1> HIDE DEF BoardsInv, Driven, Slots, CleanupBoard
<1>5. Counted'
  BY <1>1, <1>4, <1>2
<1>6. BoardsTyped'
  BY <1>1, <1>3, <1>4 DEF BoardsInv, Release
<1> HIDE DEF BoardsTyped, Counted, SettingUp
<1> QED BY <1>1, <1>3, <1>4, <1>5, <1>6 DEF BoardsInv

LEMMA BoardsStepInv == BoardsInv /\ [Next]_vars => BoardsInv'
<1> SUFFICES ASSUME BoardsInv, [Next]_vars PROVE BoardsInv'
  OBVIOUS
<1> USE MaxBoardsAssumption
<1>1. CASE Claim \/ Register \/ CleanupBoard
  BY <1>1, ClaimBoards, RegisterBoards, CleanupBoards
<1> USE DEF BoardsInv, BoardsTyped, Counted, SettingUp, Driven, Slots, given, Ported, Held
<1>2. CASE Load
  BY <1>2 DEF Load
<1>3. CASE SetupDone
  BY <1>3 DEF SetupDone
<1>4. CASE Detected
  BY <1>4 DEF Detected
<1>5. CASE Exit
  BY <1>5 DEF Exit
<1>6. CASE HalExit
  <2>1. /\ pc = "cleanup" /\ pc' = "unloaded" /\ i = num_boards /\ hal' = FALSE
        /\ UNCHANGED <<i, num_boards, config, ioaddr, driver, owner, registered, overdone>>
    BY <1>6 DEF HalExit
  <2>2. Held = {} /\ Held' = {} /\ Driven = {} /\ Driven' = {}
    BY <2>1
  <2> QED BY <2>1, <2>2
<1>7. CASE UNCHANGED <<given, pc, i, num_boards, hal, owner, registered, overdone>>
  BY <1>7
<1> QED BY <1>1, <1>2, <1>3, <1>4, <1>5, <1>6, <1>7
        DEF Next, vars, Detect, Core, Access, UserClears

LEMMA BoardsAlways == Spec => []BoardsInv
  BY BoardsInit, BoardsStepInv, PTL DEF Spec

(***************************************************************************)
(* Every board is let go exactly once, whatever fails, and no port of      *)
(* another driver is; an unloaded driver holds nothing.                    *)
(***************************************************************************)
THEOREM NothingLeftAlways == Spec => []NothingLeft
  BY BoardsAlways, BoardsInvHolds, PTL

(***************************************************************************)
(* A driver that is ready drives the configured boards up to the first gap,*)
(* each on its own port, and no other.                                     *)
(***************************************************************************)
THEOREM AllOrNothingAlways == Spec => []AllOrNothing
  BY BoardsAlways, BoardsInvHolds, PTL

-----------------------------------------------------------------------------
(***************************************************************************)
(* Induction over the naturals for a set.                                  *)
(***************************************************************************)
LEMMA SetInduction ==
  ASSUME NEW T, 0 \in T, \A n \in Nat : n \in T => n + 1 \in T
  PROVE  Nat \subseteq T
<1> DEFINE R == {ss \in Nat \X Nat : ss[1] < ss[2]}
           Rest == {n \in Nat : n \notin T}
<1>1. IsWellFoundedOn(R, Nat)
  BY NatLessThanWellFounded DEF OpToRel
<1>2. SUFFICES ASSUME Rest # {} PROVE FALSE
  OBVIOUS
<1> HIDE DEF R, Rest
<1>3. Rest \subseteq Nat
  BY DEF Rest
<1>4. PICK x \in Rest : \A y \in Rest : <<y, x>> \notin R
  BY <1>1, <1>2, <1>3, WFMin
<1>5. x # 0 /\ x \in Nat /\ x - 1 \in Nat /\ x = (x - 1) + 1
  BY <1>4 DEF Rest
<1>6. x - 1 \in T
  <2>1. <<x - 1, x>> \in R
    BY <1>5 DEF R
  <2> QED BY <2>1, <1>4, <1>5 DEF Rest
<1> QED BY <1>4, <1>5, <1>6 DEF Rest

(***************************************************************************)
(* Doing something N times: the values on the way exist and are the only   *)
(* ones.                                                                   *)
(***************************************************************************)
IsRun(f, n, base, next) ==
  f[0] = base /\ \A k \in 1 .. n : f[k] = next[k][f[k - 1]]

LEMMA RunExists ==
  ASSUME NEW N \in Nat, NEW V, NEW base \in V, NEW next \in [1 .. N -> [V -> V]]
  PROVE  \E f \in [0 .. N -> V] : IsRun(f, N, base, next)
<1> DEFINE T == {n \in Nat : n <= N => \E f \in [0 .. n -> V] : IsRun(f, n, base, next)}
<1>1. 0 \in T
  <2> DEFINE f == [k \in 0 .. 0 |-> base]
  <2>1. f \in [0 .. 0 -> V] /\ IsRun(f, 0, base, next)
    BY DEF IsRun
  <2> QED BY <2>1
<1>2. ASSUME NEW n \in Nat, n \in T PROVE n + 1 \in T
  <2> SUFFICES ASSUME n + 1 <= N
               PROVE  \E f \in [0 .. n + 1 -> V] : IsRun(f, n + 1, base, next)
    OBVIOUS
  <2>1. PICK f \in [0 .. n -> V] : IsRun(f, n, base, next)
    BY <1>2
  <2> DEFINE g == [k \in 0 .. n + 1 |-> IF k = n + 1 THEN next[n + 1][f[n]] ELSE f[k]]
  <2>2. next[n + 1][f[n]] \in V
    <3>1. n + 1 \in 1 .. N /\ n \in 0 .. n
      OBVIOUS
    <3> QED BY <2>1, <3>1
  <2>3. g \in [0 .. n + 1 -> V]
    BY <2>1, <2>2
  <2>4. g[0] = base
    BY <2>1 DEF IsRun
  <2>5. ASSUME NEW k \in 1 .. n + 1 PROVE g[k] = next[k][g[k - 1]]
    BY <2>1, <2>5 DEF IsRun
  <2> HIDE DEF g
  <2> QED BY <2>3, <2>4, <2>5 DEF IsRun
<1> HIDE DEF T
<1>3. N \in T
  BY <1>1, <1>2, SetInduction
<1> QED BY <1>3 DEF T

LEMMA RunUnique ==
  ASSUME NEW N \in Nat, NEW base, NEW next, NEW f, NEW g,
         IsRun(f, N, base, next), IsRun(g, N, base, next)
  PROVE  \A k \in 0 .. N : f[k] = g[k]
<1> DEFINE T == {n \in Nat : n <= N => f[n] = g[n]}
<1>1. 0 \in T
  BY DEF IsRun
<1>2. ASSUME NEW n \in Nat, n \in T PROVE n + 1 \in T
  <2> SUFFICES ASSUME n + 1 <= N PROVE f[n + 1] = g[n + 1]
    OBVIOUS
  <2>1. PICK m \in 1 .. N : m = n + 1 /\ m - 1 = n
    OBVIOUS
  <2> QED BY <1>2, <2>1 DEF IsRun
<1> HIDE DEF T
<1>3. Nat \subseteq T
  BY <1>1, <1>2, SetInduction
<1> QED BY <1>3 DEF T

-----------------------------------------------------------------------------
(***************************************************************************)
(* The board executes the writes of a packet one after the other.          *)
(***************************************************************************)
Memory == [Eth!Regs -> Vals]

LEMMA PutTyped == ASSUME NEW r \in Memory, NEW w \in Eth!Writes PROVE Eth!Put(r, w) \in Memory
BY DEF Memory, Eth!Put, Eth!Writes

Executes(f, r, ws) ==
  /\ f \in [0 .. Len(ws) -> Memory]
  /\ f[0] = r /\ \A k \in 1 .. Len(ws) : f[k] = Eth!Put(f[k - 1], ws[k])

LEMMA PutAllRun ==
  ASSUME NEW r \in Memory, NEW ws \in Seq(Eth!Writes)
  PROVE  \E f : Executes(f, r, ws) /\ Eth!PutAll(r, ws) = f[Len(ws)]
<1> DEFINE N == Len(ws)
           next == [k \in 1 .. N |-> [m \in Memory |-> Eth!Put(m, ws[k])]]
<1>0. N \in Nat
  OBVIOUS
<1>1. next \in [1 .. N -> [Memory -> Memory]]
  BY PutTyped
<1> HIDE DEF N
<1>2. PICK f : f \in [0 .. N -> Memory] /\ IsRun(f, N, r, next)
  <2> HIDE DEF next
  <2> QED BY <1>0, <1>1, RunExists
<1>3. \A k \in 1 .. N : f[k] = Eth!Put(f[k - 1], ws[k])
  BY <1>0, <1>2 DEF IsRun
<1> DEFINE Solves(g) == g = [k \in 0 .. N |-> IF k = 0 THEN r ELSE Eth!Put(g[k - 1], ws[k])]
<1>4. Solves(f)
  BY <1>0, <1>2, <1>3 DEF IsRun
<1>5. ASSUME NEW g, Solves(g) PROVE g = f
  <2>1. g \in [0 .. N -> Memory]
    <3> DEFINE T == {n \in Nat : n <= N => g[n] \in Memory}
    <3>1. 0 \in T
      BY <1>0, <1>5
    <3>2. ASSUME NEW n \in Nat, n \in T PROVE n + 1 \in T
      <4> SUFFICES ASSUME n + 1 <= N PROVE g[n + 1] \in Memory
        OBVIOUS
      <4>1. PICK m \in 1 .. N : m = n + 1 /\ m - 1 = n
        BY <1>0
      <4>2. g[m] = Eth!Put(g[m - 1], ws[m]) /\ g[m - 1] \in Memory
        BY <1>0, <1>5, <3>2, <4>1
      <4>3. ws[m] \in Eth!Writes
        BY DEF N
      <4> QED BY <4>1, <4>2, <4>3, PutTyped
    <3> HIDE DEF T
    <3>3. Nat \subseteq T
      BY <3>1, <3>2, SetInduction
    <3>4. \A n \in 0 .. N : g[n] \in Memory
      BY <1>0, <3>3 DEF T
    <3> QED BY <1>5, <3>4
  <2>2. IsRun(g, N, r, next)
    BY <1>0, <1>5, <2>1 DEF IsRun
  <2>3. \A k \in 0 .. N : f[k] = g[k]
    <3> HIDE DEF next, Solves
    <3> QED BY <1>0, <1>2, <2>2, RunUnique
  <2> HIDE DEF next, Solves
  <2>4. f = [k \in 0 .. N |-> f[k]]
    BY <1>2
  <2>5. g = [k \in 0 .. N |-> g[k]]
    BY <2>1
  <2> QED BY <2>3, <2>4, <2>5
<1>6. Eth!PutAll(r, ws) = f[N]
  <2> HIDE DEF next
  <2> QED BY <1>4, <1>5 DEF Eth!PutAll, N
<1> QED BY <1>2, <1>3, <1>6 DEF N, IsRun, Executes

\* Any run of the writes ends where PutAll ends.
LEMMA PutAllIs ==
  ASSUME NEW r \in Memory, NEW ws \in Seq(Eth!Writes), NEW f,
         f[0] = r, \A k \in 1 .. Len(ws) : f[k] = Eth!Put(f[k - 1], ws[k])
  PROVE  f[Len(ws)] = Eth!PutAll(r, ws)
<1>1. PICK g : Executes(g, r, ws) /\ Eth!PutAll(r, ws) = g[Len(ws)]
  BY PutAllRun
<1> DEFINE T == {n \in Nat : n <= Len(ws) => f[n] = g[n]}
<1>2. 0 \in T
  BY <1>1 DEF Executes
<1>3. ASSUME NEW n \in Nat, n \in T PROVE n + 1 \in T
  <2> SUFFICES ASSUME n + 1 <= Len(ws) PROVE f[n + 1] = g[n + 1]
    OBVIOUS
  <2>1. PICK m \in 1 .. Len(ws) : m = n + 1 /\ m - 1 = n
    OBVIOUS
  <2> QED BY <1>1, <1>3, <2>1 DEF Executes
<1> HIDE DEF T
<1>4. Len(ws) \in T
  <2>1. Len(ws) \in Nat
    OBVIOUS
  <2> QED BY <1>2, <1>3, <2>1, SetInduction
<1> QED BY <1>1, <1>4 DEF T

LEMMA PutAllTyped ==
  ASSUME NEW r \in Memory, NEW ws \in Seq(Eth!Writes)
  PROVE  Eth!PutAll(r, ws) \in Memory
<1>1. PICK f : Executes(f, r, ws) /\ Eth!PutAll(r, ws) = f[Len(ws)]
  BY PutAllRun
<1>2. Len(ws) \in 0 .. Len(ws)
  OBVIOUS
<1> QED BY <1>1, <1>2 DEF Executes

LEMMA PutNone == ASSUME NEW r \in Memory PROVE Eth!PutAll(r, <<>>) = r
<1>1. PICK u : u = <<>> /\ u \in Seq(Eth!Writes) /\ Len(u) = 0
  <2>1. <<>> \in Seq(Eth!Writes) /\ Len(<<>>) = 0
    OBVIOUS
  <2> QED BY <2>1
<1>2. PICK f : Executes(f, r, u) /\ Eth!PutAll(r, u) = f[Len(u)]
  BY <1>1, PutAllRun
<1> QED BY <1>1, <1>2 DEF Executes

LEMMA PutOneMore ==
  ASSUME NEW r \in Memory, NEW ws \in Seq(Eth!Writes), NEW w \in Eth!Writes
  PROVE  Eth!PutAll(r, Append(ws, w)) = Eth!Put(Eth!PutAll(r, ws), w)
<1>1. PICK v : v = Append(ws, w) /\ v \in Seq(Eth!Writes)
  <2>1. Append(ws, w) \in Seq(Eth!Writes)
    OBVIOUS
  <2> QED BY <2>1
<1>2. PICK n \in Nat : n = Len(ws)
  OBVIOUS
<1>3. Len(v) = n + 1 /\ v[n + 1] = w /\ \A k \in 1 .. n : v[k] = ws[k]
  BY <1>1, <1>2
<1>4. PICK f : Executes(f, r, v) /\ Eth!PutAll(r, v) = f[Len(v)]
  BY <1>1, PutAllRun
<1>5. \A k \in 1 .. Len(ws) : f[k] = Eth!Put(f[k - 1], ws[k])
  BY <1>2, <1>3, <1>4 DEF Executes
<1>6. f[n] = Eth!PutAll(r, ws)
  <2>1. f[0] = r
    BY <1>4 DEF Executes
  <2> QED BY <1>2, <1>5, <2>1, PutAllIs
<1>7. PICK m \in 1 .. Len(v) : m = n + 1 /\ m - 1 = n
  BY <1>3
<1>8. f[m] = Eth!Put(f[n], v[m])
  BY <1>4, <1>7 DEF Executes
<1> QED BY <1>1, <1>3, <1>4, <1>6, <1>7, <1>8

LEMMA PutOne ==
  ASSUME NEW r \in Memory, NEW w \in Eth!Writes
  PROVE  Eth!PutAll(r, <<w>>) = Eth!Put(r, w)
<1>1. <<>> \in Seq(Eth!Writes) /\ Append(<<>>, w) = <<w>>
  OBVIOUS
<1> QED BY <1>1, PutNone, PutOneMore

-----------------------------------------------------------------------------
(***************************************************************************)
(* The words of an answer: each read's own are where its offset says, if   *)
(* the offsets follow each other.                                          *)
(***************************************************************************)
Joins(f, ss) ==
  /\ f \in [0 .. Len(ss) -> Seq(Vals)]
  /\ f[0] = <<>> /\ \A k \in 1 .. Len(ss) : f[k] = f[k - 1] \o ss[k]

LEMMA FlattenRun ==
  ASSUME NEW ss \in Seq(Seq(Vals)), Len(ss) # 0
  PROVE  \E f : Joins(f, ss) /\ Eth!FlattenSeq(ss) = f[Len(ss)]
<1> DEFINE N == Len(ss)
           V == Seq(Vals)
           next == [k \in 1 .. N |-> [m \in V |-> m \o ss[k]]]
<1>0. N \in Nat /\ N # 0
  OBVIOUS
<1>1. next \in [1 .. N -> [V -> V]] /\ <<>> \in V
  <2>1. \A k \in 1 .. N : ss[k] \in V
    OBVIOUS
  <2>2. \A k \in 1 .. N, m \in V : m \o ss[k] \in V
    BY <2>1
  <2> HIDE DEF V, N
  <2>3. next \in [1 .. N -> [V -> V]]
    BY <2>2
  <2> QED BY <2>3 DEF V
<1> HIDE DEF N
<1>2. PICK f : f \in [0 .. N -> V] /\ IsRun(f, N, <<>>, next)
  <2> HIDE DEF next, V
  <2> QED BY <1>0, <1>1, RunExists
<1>3. f[0] = <<>> /\ \A k \in 1 .. N : f[k] = f[k - 1] \o ss[k]
  <2> HIDE DEF V
  <2>1. ASSUME NEW k \in 1 .. N PROVE f[k] = f[k - 1] \o ss[k]
    <3>1. f[k - 1] \in V
      BY <1>0, <1>2
    <3>2. f[k] = next[k][f[k - 1]]
      <4> HIDE DEF next
      <4> QED BY <1>2 DEF IsRun
    <3> QED BY <3>1, <3>2
  <2> QED BY <1>2, <2>1 DEF IsRun
<1>4. \A k \in 1 .. N : ss[k] \in V
  BY DEF N
<1> DEFINE Solves(g) == g = [j \in 1 .. N |-> IF j = 1 THEN ss[j] ELSE g[j - 1] \o ss[j]]
           h == [j \in 1 .. N |-> f[j]]
<1>5. f[1] = ss[1]
  <2>1. PICK k \in 1 .. N : k = 1 /\ k - 1 = 0
    BY <1>0
  <2>2. ss[k] \in Seq(Vals) /\ f[k] = <<>> \o ss[k]
    BY <1>3, <1>4, <2>1
  <2> QED BY <2>1, <2>2
<1> HIDE DEF V, next
<1>6. Solves(h)
  <2>1. ASSUME NEW j \in 1 .. N PROVE h[j] = IF j = 1 THEN ss[j] ELSE h[j - 1] \o ss[j]
    <3>1. CASE j = 1
      BY <1>5, <3>1
    <3>2. CASE j # 1
      <4>1. j - 1 \in 1 .. N
        BY <1>0, <3>2
      <4> QED BY <1>3, <3>2, <4>1
    <3> QED BY <3>1, <3>2
  <2> QED BY <2>1
<1>7. ASSUME NEW g, Solves(g) PROVE g = h
  <2> DEFINE T == {n \in Nat : n + 1 <= N => g[n + 1] = f[n + 1]}
  <2>1. ASSUME NEW k \in 1 .. N PROVE g[k] = IF k = 1 THEN ss[k] ELSE g[k - 1] \o ss[k]
    BY <1>7
  <2>2. 0 \in T
    BY <1>0, <1>5, <2>1
  <2>3. ASSUME NEW n \in Nat, n \in T PROVE n + 1 \in T
    <3> SUFFICES ASSUME n + 1 + 1 <= N PROVE g[n + 1 + 1] = f[n + 1 + 1]
      OBVIOUS
    <3>1. PICK l \in 1 .. N : l = n + 1
      BY <1>0
    <3>2. PICK m \in 1 .. N : m = l + 1 /\ m - 1 = l /\ m # 1
      BY <1>0, <3>1
    <3>3. g[l] = f[l]
      BY <1>0, <2>3, <3>1
    <3>4. g[m] = g[l] \o ss[m]
      BY <2>1, <3>2
    <3>5. f[m] = f[l] \o ss[m]
      BY <1>3, <3>2
    <3> QED BY <3>1, <3>2, <3>3, <3>4, <3>5
  <2> HIDE DEF T
  <2>4. Nat \subseteq T
    BY <2>2, <2>3, SetInduction
  <2>5. \A j \in 1 .. N : g[j] = f[j]
    <3> SUFFICES ASSUME NEW j \in 1 .. N PROVE g[j] = f[j]
      OBVIOUS
    <3>1. PICK n \in Nat : j = n + 1
      <4>1. j - 1 \in Nat /\ j = (j - 1) + 1
        BY <1>0
      <4> QED BY <4>1
    <3>2. n \in T /\ n + 1 <= N
      BY <1>0, <2>4, <3>1
    <3> QED BY <3>1, <3>2 DEF T
  <2>6. g = [j \in 1 .. N |-> g[j]]
    BY <1>7
  <2> HIDE DEF Solves
  <2> QED BY <2>5, <2>6
<1>8. Eth!FlattenSeq(ss) = h[N]
  <2> HIDE DEF h
  <2> QED BY <1>0, <1>6, <1>7 DEF Eth!FlattenSeq, N
<1>9. h[N] = f[N]
  BY <1>0
<1> QED BY <1>2, <1>3, <1>8, <1>9 DEF N, V, Joins

Cmd == {c \in [addr : Eth!Regs, size : 1 .. Words, from : Nat] : c.addr + c.size <= Words}

\* Each read's data begin where those of the one before end; n words in all.
Follows(cmds, n) ==
  /\ cmds = <<>> => n = 0
  /\ cmds # <<>> => cmds[1].from = 0 /\ n = cmds[Len(cmds)].from + cmds[Len(cmds)].size
  /\ \A k \in 1 .. Len(cmds) - 1 : cmds[k + 1].from = cmds[k].from + cmds[k].size

Parts(r, cmds) == [k \in 1 .. Len(cmds) |-> Eth!Fetch(r, cmds[k])]
Reply(r, cmds) == Eth!FlattenSeq(Parts(r, cmds))

LEMMA FetchTyped ==
  ASSUME NEW r \in Memory, NEW c \in Cmd
  PROVE  /\ Eth!Fetch(r, c) \in Seq(Vals) /\ Len(Eth!Fetch(r, c)) = c.size
         /\ c.size \in Nat /\ c.size # 0 /\ c.from \in Nat
<1>1. c.addr \in 0 .. Words - 1 /\ c.size \in 1 .. Words /\ c.from \in Nat /\ c.addr + c.size <= Words
  BY DEF Cmd, Eth!Regs
<1>2. \A k \in 1 .. c.size : c.addr + k - 1 \in 0 .. Words - 1
  BY <1>1, WordsAssumption
<1>3. Eth!Fetch(r, c) \in [1 .. c.size -> Vals]
  BY <1>2 DEF Eth!Fetch, Memory, Eth!Regs
<1>4. c.size \in Nat /\ c.size # 0
  BY <1>1, WordsAssumption
<1> QED BY <1>1, <1>3, <1>4

LEMMA PartsTyped ==
  ASSUME NEW r \in Memory, NEW cmds \in Seq(Cmd)
  PROVE  /\ Parts(r, cmds) \in Seq(Seq(Vals)) /\ Len(Parts(r, cmds)) = Len(cmds)
         /\ \A k \in 1 .. Len(cmds) :
              /\ Parts(r, cmds)[k] = Eth!Fetch(r, cmds[k]) /\ Parts(r, cmds)[k] \in Seq(Vals)
              /\ Len(Parts(r, cmds)[k]) = cmds[k].size
              /\ cmds[k].size \in Nat /\ cmds[k].size # 0 /\ cmds[k].from \in Nat
<1>1. PICK n \in Nat : n = Len(cmds)
  OBVIOUS
<1>2. \A k \in 1 .. n : cmds[k] \in Cmd
  BY <1>1
<1>3. \A k \in 1 .. n :
        /\ Eth!Fetch(r, cmds[k]) \in Seq(Vals) /\ Len(Eth!Fetch(r, cmds[k])) = cmds[k].size
        /\ cmds[k].size \in Nat /\ cmds[k].size # 0 /\ cmds[k].from \in Nat
  BY <1>2, FetchTyped
<1>4. Parts(r, cmds) = [k \in 1 .. n |-> Eth!Fetch(r, cmds[k])]
  BY <1>1 DEF Parts
<1>5. Parts(r, cmds) \in [1 .. n -> Seq(Vals)]
  BY <1>3, <1>4
<1>6. Parts(r, cmds) \in Seq(Seq(Vals)) /\ Len(Parts(r, cmds)) = n
  BY <1>5
<1> QED BY <1>1, <1>3, <1>4, <1>6

\* Up to read k, the words put together so far are where the offsets say.
Placed(f, ss, cmds, k) ==
  /\ Len(f[k]) = cmds[k].from + cmds[k].size
  /\ \A j \in 1 .. k : \A e \in 1 .. cmds[j].size :
       /\ cmds[j].from + e \in 1 .. Len(f[k])
       /\ f[k][cmds[j].from + e] = ss[j][e]

LEMMA Joined ==
  ASSUME NEW a \in Seq(Vals), NEW b \in Seq(Vals), NEW c, c = a \o b
  PROVE  /\ Len(a) \in Nat /\ Len(b) \in Nat /\ Len(c) = Len(a) + Len(b)
         /\ \A e \in 1 .. Len(a) : c[e] = a[e]
         /\ \A e \in 1 .. Len(b) : c[Len(a) + e] = b[e]
OBVIOUS

LEMMA PlacedAll ==
  ASSUME NEW r \in Memory, NEW cmds \in Seq(Cmd), cmds # <<>>, NEW n, Follows(cmds, n),
         NEW f, Joins(f, Parts(r, cmds))
  PROVE  Placed(f, Parts(r, cmds), cmds, Len(cmds))
<1>1. PICK N \in Nat : N = Len(cmds) /\ N # 0
  OBVIOUS
<1>2. PICK ss : ss = Parts(r, cmds)
  OBVIOUS
<1>3. \A k \in 1 .. N : /\ ss[k] \in Seq(Vals) /\ Len(ss[k]) = cmds[k].size
                        /\ cmds[k].size \in Nat /\ cmds[k].size # 0 /\ cmds[k].from \in Nat
  BY <1>1, <1>2, PartsTyped
<1>4. /\ f[0] = <<>> /\ \A k \in 1 .. N : f[k] = f[k - 1] \o ss[k]
      /\ \A k \in 0 .. N : f[k] \in Seq(Vals)
  BY <1>1, <1>2, PartsTyped DEF Joins
<1>5. cmds[1].from = 0 /\ \A k \in 1 .. N - 1 : cmds[k + 1].from = cmds[k].from + cmds[k].size
  BY <1>1 DEF Follows
<1> DEFINE T == {m \in Nat : m + 1 <= N => Placed(f, ss, cmds, m + 1)}
<1>6. 0 \in T
  <2>1. PICK l \in 1 .. N : l = 1 /\ l - 1 = 0
    BY <1>1
  <2>2. f[l] = <<>> \o ss[l] /\ ss[l] \in Seq(Vals)
    BY <1>3, <1>4, <2>1
  <2>3. f[1] = ss[1]
    BY <2>1, <2>2
  <2>4. Placed(f, ss, cmds, 1)
    BY <1>3, <1>5, <2>1, <2>3 DEF Placed
  <2> QED BY <2>4
<1>7. ASSUME NEW m \in Nat, m \in T PROVE m + 1 \in T
  <2> SUFFICES ASSUME m + 1 + 1 <= N PROVE Placed(f, ss, cmds, m + 1 + 1)
    OBVIOUS
  <2>1. PICK l \in 1 .. N - 1 : l = m + 1
    BY <1>1
  <2>2. PICK q \in 1 .. N : q = l + 1 /\ q - 1 = l
    BY <1>1, <2>1
  <2>3. Placed(f, ss, cmds, l)
    BY <1>1, <1>7, <2>1
  <2>4. cmds[q].from = Len(f[l]) /\ cmds[q].size = Len(ss[q])
    BY <1>3, <1>5, <2>1, <2>2, <2>3 DEF Placed
  <2>5. f[q] = f[l] \o ss[q] /\ f[l] \in Seq(Vals) /\ ss[q] \in Seq(Vals)
    <3>1. f[q] = f[q - 1] \o ss[q] /\ ss[q] \in Seq(Vals)
      BY <1>3, <1>4
    <3>2. l \in 0 .. N
      BY <1>1
    <3> QED BY <1>4, <2>2, <3>1, <3>2
  <2>6. PICK a \in Seq(Vals), b \in Seq(Vals), c \in {f[q]} : a = f[l] /\ b = ss[q] /\ c = f[q] /\ c = a \o b
    BY <2>5
  <2>7. PICK u \in Nat, v \in Nat :
          /\ u = Len(a) /\ v = Len(b) /\ Len(c) = u + v
          /\ \A e \in 1 .. u : c[e] = a[e]
          /\ \A e \in 1 .. v : c[u + e] = b[e]
    <3>1. /\ Len(a) \in Nat /\ Len(b) \in Nat /\ Len(c) = Len(a) + Len(b)
          /\ \A e \in 1 .. Len(a) : c[e] = a[e]
          /\ \A e \in 1 .. Len(b) : c[Len(a) + e] = b[e]
      <4>1. c = a \o b
        BY <2>6
      <4> QED BY <4>1, Joined
    <3> QED BY <3>1
  <2>9. ASSUME NEW j \in 1 .. q, NEW e \in 1 .. cmds[j].size
        PROVE  /\ cmds[j].from + e \in 1 .. Len(c)
               /\ c[cmds[j].from + e] = ss[j][e]
    <3>1. CASE j = q
      <4>1. e \in 1 .. v /\ cmds[j].from = u
        BY <2>4, <2>6, <2>7, <3>1
      <4>2. u + e \in 1 .. u + v
        BY <4>1
      <4> QED BY <2>6, <2>7, <3>1, <4>1, <4>2
    <3>2. CASE j # q
      <4>1. j \in 1 .. l
        BY <2>2, <3>2
      <4>2. PICK x : x = cmds[j].from + e
        OBVIOUS
      <4>3. x \in 1 .. u /\ a[x] = ss[j][e]
        BY <2>3, <2>6, <2>7, <4>1, <4>2 DEF Placed
      <4>4. x \in 1 .. u + v
        BY <4>3
      <4> QED BY <2>7, <4>2, <4>3, <4>4
    <3> QED BY <3>1, <3>2
  <2>8. Placed(f, ss, cmds, q)
    BY ZenonT(30), <2>4, <2>6, <2>7, <2>9 DEF Placed
  <2> QED BY <2>1, <2>2, <2>8
<1> HIDE DEF T
<1>8. N - 1 \in T
  <2>1. Nat \subseteq T
    BY <1>6, <1>7, SetInduction
  <2> QED BY <1>1, <2>1
<1>9. N - 1 + 1 = N
  BY <1>1
<1> QED BY <1>1, <1>2, <1>8, <1>9 DEF T

(***************************************************************************)
(* An answer that fits the commands is cut up into what they named.        *)
(***************************************************************************)
LEMMA CutUp ==
  ASSUME NEW r \in Memory, NEW cmds \in Seq(Cmd), cmds # <<>>, NEW n, Follows(cmds, n)
  PROVE  Eth!Scatter(cmds, Eth!Received(Reply(r, cmds), n)) = Parts(r, cmds)
<1>1. PICK N \in Nat : N = Len(cmds) /\ N # 0
  OBVIOUS
<1>2. PICK ss : ss = Parts(r, cmds)
  OBVIOUS
<1>3. /\ ss \in Seq(Seq(Vals)) /\ Len(ss) = N
      /\ \A k \in 1 .. N : ss[k] = Eth!Fetch(r, cmds[k]) /\ cmds[k].size \in Nat /\ cmds[k].from \in Nat
  BY <1>1, <1>2, PartsTyped
<1>4. PICK f : Joins(f, ss) /\ Eth!FlattenSeq(ss) = f[N]
  BY <1>1, <1>3, FlattenRun
<1>5. PICK d : d = f[N] /\ Reply(r, cmds) = d
  BY <1>2, <1>4 DEF Reply
<1>6. Placed(f, ss, cmds, N)
  BY <1>1, <1>2, <1>4, PlacedAll
<1>7. n = Len(d) /\ n \in Nat
  BY <1>1, <1>3, <1>5, <1>6 DEF Placed, Follows
<1>8. PICK b : b = Eth!Received(d, n)
  OBVIOUS
<1>9. \A x \in 1 .. n : b[x] = d[x]
  BY <1>7, <1>8 DEF Eth!Received
<1>10. ASSUME NEW k \in 1 .. N
       PROVE  [e \in 1 .. cmds[k].size |-> b[cmds[k].from + e]] = ss[k]
  <2>1. \A e \in 1 .. cmds[k].size : b[cmds[k].from + e] = ss[k][e]
    BY <1>1, <1>5, <1>6, <1>7, <1>9 DEF Placed
  <2>2. ss[k] = [e \in 1 .. cmds[k].size |-> ss[k][e]]
    BY <1>3 DEF Eth!Fetch
  <2> QED BY <2>1, <2>2
<1>11. Eth!Scatter(cmds, b) = [k \in 1 .. N |-> ss[k]]
  BY <1>1, <1>10 DEF Eth!Scatter
<1>12. ss = [k \in 1 .. N |-> ss[k]]
  BY <1>1, <1>2 DEF Parts
<1> QED BY <1>2, <1>5, <1>8, <1>11, <1>12

-----------------------------------------------------------------------------
(***************************************************************************)
(* The packets under way turn the board's registers into what was issued.  *)
(***************************************************************************)
Packets == [op : {"read"}, cmds : Seq(Cmd)] \cup [op : {"write"}, cmds : Seq(Eth!Writes)]

Apply(m, p) == IF p.op = "write" THEN Eth!PutAll(m, p.cmds) ELSE m

IsChain(S, m, w, n) ==
  /\ S \in [0 .. Len(w) -> Memory] /\ S[0] = m /\ S[Len(w)] = n
  /\ \A k \in 1 .. Len(w) : S[k] = Apply(S[k - 1], w[k])

Leads(m, w, n) == \E S : IsChain(S, m, w, n)

LEMMA ApplyTyped == ASSUME NEW m \in Memory, NEW p \in Packets PROVE Apply(m, p) \in Memory
<1>1. CASE p \in [op : {"write"}, cmds : Seq(Eth!Writes)]
  BY <1>1, PutAllTyped DEF Apply
<1>2. CASE p \in [op : {"read"}, cmds : Seq(Cmd)]
  BY <1>2 DEF Apply
<1> QED BY <1>1, <1>2 DEF Packets

LEMMA Longer ==
  ASSUME NEW w \in Seq(Packets), NEW p \in Packets
  PROVE  \E v \in Seq(Packets) : /\ v = Append(w, p) /\ Len(v) = Len(w) + 1 /\ v[Len(w) + 1] = p
                           /\ \A k \in 1 .. Len(w) : v[k] = w[k]
<1>1. /\ Append(w, p) \in Seq(Packets) /\ Len(Append(w, p)) = Len(w) + 1
      /\ Append(w, p)[Len(w) + 1] = p
  OBVIOUS
<1>2. \A k \in 1 .. Len(w) : Append(w, p)[k] = w[k]
  OBVIOUS
<1> QED BY <1>1, <1>2

LEMMA Shorter ==
  ASSUME NEW w \in Seq(Packets), w # <<>>
  PROVE  \E v \in Seq(Packets) : /\ v = Tail(w) /\ Len(v) = Len(w) - 1
                           /\ \A k \in 1 .. Len(v) : v[k] = w[k + 1]
<1>1. Tail(w) \in Seq(Packets) /\ Len(Tail(w)) = Len(w) - 1
  OBVIOUS
<1>2. \A k \in 1 .. Len(w) - 1 : Tail(w)[k] = w[k + 1]
  OBVIOUS
<1> QED BY <1>1, <1>2

LEMMA LeadsNowhere == ASSUME NEW m \in Memory, NEW n PROVE Leads(m, <<>>, n) <=> m = n
<1>1. PICK w : w = <<>> /\ Len(w) = 0
  OBVIOUS
<1>2. ASSUME m = n PROVE Leads(m, w, n)
  <2>1. IsChain([k \in 0 .. 0 |-> m], m, w, n)
    BY <1>1, <1>2 DEF IsChain
  <2> QED BY <2>1 DEF Leads
<1>3. ASSUME NEW S, IsChain(S, m, w, n) PROVE m = n
  BY <1>1, <1>3 DEF IsChain
<1> QED BY <1>1, <1>2, <1>3 DEF Leads

LEMMA LeadsOn ==
  ASSUME NEW m \in Memory, NEW w \in Seq(Packets), NEW n, Leads(m, w, n), NEW p \in Packets
  PROVE  n \in Memory /\ Leads(m, Append(w, p), Apply(n, p))
<1>1. PICK S : IsChain(S, m, w, n)
  BY DEF Leads
<1>2. PICK l \in Nat : l = Len(w)
  OBVIOUS
<1>3. PICK v : v = Append(w, p) /\ Len(v) = l + 1 /\ v[l + 1] = p /\ \A k \in 1 .. l : v[k] = w[k]
  <2>1. \E v \in Seq(Packets) : /\ v = Append(w, p) /\ Len(v) = Len(w) + 1 /\ v[Len(w) + 1] = p
                                /\ \A k \in 1 .. Len(w) : v[k] = w[k]
    BY Longer
  <2> QED BY <1>2, <2>1
<1>4. S \in [0 .. l -> Memory] /\ S[l] = n /\ n \in Memory
  BY <1>1, <1>2 DEF IsChain
<1>5. PICK q : q = Apply(n, p) /\ q \in Memory
  BY <1>4, ApplyTyped
<1> DEFINE R == [k \in 0 .. l + 1 |-> IF k = l + 1 THEN q ELSE S[k]]
<1>6. R \in [0 .. l + 1 -> Memory] /\ R[0] = m /\ R[l + 1] = q
  BY <1>1, <1>4, <1>5 DEF IsChain
<1>7. ASSUME NEW k \in 1 .. l + 1 PROVE R[k] = Apply(R[k - 1], v[k])
  <2>1. CASE k = l + 1
    <3>1. k - 1 = l /\ R[k - 1] = S[l] /\ R[k] = q
      BY <2>1
    <3> QED BY <1>3, <1>4, <1>5, <2>1, <3>1
  <2>2. CASE k \in 1 .. l
    <3>1. R[k] = S[k] /\ R[k - 1] = S[k - 1]
      BY <2>2
    <3> QED BY <1>1, <1>2, <1>3, <2>2, <3>1 DEF IsChain
  <2> QED BY <2>1, <2>2
<1> HIDE DEF R
<1>8. IsChain(R, m, v, q)
  BY <1>3, <1>6, <1>7 DEF IsChain
<1> QED BY <1>3, <1>4, <1>5, <1>8 DEF Leads

LEMMA LeadsOff ==
  ASSUME NEW m \in Memory, NEW w \in Seq(Packets), NEW n, Leads(m, w, n), w # <<>>
  PROVE  Apply(m, Head(w)) \in Memory /\ Leads(Apply(m, Head(w)), Tail(w), n)
<1>1. PICK S : IsChain(S, m, w, n)
  BY DEF Leads
<1>2. PICK l \in Nat : l + 1 = Len(w)
  <2>1. Len(w) \in Nat /\ Len(w) # 0
    OBVIOUS
  <2>2. Len(w) - 1 \in Nat /\ (Len(w) - 1) + 1 = Len(w)
    BY <2>1
  <2> QED BY <2>2
<1>3. PICK v : v = Tail(w) /\ Len(v) = l /\ \A k \in 1 .. l : v[k] = w[k + 1]
  <2>1. \E v \in Seq(Packets) : /\ v = Tail(w) /\ Len(v) = Len(w) - 1
                                /\ \A k \in 1 .. Len(v) : v[k] = w[k + 1]
    BY Shorter, Zenon
  <2> QED BY <1>2, <2>1
<1>4. /\ S \in [0 .. l + 1 -> Memory] /\ S[l + 1] = n /\ S[0] = m
      /\ \A k \in 1 .. l + 1 : S[k] = Apply(S[k - 1], w[k])
  BY <1>1, <1>2 DEF IsChain
<1>5. S[1] = Apply(m, Head(w)) /\ S[1] \in Memory
  <2>1. PICK k \in 1 .. l + 1 : k = 1 /\ k - 1 = 0
    OBVIOUS
  <2>2. w[1] = Head(w)
    OBVIOUS
  <2> QED BY <1>4, <2>1, <2>2
<1> DEFINE R == [k \in 0 .. l |-> S[k + 1]]
<1>6. R \in [0 .. l -> Memory] /\ R[0] = S[1] /\ R[l] = n
  BY <1>4
<1>7. ASSUME NEW k \in 1 .. l PROVE R[k] = Apply(R[k - 1], v[k])
  <2>1. PICK j \in 1 .. l + 1 : j = k + 1 /\ j - 1 = k
    OBVIOUS
  <2>2. S[j] = Apply(S[k], w[j])
    BY <1>4, <2>1
  <2>3. R[k] = S[j] /\ R[k - 1] = S[k] /\ v[k] = w[j]
    BY <1>3, <2>1
  <2> QED BY <2>2, <2>3
<1> HIDE DEF R
<1>8. IsChain(R, S[1], v, n)
  BY <1>3, <1>6, <1>7 DEF IsChain
<1> QED BY <1>3, <1>5, <1>8 DEF Leads

-----------------------------------------------------------------------------
(***************************************************************************)
(* c of the packets under way are reads.                                   *)
(***************************************************************************)
Asks(p) == IF p.op = "read" THEN 1 ELSE 0

IsCount(C, w, c) ==
  /\ C \in [0 .. Len(w) -> Int] /\ C[0] = 0 /\ C[Len(w)] = c
  /\ \A k \in 1 .. Len(w) : C[k] = C[k - 1] + Asks(w[k])

Owes(w, c) == \E C : IsCount(C, w, c)

LEMMA OwesNone == Owes(<<>>, 0)
<1>1. PICK w : w = <<>> /\ Len(w) = 0
  OBVIOUS
<1>2. IsCount([k \in 0 .. 0 |-> 0], w, 0)
  BY <1>1 DEF IsCount
<1> QED BY <1>1, <1>2 DEF Owes

LEMMA OwesOn ==
  ASSUME NEW w \in Seq(Packets), NEW c, Owes(w, c), NEW p \in Packets
  PROVE  c \in Int /\ Owes(Append(w, p), c + Asks(p))
<1>1. PICK C : IsCount(C, w, c)
  BY DEF Owes
<1>2. PICK l \in Nat : l = Len(w)
  OBVIOUS
<1>3. PICK v : v = Append(w, p) /\ Len(v) = l + 1 /\ v[l + 1] = p /\ \A k \in 1 .. l : v[k] = w[k]
  <2>1. \E v \in Seq(Packets) : /\ v = Append(w, p) /\ Len(v) = Len(w) + 1 /\ v[Len(w) + 1] = p
                                /\ \A k \in 1 .. Len(w) : v[k] = w[k]
    BY Longer
  <2> QED BY <1>2, <2>1
<1>4. C \in [0 .. l -> Int] /\ C[l] = c /\ c \in Int
  BY <1>1, <1>2 DEF IsCount
<1>5. PICK q \in Int : q = c + Asks(p)
  BY <1>4 DEF Asks
<1> DEFINE D == [k \in 0 .. l + 1 |-> IF k = l + 1 THEN q ELSE C[k]]
<1>6. D \in [0 .. l + 1 -> Int] /\ D[0] = 0 /\ D[l + 1] = q
  BY <1>1, <1>4, <1>5 DEF IsCount
<1>7. ASSUME NEW k \in 1 .. l + 1 PROVE D[k] = D[k - 1] + Asks(v[k])
  <2>1. CASE k = l + 1
    <3>1. k - 1 = l /\ D[k - 1] = C[l] /\ D[k] = q
      BY <2>1
    <3> QED BY <1>3, <1>4, <1>5, <2>1, <3>1
  <2>2. CASE k \in 1 .. l
    <3>1. D[k] = C[k] /\ D[k - 1] = C[k - 1]
      BY <2>2
    <3> QED BY <1>1, <1>2, <1>3, <2>2, <3>1 DEF IsCount
  <2> QED BY <2>1, <2>2
<1> HIDE DEF D
<1>8. IsCount(D, v, q)
  BY <1>3, <1>6, <1>7 DEF IsCount
<1> QED BY <1>3, <1>4, <1>5, <1>8 DEF Owes

LEMMA OwesOff ==
  ASSUME NEW w \in Seq(Packets), NEW c, Owes(w, c), w # <<>>
  PROVE  c \in Int /\ Owes(Tail(w), c - Asks(Head(w)))
<1>1. PICK C : IsCount(C, w, c)
  BY DEF Owes
<1>2. PICK l \in Nat : l + 1 = Len(w)
  <2>1. Len(w) \in Nat /\ Len(w) # 0
    OBVIOUS
  <2>2. Len(w) - 1 \in Nat /\ (Len(w) - 1) + 1 = Len(w)
    BY <2>1
  <2> QED BY <2>2
<1>3. PICK v : v = Tail(w) /\ Len(v) = l /\ \A k \in 1 .. l : v[k] = w[k + 1]
  <2>1. \E v \in Seq(Packets) : /\ v = Tail(w) /\ Len(v) = Len(w) - 1
                                /\ \A k \in 1 .. Len(v) : v[k] = w[k + 1]
    BY Shorter, Zenon
  <2> QED BY <1>2, <2>1
<1>4. /\ C \in [0 .. l + 1 -> Int] /\ C[l + 1] = c /\ C[0] = 0
      /\ \A k \in 1 .. l + 1 : C[k] = C[k - 1] + Asks(w[k])
  BY <1>1, <1>2 DEF IsCount
<1>5. C[1] = Asks(Head(w)) /\ C[1] \in Int /\ c \in Int
  <2>1. PICK k \in 1 .. l + 1 : k = 1 /\ k - 1 = 0
    OBVIOUS
  <2>2. w[1] = Head(w)
    OBVIOUS
  <2>3. C[1] = 0 + Asks(w[1]) /\ Asks(w[1]) \in Int
    BY <1>4, <2>1 DEF Asks
  <2> QED BY <1>4, <2>2, <2>3
<1> DEFINE D == [k \in 0 .. l |-> C[k + 1] - C[1]]
<1>6. D \in [0 .. l -> Int] /\ D[0] = 0 /\ D[l] = c - C[1]
  BY <1>4
<1>7. ASSUME NEW k \in 1 .. l PROVE D[k] = D[k - 1] + Asks(v[k])
  <2>1. PICK j \in 1 .. l + 1 : j = k + 1 /\ j - 1 = k
    OBVIOUS
  <2>2. C[j] = C[k] + Asks(w[j])
    BY <1>4, <2>1
  <2>3. D[k] = C[j] - C[1] /\ D[k - 1] = C[k] - C[1] /\ v[k] = w[j]
    BY <1>3, <2>1
  <2>4. Asks(w[j]) \in Int
    BY DEF Asks
  <2>5. C[j] \in Int /\ C[k] \in Int
    <3>1. k \in 0 .. l + 1 /\ j \in 0 .. l + 1
      OBVIOUS
    <3> HIDE DEF D
    <3> QED BY <1>4, <3>1
  <2> QED BY <1>5, <2>2, <2>3, <2>4, <2>5
<1> HIDE DEF D
<1>8. IsCount(D, v, c - C[1])
  BY <1>3, <1>6, <1>7 DEF IsCount
<1> QED BY <1>3, <1>5, <1>8 DEF Owes

LEMMA OwesBound ==
  ASSUME NEW w \in Seq(Packets), NEW c, Owes(w, c)
  PROVE  c \in 0 .. Len(w)
<1>1. PICK C : IsCount(C, w, c)
  BY DEF Owes
<1>2. PICK l \in Nat : l = Len(w)
  OBVIOUS
<1>3. /\ C \in [0 .. l -> Int] /\ C[l] = c /\ C[0] = 0
      /\ \A k \in 1 .. l : C[k] = C[k - 1] + Asks(w[k])
  BY <1>1, <1>2 DEF IsCount
<1> DEFINE T == {n \in Nat : n <= l => C[n] \in 0 .. n}
<1>4. 0 \in T
  BY <1>3
<1>5. ASSUME NEW n \in Nat, n \in T PROVE n + 1 \in T
  <2> SUFFICES ASSUME n + 1 <= l PROVE C[n + 1] \in 0 .. n + 1
    OBVIOUS
  <2>1. PICK k \in 1 .. l : k = n + 1 /\ k - 1 = n
    OBVIOUS
  <2>2. C[k] = C[n] + Asks(w[k]) /\ Asks(w[k]) \in 0 .. 1
    BY <1>3, <2>1 DEF Asks
  <2>3. C[n] \in 0 .. n
    BY <1>5
  <2>4. C[k] \in 0 .. n + 1
    BY <2>2, <2>3
  <2> QED BY <2>1, <2>4
<1> HIDE DEF T
<1>6. l \in T
  BY <1>4, <1>5, SetInduction
<1> QED BY <1>2, <1>3, <1>6 DEF T

-----------------------------------------------------------------------------
(***************************************************************************)
(* The offsets of queued reads, one more read and the bounds they keep.    *)
(***************************************************************************)
LEMMA FollowsOn ==
  ASSUME NEW cmds \in Seq(Cmd), NEW n \in Nat, Follows(cmds, n),
         NEW c \in Cmd, c.from = n
  PROVE  Append(cmds, c) \in Seq(Cmd) /\ Follows(Append(cmds, c), n + c.size)
<1>1. PICK l \in Nat : l = Len(cmds) /\ (cmds = <<>> <=> l = 0)
  OBVIOUS
<1>2. PICK v \in Seq(Cmd) : /\ v = Append(cmds, c) /\ Len(v) = l + 1 /\ v[l + 1] = c
                            /\ \A k \in 1 .. l : v[k] = cmds[k]
  <2>1. /\ Append(cmds, c) \in Seq(Cmd) /\ Len(Append(cmds, c)) = l + 1
        /\ Append(cmds, c)[l + 1] = c
    BY <1>1
  <2>2. \A k \in 1 .. l : Append(cmds, c)[k] = cmds[k]
    BY <1>1
  <2> QED BY <2>1, <2>2
<1>3. v # <<>>
  BY <1>2
<1>4. v[1].from = 0
  <2>1. CASE l = 0
    BY <1>1, <1>2, <2>1 DEF Follows
  <2>2. CASE l # 0
    BY <1>1, <1>2, <2>2 DEF Follows
  <2> QED BY <2>1, <2>2
<1>5. n + c.size = v[l + 1].from + v[l + 1].size
  BY <1>2
<1>6. ASSUME NEW k \in 1 .. l PROVE v[k + 1].from = v[k].from + v[k].size
  <2>1. CASE k = l
    BY <1>1, <1>2, <2>1 DEF Follows
  <2>2. CASE k # l
    <3>1. k \in 1 .. l - 1 /\ k + 1 \in 1 .. l
      BY <2>2
    <3> QED BY <1>1, <1>2, <3>1 DEF Follows
  <2> QED BY <2>1, <2>2
<1>7. Follows(v, n + c.size)
  BY <1>2, <1>3, <1>4, <1>5, <1>6 DEF Follows
<1> QED BY <1>2, <1>7

LEMMA FollowsNone == Follows(<<>>, 0)
<1>1. PICK u : u = <<>> /\ Len(u) = 0
  OBVIOUS
<1>2. Follows(u, 0)
  BY <1>1 DEF Follows
<1> QED BY <1>1, <1>2

LEMMA FollowsOne ==
  ASSUME NEW c \in Cmd, c.from = 0
  PROVE  <<c>> \in Seq(Cmd) /\ Len(<<c>>) = 1 /\ Follows(<<c>>, c.size)
<1>1. PICK u : u = <<c>> /\ u \in Seq(Cmd) /\ Len(u) = 1 /\ u[1] = c /\ u # <<>>
  <2>1. <<c>> \in Seq(Cmd) /\ Len(<<c>>) = 1 /\ <<c>>[1] = c /\ <<c>> # <<>>
    OBVIOUS
  <2> QED BY <2>1
<1>2. c.size \in Nat
  BY WordsAssumption DEF Cmd
<1>3. Follows(u, c.size)
  BY <1>1, <1>2 DEF Follows
<1> QED BY <1>1, <1>3

\* Products of the bounds.
LEMMA Times ==
  ASSUME NEW a \in Nat, NEW b \in Nat
  PROVE  a * Words \in Nat /\ (a + 1) * Words = a * Words + Words
         /\ (a <= b => a * Words <= b * Words)
BY WordsAssumption

LEMMA OffsetsBound ==
  ASSUME NEW cmds \in Seq(Cmd), NEW n \in Nat, Follows(cmds, n), Len(cmds) <= MaxQueue
  PROVE  /\ n \in 0 .. MaxQueue * Words
         /\ \A k \in 1 .. Len(cmds) : cmds[k].from \in 0 .. MaxQueue * Words
<1>1. PICK N \in Nat : N = Len(cmds) /\ (cmds = <<>> <=> N = 0)
  OBVIOUS
<1>2. \A k \in 1 .. N : cmds[k].from \in Nat /\ cmds[k].size \in 1 .. Words
  <2>1. \A k \in 1 .. N : cmds[k] \in Cmd
    BY <1>1
  <2> QED BY <2>1 DEF Cmd
<1> DEFINE T == {m \in Nat : m + 1 <= N => cmds[m + 1].from <= m * Words}
<1>3. 0 \in T
  <2>1. 0 * Words = 0
    BY WordsAssumption
  <2>2. N # 0 => cmds[1].from = 0
    BY <1>1 DEF Follows
  <2> QED BY <2>1, <2>2
<1>4. ASSUME NEW m \in Nat, m \in T PROVE m + 1 \in T
  <2> SUFFICES ASSUME m + 1 + 1 <= N PROVE cmds[m + 1 + 1].from <= (m + 1) * Words
    OBVIOUS
  <2>1. PICK k \in 1 .. N - 1 : k = m + 1
    BY <1>1
  <2>2. cmds[k + 1].from = cmds[k].from + cmds[k].size
    BY <1>1 DEF Follows
  <2>3. PICK x \in Nat : x = m * Words /\ (m + 1) * Words = x + Words
    BY Times
  <2>4. cmds[k].from <= x
    BY <1>4, <2>1, <2>3
  <2>5. cmds[k].from \in Nat /\ cmds[k].size \in 1 .. Words
    BY <1>2
  <2>6. cmds[k + 1].from <= x + Words
    <3>1. PICK f \in Nat, s \in 1 .. Words : f = cmds[k].from /\ s = cmds[k].size
      BY <2>5
    <3>2. f + s <= x + Words
      <4>1. f <= x
        BY <2>4, <3>1
      <4>2. s \in Nat /\ s <= Words /\ Words \in Nat
        BY WordsAssumption
      <4> QED BY <4>1, <4>2
    <3> QED BY <2>2, <3>1, <3>2
  <2> QED BY <2>1, <2>3, <2>6
<1> HIDE DEF T
<1>5. ASSUME NEW k \in 1 .. N
      PROVE  /\ cmds[k].from \in 0 .. MaxQueue * Words
             /\ cmds[k].from + cmds[k].size \in 0 .. MaxQueue * Words
  <2>1. PICK m \in Nat : k = m + 1
    <3>1. k - 1 \in Nat /\ k = (k - 1) + 1
      BY <1>1
    <3> QED BY <3>1
  <2>2. m \in T
    <3>1. Nat \subseteq T
      BY <1>3, <1>4, SetInduction
    <3> QED BY <3>1
  <2>3. PICK x \in Nat : x = m * Words /\ k * Words = x + Words
    BY <2>1, Times
  <2>4. PICK b \in Nat : b = MaxQueue * Words /\ x + Words <= b
    <3>1. k <= MaxQueue /\ MaxQueue \in Nat /\ k \in Nat
      BY <1>1, BoundsAssumption
    <3>2. k * Words <= MaxQueue * Words /\ MaxQueue * Words \in Nat
      BY <3>1, Times
    <3>3. PICK b \in Nat : b = MaxQueue * Words
      BY <3>2
    <3> QED BY <2>3, <3>2, <3>3
  <2>5. cmds[k].from <= x
    BY <2>1, <2>2, <2>3 DEF T
  <2>6. PICK f \in Nat, s \in 1 .. Words : f = cmds[k].from /\ s = cmds[k].size
    BY <1>2
  <2>7. f \in 0 .. b /\ f + s \in 0 .. b
    <3>1. f <= x
      BY <2>5, <2>6
    <3>2. s \in Nat /\ s <= Words /\ Words \in Nat
      BY WordsAssumption
    <3>3. x + Words <= b
      BY <2>4
    <3> QED BY <3>1, <3>2, <3>3
  <2> QED BY <2>4, <2>6, <2>7
<1>6. n \in 0 .. MaxQueue * Words
  <2>1. CASE N = 0
    <3>1. MaxQueue * Words \in Nat
      BY Times, BoundsAssumption
    <3> QED BY <1>1, <2>1, <3>1 DEF Follows
  <2>2. CASE N # 0
    BY <1>1, <1>5, <2>2 DEF Follows
  <2> QED BY <2>1, <2>2
<1> QED BY <1>1, <1>5, <1>6

-----------------------------------------------------------------------------
(***************************************************************************)
(* The invariant of the Ethernet transport.  The offsets of the queued     *)
(* reads, and of those the thread polls for, follow each other; the queued *)
(* writes do to any memory what was asked for; no more answers are owed    *)
(* than there were packets on the wire.  As long as nothing was missed, the*)
(* packets under way lead from the board's registers to those issued, a    *)
(* thread that polls for nothing is owed nothing, and one that polls has   *)
(* its request last on the wire, or its answer in the socket, or neither.  *)
(***************************************************************************)
ReadCalls ==
  {c \in [cmds : Seq(Cmd), size : Nat, kind : {"read", "flush"}] :
     Len(c.cmds) <= MaxQueue /\ Follows(c.cmds, c.size)}

EthTyped ==
  /\ comm_active \in BOOLEAN /\ ethmissed \in BOOLEAN
  /\ stale \subseteq {"read", "flush", "closed"}
  /\ regs \in Memory /\ issued \in Memory
  /\ wire \in Seq(Packets) /\ Len(wire) <= MaxWire /\ inbox \in Seq(Seq(Vals))
  /\ queue \in Seq(Cmd) /\ wqueue \in Seq(Eth!Writes) /\ queue_buff_size \in Nat
  /\ Len(queue) + Len(wqueue) <= MaxQueue
  /\ ethcall = <<>> \/ \E c \in ReadCalls : ethcall = <<c>>
  /\ asked \in [Eth!Regs -> {<<>>} \cup {<<v>> : v \in Vals}]

Overlay(m, as) == [a \in Eth!Regs |-> IF as[a] = <<>> THEN m[a] ELSE as[a][1]]
Queued(ws, as) == \A m \in Memory : Eth!PutAll(m, ws) = Overlay(m, as)

Owed(w, in, c) ==
  \E n \in Int : Owes(w, n) /\ n + Len(in) <= IF c = <<>> THEN MaxWire ELSE MaxWire + 1

Paired(c, w, in, m) ==
  /\ c = <<>> => in = <<>> /\ \A k \in 1 .. Len(w) : w[k].op = "write"
  /\ c # <<>> =>
       /\ \A k \in 1 .. Len(w) : w[k].op = "read" =>
            k = Len(w) /\ w[k].cmds = c[1].cmds /\ in = <<>>
       /\ in # <<>> => w = <<>> /\ c[1].cmds # <<>> /\ in = <<Reply(m, c[1].cmds)>>

InStepSoFar ==
  /\ stale \subseteq {"closed"}
  /\ Leads(regs, wire, issued) /\ Paired(ethcall, wire, inbox, issued)

EthInv ==
  /\ EthTyped /\ Follows(queue, queue_buff_size)
  /\ Queued(wqueue, asked) /\ Owed(wire, inbox, ethcall)
  /\ ~ethmissed => InStepSoFar

LEMMA OverlayTyped ==
  ASSUME NEW m \in Memory, NEW as \in [Eth!Regs -> {<<>>} \cup {<<v>> : v \in Vals}]
  PROVE  Overlay(m, as) \in Memory
<1>1. ASSUME NEW a \in Eth!Regs PROVE (IF as[a] = <<>> THEN m[a] ELSE as[a][1]) \in Vals
  <2>1. as[a] \in {<<>>} \cup {<<v>> : v \in Vals}
    OBVIOUS
  <2>2. m[a] \in Vals
    BY DEF Memory
  <2>3. CASE as[a] # <<>>
    <3>1. PICK v \in Vals : as[a] = <<v>>
      BY <2>1, <2>3
    <3> QED BY <2>3, <3>1
  <2> QED BY <2>2, <2>3
<1> QED BY <1>1 DEF Overlay, Memory

LEMMA NothingQueued == Queued(<<>>, [a \in Eth!Regs |-> <<>>])
<1>1. ASSUME NEW m \in Memory PROVE Overlay(m, [a \in Eth!Regs |-> <<>>]) = m
  BY DEF Overlay, Memory
<1> QED BY <1>1, PutNone DEF Queued

LEMMA EthInit == Eth!Init => EthInv
<1> SUFFICES ASSUME Eth!Init PROVE EthInv
  OBVIOUS
<1>1. /\ regs \in Memory /\ issued = regs /\ wire = <<>> /\ inbox = <<>>
      /\ queue = <<>> /\ queue_buff_size = 0 /\ wqueue = <<>>
      /\ ethcall = <<>> /\ asked = [a \in Eth!Regs |-> <<>>] /\ stale = {}
      /\ comm_active = TRUE /\ ethmissed = FALSE
  BY DEF Eth!Init, Memory
<1>2. EthTyped
  <2>1. asked \in [Eth!Regs -> {<<>>} \cup {<<v>> : v \in Vals}]
    BY <1>1
  <2>2. /\ wire \in Seq(Packets) /\ Len(wire) <= MaxWire /\ inbox \in Seq(Seq(Vals))
        /\ queue \in Seq(Cmd) /\ wqueue \in Seq(Eth!Writes)
        /\ Len(queue) + Len(wqueue) <= MaxQueue
    BY <1>1, BoundsAssumption
  <2> QED BY <1>1, <2>1, <2>2 DEF EthTyped
<1>3. Follows(queue, queue_buff_size)
  BY <1>1, FollowsNone
<1>4. Queued(wqueue, asked)
  BY <1>1, NothingQueued
<1>5. Owed(wire, inbox, ethcall)
  BY <1>1, OwesNone, BoundsAssumption DEF Owed
<1>6. InStepSoFar
  <2>1. Leads(regs, wire, issued)
    BY <1>1, LeadsNowhere
  <2>2. Paired(ethcall, wire, inbox, issued)
    BY <1>1 DEF Paired
  <2> QED BY <1>1, <2>1, <2>2 DEF InStepSoFar
<1> QED BY <1>2, <1>3, <1>4, <1>5, <1>6 DEF EthInv

(***************************************************************************)
(* A request goes out: one more answer is owed.                            *)
(***************************************************************************)
LEMMA RequestInv ==
  ASSUME EthInv, NEW cmds \in Seq(Cmd), NEW n \in Nat, NEW kind \in {"read", "flush"},
         Len(cmds) <= MaxQueue, Follows(cmds, n), Eth!Request(cmds, n, kind),
         queue' \in Seq(Cmd), queue_buff_size' \in Nat, Len(queue') <= Len(queue),
         Follows(queue', queue_buff_size')
  PROVE  EthInv'
<1>1. PICK p \in Packets : /\ p = [op |-> "read", cmds |-> cmds] /\ wire' = Append(wire, p)
                           /\ p.op = "read" /\ p.cmds = cmds
  BY DEF Eth!Request, Packets
<1>2. PICK c \in ReadCalls : ethcall' = <<c>> /\ c.cmds = cmds
  <2>1. [cmds |-> cmds, size |-> n, kind |-> kind] \in ReadCalls
    BY DEF ReadCalls
  <2> QED BY <2>1 DEF Eth!Request
<1>3. /\ ethcall = <<>> /\ Len(wire) < MaxWire
      /\ UNCHANGED <<comm_active, regs, inbox, wqueue, issued, asked, stale, ethmissed>>
  BY DEF Eth!Request, Eth!Idle
<1>4. wire \in Seq(Packets)
  BY DEF EthInv, EthTyped
<1>5. PICK l \in Nat : l = Len(wire)
  BY <1>4
<1>6. /\ wire' \in Seq(Packets) /\ Len(wire') = l + 1 /\ wire'[l + 1] = p
      /\ \A k \in 1 .. l : wire'[k] = wire[k]
  <2>1. \E v \in Seq(Packets) : /\ v = Append(wire, p) /\ Len(v) = Len(wire) + 1
                                /\ v[Len(wire) + 1] = p
                                /\ \A k \in 1 .. Len(wire) : v[k] = wire[k]
    BY <1>4, Longer
  <2> QED BY <1>1, <1>5, <2>1
<1>7. EthTyped'
  <2>1. Len(wire') <= MaxWire
    BY <1>3, <1>5, <1>6, BoundsAssumption
  <2>2. Len(queue') + Len(wqueue') <= MaxQueue
    <3>1. PICK a \in Nat, b \in Nat, d \in Nat : a = Len(queue') /\ b = Len(wqueue) /\ d = Len(queue)
      BY DEF EthInv, EthTyped
    <3>2. a <= d /\ d + b <= MaxQueue
      BY <3>1 DEF EthInv, EthTyped
    <3> QED BY <1>3, <3>1, <3>2, BoundsAssumption
  <2>3. \E d \in ReadCalls : ethcall' = <<d>>
    BY <1>2
  <2> QED BY <1>3, <1>6, <2>1, <2>2, <2>3 DEF EthInv, EthTyped
<1>8. Queued(wqueue, asked)'
  BY <1>3 DEF EthInv
<1>9. Owed(wire, inbox, ethcall)'
  <2>1. PICK o \in Int : Owes(wire, o) /\ o + Len(inbox) <= MaxWire
    BY <1>3 DEF EthInv, Owed
  <2>2. Owes(wire', o + 1)
    <3>1. Asks(p) = 1
      BY <1>1 DEF Asks
    <3> QED BY <1>1, <1>4, <2>1, <3>1, OwesOn
  <2>3. PICK a \in Nat : a = Len(inbox)
    BY DEF EthInv, EthTyped
  <2>4. o + 1 + Len(inbox') <= MaxWire + 1 /\ o + 1 \in Int
    BY <1>3, <2>1, <2>3, BoundsAssumption
  <2>5. ethcall' # <<>>
    BY <1>2
  <2> QED BY <2>2, <2>4, <2>5 DEF Owed
<1>10. ASSUME ~ethmissed' PROVE InStepSoFar'
  <2>1. InStepSoFar
    BY <1>3, <1>10 DEF EthInv
  <2>2. Leads(regs, wire, issued)'
    <3>1. Apply(issued, p) = issued
      BY <1>1 DEF Apply
    <3>2. regs \in Memory /\ Leads(regs, wire, issued)
      BY <2>1 DEF EthInv, EthTyped, InStepSoFar
    <3>3. Leads(regs, Append(wire, p), Apply(issued, p))
      BY <1>4, <3>2, LeadsOn
    <3> QED BY <1>1, <1>3, <3>1, <3>3
  <2>3. Paired(ethcall, wire, inbox, issued)'
    <3>1. inbox = <<>> /\ \A k \in 1 .. l : wire[k].op = "write"
      BY <1>3, <1>5, <2>1 DEF InStepSoFar, Paired
    <3>2. ethcall' # <<>> /\ ethcall'[1].cmds = cmds /\ inbox' = <<>>
      BY <1>2, <1>3, <3>1
    <3>3. ASSUME NEW k \in 1 .. l + 1, wire'[k].op = "read"
          PROVE  k = l + 1 /\ wire'[k].cmds = cmds
      <4>1. k = l + 1
        BY <1>6, <3>1, <3>3
      <4> QED BY <1>1, <1>6, <4>1
    <3> QED BY <1>6, <3>2, <3>3 DEF Paired
  <2> QED BY <1>3, <2>1, <2>2, <2>3 DEF InStepSoFar
<1> QED BY <1>7, <1>8, <1>9, <1>10 DEF EthInv

LEMMA ReadInv == ASSUME EthInv, NEW c \in Eth!Reads, Eth!Read(c) PROVE EthInv'
<1>1. PICK d \in Cmd : d = [addr |-> c.addr, size |-> c.size, from |-> 0] /\ d.from = 0 /\ d.size = c.size
  <2>1. [addr |-> c.addr, size |-> c.size, from |-> 0] \in Cmd
    BY DEF Cmd, Eth!Reads
  <2> QED BY <2>1
<1>2. PICK cmds \in Seq(Cmd) : cmds = <<d>> /\ Len(cmds) = 1 /\ Follows(cmds, c.size)
  BY <1>1, FollowsOne
<1>3. c.size \in Nat /\ Len(cmds) <= MaxQueue
  BY <1>2, WordsAssumption, BoundsAssumption DEF Eth!Reads
<1>4. Eth!Request(cmds, c.size, "read") /\ UNCHANGED <<queue, queue_buff_size>>
  BY <1>1, <1>2 DEF Eth!Read
<1>5. /\ queue \in Seq(Cmd) /\ queue_buff_size \in Nat /\ Follows(queue, queue_buff_size)
      /\ Len(queue) <= Len(queue)
  BY DEF EthInv, EthTyped
<1> QED BY <1>2, <1>3, <1>4, <1>5, RequestInv

LEMMA FlushReadsInv == ASSUME EthInv, Eth!FlushReads PROVE EthInv'
<1>1. /\ queue \in Seq(Cmd) /\ queue_buff_size \in Nat /\ Follows(queue, queue_buff_size)
      /\ Len(queue) <= MaxQueue
  <2>1. PICK a \in Nat, b \in Nat : a = Len(queue) /\ b = Len(wqueue) /\ a + b <= MaxQueue
    BY DEF EthInv, EthTyped
  <2> QED BY <2>1, BoundsAssumption DEF EthInv, EthTyped
<1>2. /\ Eth!Request(queue, queue_buff_size, "flush")
      /\ queue' = <<>> /\ queue_buff_size' = 0
  BY DEF Eth!FlushReads
<1>3. /\ queue' \in Seq(Cmd) /\ queue_buff_size' \in Nat /\ Follows(queue', queue_buff_size')
      /\ Len(queue') <= Len(queue)
  BY <1>1, <1>2, FollowsNone
<1> QED BY <1>1, <1>2, <1>3, RequestInv

LEMMA EnqueueReadInv == ASSUME EthInv, NEW c \in Eth!Reads, Eth!EnqueueRead(c) PROVE EthInv'
<1>1. PICK d \in Cmd : /\ d = [addr |-> c.addr, size |-> c.size, from |-> queue_buff_size]
                       /\ d.from = queue_buff_size /\ d.size = c.size
  <2>1. queue_buff_size \in Nat
    BY DEF EthInv, EthTyped
  <2>2. [addr |-> c.addr, size |-> c.size, from |-> queue_buff_size] \in Cmd
    BY <2>1 DEF Cmd, Eth!Reads
  <2> QED BY <2>2
<1>2. /\ queue' = Append(queue, d) /\ queue_buff_size' = queue_buff_size + d.size
      /\ Len(queue) + Len(wqueue) < MaxQueue
      /\ UNCHANGED <<comm_active, regs, wire, inbox, wqueue, ethcall, issued, asked, stale, ethmissed>>
  BY <1>1 DEF Eth!EnqueueRead
<1>3. queue \in Seq(Cmd) /\ queue_buff_size \in Nat /\ Follows(queue, queue_buff_size)
  BY DEF EthInv, EthTyped
<1>4. queue' \in Seq(Cmd) /\ Follows(queue', queue_buff_size')
  BY <1>1, <1>2, <1>3, FollowsOn
<1>5. queue_buff_size' \in Nat
  BY <1>2, <1>3, WordsAssumption DEF Cmd
<1>6. Len(queue') + Len(wqueue') <= MaxQueue
  <2>0. queue \in Seq(Cmd) /\ wqueue \in Seq(Eth!Writes)
    BY DEF EthInv, EthTyped
  <2>1. PICK a \in Nat, b \in Nat : a = Len(queue) /\ b = Len(wqueue) /\ a + b < MaxQueue
    BY <1>2, <2>0
  <2>2. Len(queue') = a + 1
    BY <1>2, <1>3, <2>1
  <2> QED BY <1>2, <2>1, <2>2, BoundsAssumption
<1>7. EthTyped'
  BY <1>2, <1>4, <1>5, <1>6 DEF EthInv, EthTyped
<1> QED BY <1>2, <1>4, <1>7 DEF EthInv, InStepSoFar

(***************************************************************************)
(* A packet of writes goes out: it does what issued records.               *)
(***************************************************************************)
LEMMA SendInv ==
  ASSUME EthInv, NEW ws \in Seq(Eth!Writes), Eth!Send(ws), issued' = Eth!PutAll(issued, ws),
         wqueue' \in Seq(Eth!Writes), Len(wqueue') <= Len(wqueue),
         asked' \in [Eth!Regs -> {<<>>} \cup {<<v>> : v \in Vals}],
         Queued(wqueue', asked')
  PROVE  EthInv'
<1>1. PICK p \in Packets : /\ p = [op |-> "write", cmds |-> ws] /\ wire' = Append(wire, p)
                           /\ p.op = "write" /\ p.cmds = ws
  BY DEF Eth!Send, Packets
<1>2. /\ ethcall = <<>> /\ Len(wire) < MaxWire
      /\ UNCHANGED <<comm_active, regs, inbox, queue, queue_buff_size, ethcall, stale, ethmissed>>
  BY DEF Eth!Send, Eth!Idle
<1>3. wire \in Seq(Packets) /\ issued \in Memory
  BY DEF EthInv, EthTyped
<1>4. PICK l \in Nat : l = Len(wire)
  BY <1>3
<1>5. /\ wire' \in Seq(Packets) /\ Len(wire') = l + 1 /\ wire'[l + 1] = p
      /\ \A k \in 1 .. l : wire'[k] = wire[k]
  <2>1. \E v \in Seq(Packets) : /\ v = Append(wire, p) /\ Len(v) = Len(wire) + 1
                                /\ v[Len(wire) + 1] = p
                                /\ \A k \in 1 .. Len(wire) : v[k] = wire[k]
    BY <1>3, Longer
  <2> QED BY <1>1, <1>4, <2>1
<1>6. EthTyped'
  <2>1. Len(wire') <= MaxWire
    BY <1>2, <1>4, <1>5, BoundsAssumption
  <2>2. Len(queue') + Len(wqueue') <= MaxQueue
    <3>1. PICK a \in Nat, b \in Nat, d \in Nat : a = Len(queue) /\ b = Len(wqueue) /\ d = Len(wqueue')
      BY DEF EthInv, EthTyped
    <3>2. d <= b /\ a + b <= MaxQueue
      BY <3>1 DEF EthInv, EthTyped
    <3> QED BY <1>2, <3>1, <3>2, BoundsAssumption
  <2>3. issued' \in Memory
    BY <1>3, PutAllTyped
  <2> QED BY <1>2, <1>5, <2>1, <2>2, <2>3 DEF EthInv, EthTyped
<1>7. Owed(wire, inbox, ethcall)'
  <2>1. PICK o \in Int : Owes(wire, o) /\ o + Len(inbox) <= MaxWire
    BY <1>2 DEF EthInv, Owed
  <2>2. Owes(wire', o)
    <3>1. Asks(p) = 0 /\ o + 0 = o
      BY <1>1 DEF Asks
    <3> QED BY <1>1, <1>3, <2>1, <3>1, OwesOn
  <2> QED BY <1>2, <2>1, <2>2 DEF Owed
<1>8. ASSUME ~ethmissed' PROVE InStepSoFar'
  <2>1. InStepSoFar
    BY <1>2, <1>8 DEF EthInv
  <2>2. Leads(regs, wire, issued)'
    <3>1. Apply(issued, p) = issued'
      BY <1>1 DEF Apply
    <3>2. regs \in Memory /\ Leads(regs, wire, issued)
      BY <2>1 DEF EthInv, EthTyped, InStepSoFar
    <3>3. Leads(regs, Append(wire, p), Apply(issued, p))
      BY <1>3, <3>2, LeadsOn
    <3> QED BY <1>1, <1>2, <3>1, <3>3
  <2>3. Paired(ethcall, wire, inbox, issued)'
    <3>1. inbox = <<>> /\ \A k \in 1 .. l : wire[k].op = "write"
      BY <1>2, <1>4, <2>1 DEF InStepSoFar, Paired
    <3>2. \A k \in 1 .. l + 1 : wire'[k].op = "write"
      BY <1>1, <1>5, <3>1
    <3> QED BY <1>2, <1>5, <3>1, <3>2 DEF Paired
  <2> QED BY <1>2, <2>1, <2>2, <2>3 DEF InStepSoFar
<1>9. Follows(queue, queue_buff_size)'
  BY <1>2 DEF EthInv
<1> QED BY <1>6, <1>7, <1>8, <1>9 DEF EthInv

LEMMA WriteInv == ASSUME EthInv, NEW w \in Eth!Writes, Eth!Write(w) PROVE EthInv'
<1>1. PICK ws \in Seq(Eth!Writes) : ws = <<w>>
  <2>1. <<w>> \in Seq(Eth!Writes)
    OBVIOUS
  <2> QED BY <2>1
<1>2. Eth!Send(ws) /\ issued' = Eth!Put(issued, w) /\ UNCHANGED <<wqueue, asked>>
  BY <1>1 DEF Eth!Write
<1>3. /\ issued \in Memory /\ wqueue \in Seq(Eth!Writes) /\ Len(wqueue) <= Len(wqueue)
      /\ asked \in [Eth!Regs -> {<<>>} \cup {<<v>> : v \in Vals}] /\ Queued(wqueue, asked)
  BY DEF EthInv, EthTyped
<1>4. issued' = Eth!PutAll(issued, ws)
  BY <1>1, <1>2, <1>3, PutOne
<1> QED BY <1>2, <1>3, <1>4, SendInv

LEMMA FlushWritesInv == ASSUME EthInv, Eth!FlushWrites PROVE EthInv'
<1>1. /\ Eth!Send(wqueue) /\ wqueue' = <<>> /\ issued' = Overlay(issued, asked)
      /\ asked' = [a \in Eth!Regs |-> <<>>]
  BY DEF Eth!FlushWrites, Overlay
<1>2. issued \in Memory /\ wqueue \in Seq(Eth!Writes) /\ Queued(wqueue, asked)
  BY DEF EthInv, EthTyped
<1>3. issued' = Eth!PutAll(issued, wqueue)
  BY <1>1, <1>2 DEF Queued
<1>4. wqueue' \in Seq(Eth!Writes) /\ Len(wqueue') <= Len(wqueue)
  BY <1>1, <1>2
<1>5. asked' \in [Eth!Regs -> {<<>>} \cup {<<v>> : v \in Vals}] /\ Queued(wqueue', asked')
  BY <1>1, NothingQueued
<1> QED BY <1>1, <1>2, <1>3, <1>4, <1>5, SendInv

LEMMA EnqueueWriteInv == ASSUME EthInv, NEW w \in Eth!Writes, Eth!EnqueueWrite(w) PROVE EthInv'
<1>1. /\ wqueue' = Append(wqueue, w) /\ Len(queue) + Len(wqueue) < MaxQueue
      /\ asked' = [asked EXCEPT ![w.addr] = <<w.val>>]
      /\ UNCHANGED <<comm_active, regs, wire, inbox, queue, queue_buff_size, ethcall,
                     issued, stale, ethmissed>>
  BY DEF Eth!EnqueueWrite
<1>2. /\ wqueue \in Seq(Eth!Writes) /\ Queued(wqueue, asked)
      /\ asked \in [Eth!Regs -> {<<>>} \cup {<<v>> : v \in Vals}]
  BY DEF EthInv, EthTyped
<1>3. w.addr \in Eth!Regs /\ w.val \in Vals
  BY DEF Eth!Writes
<1>4. wqueue' \in Seq(Eth!Writes) /\ Len(queue') + Len(wqueue') <= MaxQueue
  <2>0. queue \in Seq(Cmd) /\ wqueue \in Seq(Eth!Writes)
    BY DEF EthInv, EthTyped
  <2>1. PICK a \in Nat, b \in Nat : a = Len(queue) /\ b = Len(wqueue) /\ a + b < MaxQueue
    BY <1>1, <2>0
  <2>2. Len(wqueue') = b + 1 /\ wqueue' \in Seq(Eth!Writes)
    BY <1>1, <1>2, <2>1
  <2> QED BY <1>1, <2>1, <2>2, BoundsAssumption
<1>5. asked' \in [Eth!Regs -> {<<>>} \cup {<<v>> : v \in Vals}]
  <2>1. <<w.val>> \in {<<>>} \cup {<<v>> : v \in Vals}
    BY <1>3
  <2> QED BY <1>1, <1>2, <2>1
<1>6. EthTyped'
  BY <1>1, <1>4, <1>5 DEF EthInv, EthTyped
<1>7. Queued(wqueue, asked)'
  <2>1. ASSUME NEW m \in Memory PROVE Eth!PutAll(m, wqueue') = Overlay(m, asked')
    <3>1. Eth!PutAll(m, wqueue') = Eth!Put(Overlay(m, asked), w)
      BY <1>1, <1>2, PutOneMore DEF Queued
    <3>2. PICK g : g = Overlay(m, asked) /\ g \in Memory
      BY <1>2, OverlayTyped
    <3>3. ASSUME NEW a \in Eth!Regs
          PROVE  Eth!Put(g, w)[a] = IF asked'[a] = <<>> THEN m[a] ELSE asked'[a][1]
      <4>1. CASE a = w.addr
        <5>1. asked'[a] = <<w.val>> /\ Eth!Put(g, w)[a] = w.val
          BY <1>1, <1>2, <1>3, <3>2, <4>1 DEF Eth!Put, Memory
        <5> QED BY <5>1
      <4>2. CASE a # w.addr
        <5>1. asked'[a] = asked[a] /\ Eth!Put(g, w)[a] = g[a]
          BY <1>1, <1>2, <1>3, <3>2, <4>2 DEF Eth!Put, Memory
        <5> QED BY <3>2, <5>1 DEF Overlay
      <4> QED BY <4>1, <4>2
    <3>4. Eth!Put(g, w) = [a \in Eth!Regs |-> Eth!Put(g, w)[a]]
      <4>1. Eth!Put(g, w) \in Memory
        BY <3>2, PutTyped
      <4> QED BY <4>1 DEF Memory
    <3> QED BY <3>1, <3>2, <3>3, <3>4 DEF Overlay
  <2> QED BY <2>1 DEF Queued
<1> QED BY <1>1, <1>6, <1>7 DEF EthInv, InStepSoFar

(***************************************************************************)
(* The poll finds the answer of the request on which it waits.             *)
(***************************************************************************)
LEMMA AnswerInv == ASSUME EthInv, Eth!Answer PROVE EthInv'
<1>1. PICK c \in ReadCalls : ethcall = <<c>> /\ ethcall[1] = c /\ ethcall # <<>>
  <2>1. PICK c \in ReadCalls : ethcall = <<c>>
    BY DEF EthInv, EthTyped, Eth!Answer
  <2> QED BY <2>1
<1>2. /\ inbox # <<>> /\ inbox' = Tail(inbox) /\ ethcall' = <<>>
      /\ Eth!Fill(Eth!Received(Head(inbox), c.size))
      /\ UNCHANGED <<comm_active, regs, wire, queue, queue_buff_size, wqueue, issued, asked, ethmissed>>
  BY <1>1 DEF Eth!Answer
<1>3. /\ inbox \in Seq(Seq(Vals)) /\ wire \in Seq(Packets) /\ issued \in Memory
      /\ c.kind \in {"read", "flush"} /\ c.cmds \in Seq(Cmd) /\ Follows(c.cmds, c.size)
      /\ stale \subseteq {"read", "flush", "closed"}
  BY DEF EthInv, EthTyped, ReadCalls
<1>4. PICK a \in Nat : Len(inbox) = a + 1 /\ Len(inbox') = a /\ inbox' \in Seq(Seq(Vals))
  <2>1. Len(inbox) \in Nat /\ Len(inbox) # 0
    BY <1>2, <1>3
  <2>2. PICK a \in Nat : Len(inbox) = a + 1
    <3>1. Len(inbox) - 1 \in Nat /\ Len(inbox) = (Len(inbox) - 1) + 1
      BY <2>1
    <3> QED BY <3>1
  <2>3. Len(inbox') = a /\ inbox' \in Seq(Seq(Vals))
    BY <1>2, <1>3, <2>2
  <2> QED BY <2>2, <2>3
<1>5. EthTyped'
  <2>1. stale' \subseteq {"read", "flush", "closed"}
    BY <1>1, <1>2, <1>3 DEF Eth!Fill
  <2> QED BY <1>2, <1>4, <2>1 DEF EthInv, EthTyped
<1>6. Owed(wire, inbox, ethcall)'
  <2>1. PICK o \in Int : Owes(wire, o) /\ o + Len(inbox) <= MaxWire + 1
    BY <1>1 DEF EthInv, Owed
  <2>2. o + Len(inbox') <= MaxWire
    BY <1>4, <2>1, BoundsAssumption
  <2> QED BY <1>2, <2>1, <2>2 DEF Owed
<1>7. ASSUME ~ethmissed' PROVE InStepSoFar'
  <2>1. InStepSoFar
    BY <1>2, <1>7 DEF EthInv
  <2>2. wire = <<>> /\ c.cmds # <<>> /\ inbox = <<Reply(issued, c.cmds)>>
    BY <1>1, <1>2, <2>1 DEF InStepSoFar, Paired
  <2>3. Head(inbox) = Reply(issued, c.cmds) /\ inbox' = <<>>
    BY <1>2, <2>2
  <2>4. Eth!Scatter(c.cmds, Eth!Received(Head(inbox), c.size)) = Parts(issued, c.cmds)
    <3>1. c.size \in Nat
      BY DEF ReadCalls
    <3> QED BY <1>3, <2>2, <2>3, CutUp
  <2>5. stale' \subseteq {"closed"}
    BY <1>1, <1>2, <2>1, <2>4 DEF Eth!Fill, Parts, InStepSoFar
  <2>6. Paired(ethcall, wire, inbox, issued)'
    <3>1. Len(wire') = 0
      BY <1>2, <2>2
    <3> QED BY <1>2, <2>3, <3>1 DEF Paired
  <2>7. Leads(regs, wire, issued)'
    BY <1>2, <2>1 DEF InStepSoFar
  <2> QED BY <2>5, <2>6, <2>7 DEF InStepSoFar
<1>8. Queued(wqueue, asked)' /\ Follows(queue, queue_buff_size)'
  BY <1>2 DEF EthInv
<1> QED BY <1>5, <1>6, <1>7, <1>8 DEF EthInv

LEMMA TimeoutInv == ASSUME EthInv, Eth!Timeout PROVE EthInv'
<1>1. PICK c \in ReadCalls : ethcall[1] = c
  <2>1. PICK c \in ReadCalls : ethcall = <<c>>
    BY DEF EthInv, EthTyped, Eth!Timeout
  <2> QED BY <2>1
<1>2. /\ ethcall' = <<>> /\ inbox = <<>> /\ ethmissed' = TRUE
      /\ UNCHANGED <<comm_active, regs, wire, inbox, queue, queue_buff_size, wqueue, issued, asked>>
  BY DEF Eth!Timeout
<1>3. EthTyped'
  <2>1. stale' \subseteq {"read", "flush", "closed"}
    <3>1. c.kind \in {"read", "flush"} /\ stale \subseteq {"read", "flush", "closed"}
      BY DEF ReadCalls, EthInv, EthTyped
    <3> QED BY <1>1, <3>1 DEF Eth!Timeout, Eth!Fill
  <2> QED BY <1>2, <2>1 DEF EthInv, EthTyped
<1>4. Owed(wire, inbox, ethcall)'
  <2>1. PICK o \in Int : Owes(wire, o)
    BY DEF EthInv, Owed
  <2>2. wire \in Seq(Packets) /\ Len(wire) <= MaxWire
    BY DEF EthInv, EthTyped
  <2>3. o \in 0 .. Len(wire)
    BY <2>1, <2>2, OwesBound
  <2>4. Len(inbox') = 0
    BY <1>2
  <2>5. o + Len(inbox') <= MaxWire
    BY <2>2, <2>3, <2>4, BoundsAssumption
  <2> QED BY <1>2, <2>1, <2>5 DEF Owed
<1>5. Queued(wqueue, asked)' /\ Follows(queue, queue_buff_size)'
  BY <1>2 DEF EthInv
<1> QED BY <1>2, <1>3, <1>4, <1>5 DEF EthInv

LEMMA ReadClosedInv == ASSUME EthInv, Eth!ReadClosed PROVE EthInv'
BY DEF Eth!ReadClosed, EthInv, EthTyped, InStepSoFar

LEMMA ExitInv == ASSUME EthInv, Eth!Exit PROVE EthInv'
<1>1. /\ comm_active' \in BOOLEAN /\ inbox' = <<>>
      /\ UNCHANGED <<regs, wire, queue, queue_buff_size, wqueue, ethcall, issued,
                     asked, stale, ethmissed>>
  BY DEF Eth!Exit
<1>2. EthTyped'
  <2>1. inbox' \in Seq(Seq(Vals))
    BY <1>1
  <2> QED BY <1>1, <2>1 DEF EthInv, EthTyped
<1>3. Owed(wire, inbox, ethcall)'
  <2>1. PICK R \in Int : R = IF ethcall = <<>> THEN MaxWire ELSE MaxWire + 1
    BY BoundsAssumption
  <2>2. PICK o \in Int : Owes(wire, o) /\ o + Len(inbox) <= R
    BY <2>1 DEF EthInv, Owed
  <2>3. PICK a \in Nat : a = Len(inbox)
    BY DEF EthInv, EthTyped
  <2>4. Len(inbox') = 0
    BY <1>1
  <2>5. o + Len(inbox') <= R
    BY <2>2, <2>3, <2>4
  <2> QED BY <1>1, <2>1, <2>2, <2>5 DEF Owed
<1>4. ASSUME ~ethmissed' PROVE InStepSoFar'
  <2>1. InStepSoFar
    BY <1>1, <1>4 DEF EthInv
  <2>2. Paired(ethcall, wire, inbox, issued)'
    BY <1>1, <2>1 DEF InStepSoFar, Paired
  <2> QED BY <1>1, <2>1, <2>2 DEF InStepSoFar
<1>5. Queued(wqueue, asked)' /\ Follows(queue, queue_buff_size)'
  BY <1>1 DEF EthInv
<1> QED BY <1>2, <1>3, <1>4, <1>5 DEF EthInv

LEMMA LoadInv == ASSUME EthInv, Eth!Load PROVE EthInv'
<1>1. /\ comm_active' = TRUE /\ inbox' = <<>> /\ queue' = <<>> /\ queue_buff_size' = 0
      /\ wqueue' = <<>> /\ issued' = regs /\ asked' = [a \in Eth!Regs |-> <<>>] /\ wire = <<>>
      /\ UNCHANGED <<regs, wire, ethcall, stale, ethmissed>>
  BY DEF Eth!Load
<1>2. regs \in Memory /\ inbox \in Seq(Seq(Vals))
  BY DEF EthInv, EthTyped
<1>3. EthTyped'
  <2>1. asked' \in [Eth!Regs -> {<<>>} \cup {<<v>> : v \in Vals}]
    BY <1>1
  <2>2. /\ inbox' \in Seq(Seq(Vals)) /\ queue' \in Seq(Cmd) /\ wqueue' \in Seq(Eth!Writes)
        /\ Len(queue') + Len(wqueue') <= MaxQueue
    BY <1>1, BoundsAssumption
  <2> QED BY <1>1, <2>1, <2>2 DEF EthInv, EthTyped
<1>4. Follows(queue, queue_buff_size)' /\ Queued(wqueue, asked)'
  BY <1>1, FollowsNone, NothingQueued
<1>5. Owed(wire, inbox, ethcall)'
  BY <1>1, OwesNone, BoundsAssumption DEF Owed
<1>6. ASSUME ~ethmissed' PROVE InStepSoFar'
  <2>1. InStepSoFar
    BY <1>1, <1>6 DEF EthInv
  <2>2. Leads(regs, wire, issued)'
    BY <1>1, <1>2, LeadsNowhere
  <2>3. Paired(ethcall, wire, inbox, issued)'
    BY <1>1 DEF Paired
  <2> QED BY <1>1, <2>1, <2>2, <2>3 DEF InStepSoFar
<1> QED BY <1>3, <1>4, <1>5, <1>6 DEF EthInv

-----------------------------------------------------------------------------
(***************************************************************************)
(* The packet at the head of the wire reaches the board, or does not.      *)
(***************************************************************************)
LEMMA ReplyTyped ==
  ASSUME NEW r \in Memory, NEW cmds \in Seq(Cmd), cmds # <<>>
  PROVE  Reply(r, cmds) \in Seq(Vals)
<1>1. PICK N \in Nat : N = Len(cmds) /\ N # 0
  OBVIOUS
<1>2. PICK ss \in Seq(Seq(Vals)) : ss = Parts(r, cmds) /\ Len(ss) = N
  BY <1>1, PartsTyped
<1>3. PICK f : Joins(f, ss) /\ Eth!FlattenSeq(ss) = f[N]
  BY <1>1, <1>2, FlattenRun
<1>4. f[N] \in Seq(Vals)
  BY <1>1, <1>2, <1>3 DEF Joins
<1> QED BY <1>2, <1>3, <1>4 DEF Reply

LEMMA PairedOff ==
  ASSUME NEW c, NEW w \in Seq(Packets), w # <<>>, NEW in, NEW m, Paired(c, w, in, m)
  PROVE  /\ in = <<>> /\ Paired(c, Tail(w), in, m)
         /\ Head(w).op = "read" => c # <<>> /\ Head(w).cmds = c[1].cmds /\ Tail(w) = <<>>
<1>1. PICK l \in Nat : l + 1 = Len(w)
  <2>1. Len(w) \in Nat /\ Len(w) # 0
    OBVIOUS
  <2>2. Len(w) - 1 \in Nat /\ (Len(w) - 1) + 1 = Len(w)
    BY <2>1
  <2> QED BY <2>2
<1>2. PICK v \in Seq(Packets) : v = Tail(w) /\ Len(v) = l /\ \A k \in 1 .. l : v[k] = w[k + 1]
  <2>1. \E v \in Seq(Packets) : /\ v = Tail(w) /\ Len(v) = Len(w) - 1
                                /\ \A k \in 1 .. Len(v) : v[k] = w[k + 1]
    BY Shorter, Zenon
  <2> QED BY <1>1, <2>1
<1>3. in = <<>>
  BY DEF Paired
<1>4. Paired(c, v, in, m)
  <2>1. CASE c = <<>>
    <3>1. \A k \in 1 .. l + 1 : w[k].op = "write"
      BY <1>1, <2>1 DEF Paired
    <3>2. \A k \in 1 .. l : v[k].op = "write"
      BY <1>2, <3>1
    <3> QED BY <1>2, <1>3, <2>1, <3>2 DEF Paired
  <2>2. CASE c # <<>>
    <3>1. \A k \in 1 .. l + 1 : w[k].op = "read" => k = l + 1 /\ w[k].cmds = c[1].cmds
      BY <1>1, <2>2 DEF Paired
    <3>2. \A k \in 1 .. l : v[k].op = "read" => k = l /\ v[k].cmds = c[1].cmds
      BY <1>2, <3>1
    <3> QED BY <1>2, <1>3, <2>2, <3>2 DEF Paired
  <2> QED BY <2>1, <2>2
<1>5. ASSUME Head(w).op = "read"
      PROVE  c # <<>> /\ Head(w).cmds = c[1].cmds /\ Tail(w) = <<>>
  <2>1. Head(w) = w[1] /\ 1 \in 1 .. l + 1
    OBVIOUS
  <2>2. c # <<>>
    BY <1>1, <1>5, <2>1 DEF Paired
  <2>3. 1 = l + 1 /\ w[1].cmds = c[1].cmds
    BY <1>1, <1>5, <2>1, <2>2 DEF Paired
  <2>4. v = <<>>
    BY <1>2, <2>3
  <2> QED BY <1>2, <2>1, <2>2, <2>3, <2>4
<1> QED BY <1>2, <1>3, <1>4, <1>5

\* What a packet that leaves the wire does not change.
LEMMA WireOff ==
  ASSUME EthInv, wire # <<>>, wire' = Tail(wire), regs' \in Memory, ethmissed' \in BOOLEAN,
         inbox' \in Seq(Seq(Vals)), Len(inbox') <= Len(inbox) + Asks(Head(wire)),
         UNCHANGED <<comm_active, queue, queue_buff_size, wqueue, ethcall, issued, asked, stale>>
  PROVE  /\ EthTyped' /\ Follows(queue, queue_buff_size)' /\ Queued(wqueue, asked)'
         /\ Owed(wire, inbox, ethcall)'
<1>1. wire \in Seq(Packets)
  BY DEF EthInv, EthTyped
<1>2. wire' \in Seq(Packets) /\ Len(wire') <= MaxWire
  <2>1. PICK l \in Nat : l = Len(wire) /\ l <= MaxWire
    BY DEF EthInv, EthTyped
  <2>2. wire' \in Seq(Packets) /\ Len(wire') = l - 1
    BY <1>1, <2>1
  <2> QED BY <2>1, <2>2, BoundsAssumption
<1>3. EthTyped'
  BY <1>2 DEF EthInv, EthTyped
<1>4. Owed(wire, inbox, ethcall)'
  <2>1. PICK R \in Int : R = IF ethcall = <<>> THEN MaxWire ELSE MaxWire + 1
    BY BoundsAssumption
  <2>2. PICK o \in Int : Owes(wire, o) /\ o + Len(inbox) <= R
    BY <2>1 DEF EthInv, Owed
  <2>3. PICK q \in Int : q = Asks(Head(wire))
    BY DEF Asks
  <2>4. Owes(wire', o - q)
    BY <1>1, <2>2, <2>3, OwesOff
  <2>5. PICK a \in Nat, b \in Nat : a = Len(inbox) /\ b = Len(inbox')
    BY DEF EthInv, EthTyped
  <2>6. (o - q) + Len(inbox') <= R /\ o - q \in Int
    <3>1. b <= a + q /\ o + a <= R
      BY <2>2, <2>3, <2>5
    <3>2. (o - q) + b <= R /\ o - q \in Int
      BY <3>1
    <3> QED BY <2>5, <3>2
  <2> QED BY <2>1, <2>4, <2>6 DEF Owed
<1> QED BY <1>3, <1>4 DEF EthInv

LEMMA ServeInv == ASSUME EthInv, Eth!Serve PROVE EthInv'
<1>1. PICK p \in Packets : p = Head(wire)
  <2>1. wire \in Seq(Packets) /\ wire # <<>>
    BY DEF EthInv, EthTyped, Eth!Serve
  <2>2. Head(wire) \in Packets
    BY <2>1
  <2> QED BY <2>2
<1>2. /\ wire # <<>> /\ wire' = Tail(wire) /\ wire \in Seq(Packets) /\ regs \in Memory
      /\ issued \in Memory /\ inbox \in Seq(Seq(Vals))
      /\ UNCHANGED <<comm_active, queue, queue_buff_size, wqueue, ethcall, issued, asked,
                     stale, ethmissed>>
  BY DEF EthInv, EthTyped, Eth!Serve
<1>3. regs' = Apply(regs, p)
  BY <1>1 DEF Eth!Serve, Apply
<1>4. regs' \in Memory
  BY <1>2, <1>3, ApplyTyped
<1>5. p.op \in {"read", "write"} /\ (p.op = "read" => p.cmds \in Seq(Cmd))
  BY DEF Packets
<1>6. inbox' = IF p.op = "read" /\ p.cmds # <<>> /\ comm_active
               THEN Append(inbox, Reply(regs, p.cmds)) ELSE inbox
  BY <1>1, <1>5 DEF Eth!Serve, Reply, Parts
<1>7. inbox' \in Seq(Seq(Vals)) /\ Len(inbox') <= Len(inbox) + Asks(Head(wire))
  <2>1. PICK a \in Nat : a = Len(inbox)
    BY <1>2
  <2>2. CASE p.op = "read" /\ p.cmds # <<>> /\ comm_active
    <3>1. PICK d \in Seq(Vals) : d = Reply(regs, p.cmds)
      BY <1>2, <1>5, <2>2, ReplyTyped
    <3>2. inbox' = Append(inbox, d)
      BY <1>6, <2>2, <3>1
    <3>3. inbox' \in Seq(Seq(Vals)) /\ Len(inbox') = a + 1
      BY <1>2, <2>1, <3>2
    <3>4. Asks(Head(wire)) = 1
      BY <1>1, <2>2 DEF Asks
    <3> QED BY <2>1, <3>3, <3>4
  <2>3. CASE ~(p.op = "read" /\ p.cmds # <<>> /\ comm_active)
    <3>1. inbox' = inbox
      BY <1>6, <2>3
    <3>2. Asks(Head(wire)) \in {0, 1}
      BY DEF Asks
    <3> QED BY <1>2, <2>1, <3>1, <3>2
  <2> QED BY <2>2, <2>3
<1>8. ethmissed' \in BOOLEAN
  BY <1>2 DEF EthInv, EthTyped
<1>9. /\ EthTyped' /\ Follows(queue, queue_buff_size)' /\ Queued(wqueue, asked)'
      /\ Owed(wire, inbox, ethcall)'
  BY <1>2, <1>4, <1>7, <1>8, WireOff
<1>10. ASSUME ~ethmissed' PROVE InStepSoFar'
  <2>1. InStepSoFar
    BY <1>2, <1>10 DEF EthInv
  <2>2. Leads(regs', wire', issued)
    BY <1>1, <1>2, <1>3, <2>1, LeadsOff DEF InStepSoFar
  <2>3. /\ inbox = <<>> /\ Paired(ethcall, wire', inbox, issued)
        /\ p.op = "read" => ethcall # <<>> /\ p.cmds = ethcall[1].cmds /\ wire' = <<>>
    BY <1>1, <1>2, <2>1, PairedOff DEF InStepSoFar
  <2>4. Paired(ethcall, wire, inbox, issued)'
    <3>1. CASE p.op = "read" /\ p.cmds # <<>> /\ comm_active
      <4>1. ethcall # <<>> /\ p.cmds = ethcall[1].cmds /\ wire' = <<>>
        BY <2>3, <3>1
      <4>2. regs' = regs
        BY <1>3, <3>1 DEF Apply
      <4>3. regs = issued
        BY <1>2, <2>2, <4>1, <4>2, LeadsNowhere
      <4>4. inbox' = <<Reply(issued, ethcall[1].cmds)>>
        BY <1>6, <2>3, <3>1, <4>1, <4>3
      <4>5. Len(wire') = 0
        BY <4>1
      <4>6. ethcall' = ethcall /\ issued' = issued /\ ethcall[1].cmds # <<>>
        BY <1>2, <3>1, <4>1
      <4>7. Paired(ethcall, wire', inbox', issued)
        BY <4>1, <4>4, <4>5, <4>6 DEF Paired
      <4> QED BY <4>6, <4>7
    <3>2. CASE ~(p.op = "read" /\ p.cmds # <<>> /\ comm_active)
      <4>1. inbox' = inbox
        BY <1>6, <3>2
      <4> QED BY <1>2, <2>3, <4>1
    <3> QED BY <3>1, <3>2
  <2> QED BY <1>2, <2>1, <2>2, <2>4 DEF InStepSoFar
<1> QED BY <1>9, <1>10 DEF EthInv

LEMMA LoseRequestInv == ASSUME EthInv, Eth!LoseRequest PROVE EthInv'
<1>1. PICK p \in Packets : p = Head(wire)
  <2>1. wire \in Seq(Packets) /\ wire # <<>>
    BY DEF EthInv, EthTyped, Eth!LoseRequest
  <2>2. Head(wire) \in Packets
    BY <2>1
  <2> QED BY <2>2
<1>2. /\ wire # <<>> /\ wire' = Tail(wire) /\ wire \in Seq(Packets) /\ regs \in Memory
      /\ inbox \in Seq(Seq(Vals)) /\ ethmissed' = (ethmissed \/ p.op = "write")
      /\ UNCHANGED <<comm_active, regs, inbox, queue, queue_buff_size, wqueue, ethcall,
                     issued, asked, stale>>
  BY <1>1 DEF EthInv, EthTyped, Eth!LoseRequest
<1>3. inbox' \in Seq(Seq(Vals)) /\ Len(inbox') <= Len(inbox) + Asks(Head(wire))
  <2>1. PICK a \in Nat : a = Len(inbox)
    BY <1>2
  <2>2. Asks(Head(wire)) \in {0, 1}
    BY DEF Asks
  <2> QED BY <1>2, <2>1, <2>2
<1>4. ethmissed' \in BOOLEAN /\ regs' \in Memory
  BY <1>2
<1>5. /\ EthTyped' /\ Follows(queue, queue_buff_size)' /\ Queued(wqueue, asked)'
      /\ Owed(wire, inbox, ethcall)'
  BY <1>2, <1>3, <1>4, WireOff
<1>6. ASSUME ~ethmissed' PROVE InStepSoFar'
  <2>1. InStepSoFar /\ p.op # "write"
    BY <1>2, <1>6 DEF EthInv
  <2>2. Apply(regs, p) = regs
    BY <2>1 DEF Apply
  <2>3. Leads(regs', wire', issued)
    BY <1>1, <1>2, <2>1, <2>2, LeadsOff DEF InStepSoFar
  <2>4. Paired(ethcall, wire', inbox, issued)
    BY <1>2, <2>1, PairedOff DEF InStepSoFar
  <2> QED BY <1>2, <2>1, <2>3, <2>4 DEF InStepSoFar
<1> QED BY <1>5, <1>6 DEF EthInv

LEMMA LoseReplyInv == ASSUME EthInv, Eth!LoseReply PROVE EthInv'
<1>1. /\ inbox # <<>> /\ inbox' = Tail(inbox) /\ inbox \in Seq(Seq(Vals))
      /\ UNCHANGED <<comm_active, regs, wire, queue, queue_buff_size, wqueue, ethcall,
                     issued, asked, stale, ethmissed>>
  BY DEF EthInv, EthTyped, Eth!LoseReply
<1>2. PICK a \in Nat, b \in Nat :
        a = Len(inbox) /\ b = Len(inbox') /\ b <= a /\ inbox' \in Seq(Seq(Vals))
  <2>1. Len(inbox) \in Nat /\ Len(inbox) # 0
    BY <1>1
  <2>2. Len(inbox') = Len(inbox) - 1 /\ inbox' \in Seq(Seq(Vals))
    BY <1>1
  <2> QED BY <2>1, <2>2
<1>3. EthTyped'
  BY <1>1, <1>2 DEF EthInv, EthTyped
<1>4. Owed(wire, inbox, ethcall)'
  <2>1. PICK R \in Int : R = IF ethcall = <<>> THEN MaxWire ELSE MaxWire + 1
    BY BoundsAssumption
  <2>2. PICK o \in Int : Owes(wire, o) /\ o + Len(inbox) <= R
    BY <2>1 DEF EthInv, Owed
  <2>3. o + b <= R
    BY <1>2, <2>2
  <2> QED BY <1>1, <1>2, <2>1, <2>2, <2>3 DEF Owed
<1>5. ASSUME ~ethmissed' PROVE InStepSoFar'
  <2>1. InStepSoFar
    BY <1>1, <1>5 DEF EthInv
  <2>2. Paired(ethcall, wire, inbox, issued)'
    <3>1. ethcall # <<>> /\ wire = <<>> /\ inbox = <<Reply(issued, ethcall[1].cmds)>>
      BY <1>1, <2>1 DEF InStepSoFar, Paired
    <3>2. inbox' = <<>> /\ Len(wire') = 0
      BY <1>1, <3>1
    <3> QED BY <1>1, <3>1, <3>2 DEF Paired
  <2> QED BY <1>1, <2>1, <2>2 DEF InStepSoFar
<1>6. Queued(wqueue, asked)' /\ Follows(queue, queue_buff_size)'
  BY <1>1 DEF EthInv
<1> QED BY <1>3, <1>4, <1>5, <1>6 DEF EthInv

LEMMA EthStep == EthInv /\ [Eth!Next]_ethVars => EthInv'
<1> SUFFICES ASSUME EthInv, [Eth!Next]_ethVars PROVE EthInv'
  OBVIOUS
<1>1. CASE UNCHANGED ethVars
  BY <1>1 DEF ethVars, EthInv, EthTyped, InStepSoFar
<1>2. CASE \E c \in Eth!Reads : Eth!Read(c) \/ Eth!EnqueueRead(c)
  BY <1>2, ReadInv, EnqueueReadInv
<1>3. CASE \E w \in Eth!Writes : Eth!Write(w) \/ Eth!EnqueueWrite(w)
  BY <1>3, WriteInv, EnqueueWriteInv
<1>4. CASE Eth!FlushReads \/ Eth!Answer \/ Eth!Timeout \/ Eth!ReadClosed \/ Eth!FlushWrites \/ Eth!Exit
           \/ Eth!Load \/ Eth!Serve \/ Eth!LoseRequest \/ Eth!LoseReply
  BY <1>4, FlushReadsInv, AnswerInv, TimeoutInv, ReadClosedInv, FlushWritesInv, ExitInv, LoadInv,
     ServeInv, LoseRequestInv, LoseReplyInv
<1> QED BY <1>1, <1>2, <1>3, <1>4 DEF Eth!Next

-----------------------------------------------------------------------------
LEMMA CmdsTyped ==
  ASSUME NEW cmds \in Seq(Cmd), NEW n \in Nat, Follows(cmds, n), Len(cmds) <= MaxQueue
  PROVE  cmds \in Eth!Cmds /\ n \in 0 .. MaxQueue * Words
<1>1. PICK l \in 0 .. MaxQueue : l = Len(cmds)
  BY BoundsAssumption
<1>2. \A k \in 1 .. l : cmds[k] \in Cmd /\ cmds[k].from \in 0 .. MaxQueue * Words
  BY <1>1, OffsetsBound
<1>3. \A k \in 1 .. l : cmds[k] \in [addr : Eth!Regs, size : 1 .. Words, from : 0 .. MaxQueue * Words]
  BY <1>2 DEF Cmd
<1>4. cmds \in [1 .. l -> [addr : Eth!Regs, size : 1 .. Words, from : 0 .. MaxQueue * Words]]
  <2>1. cmds = [k \in 1 .. l |-> cmds[k]]
    BY <1>1
  <2> QED BY <1>3, <2>1
<1>5. n \in 0 .. MaxQueue * Words
  BY OffsetsBound
<1> QED BY <1>4, <1>5 DEF Eth!Cmds

LEMMA EthInvHolds == EthInv => Eth!TypeOK /\ CurrentUntilTimeout /\ WritesApplied
<1> SUFFICES ASSUME EthInv PROVE Eth!TypeOK /\ CurrentUntilTimeout /\ WritesApplied
  OBVIOUS
<1>1. Eth!TypeOK
  <2>1. /\ queue \in Seq(Cmd) /\ queue_buff_size \in Nat /\ Follows(queue, queue_buff_size)
        /\ wqueue \in Seq(Eth!Writes) /\ wire \in Seq(Packets) /\ inbox \in Seq(Seq(Vals))
        /\ Len(queue) + Len(wqueue) <= MaxQueue
    BY DEF EthInv, EthTyped
  <2>2. Len(queue) <= MaxQueue
    <3>1. PICK a \in Nat, b \in Nat : a = Len(queue) /\ b = Len(wqueue) /\ a + b <= MaxQueue
      BY <2>1
    <3> QED BY <3>1, BoundsAssumption
  <2>3. queue \in Eth!Cmds /\ queue_buff_size \in 0 .. MaxQueue * Words
    BY <2>1, <2>2, CmdsTyped
  <2>4. ASSUME ethcall # <<>> PROVE ethcall[1].cmds \in Eth!Cmds
    <3>1. PICK c \in ReadCalls : ethcall = <<c>>
      BY <2>4 DEF EthInv, EthTyped
    <3>2. c.cmds \in Seq(Cmd) /\ c.size \in Nat /\ Follows(c.cmds, c.size) /\ Len(c.cmds) <= MaxQueue
      BY DEF ReadCalls
    <3>3. c.cmds \in Eth!Cmds
      BY <3>2, CmdsTyped
    <3> QED BY <3>1, <3>3
  <2>5. Len(inbox) <= MaxWire + 1
    <3>1. PICK o \in Int : Owes(wire, o) /\ o + Len(inbox) <= MaxWire + 1
      BY BoundsAssumption DEF EthInv, EthTyped, Owed
    <3>2. PICK a \in Nat : a = Len(inbox)
      BY <2>1
    <3>3. o \in 0 .. Len(wire)
      BY <2>1, <3>1, OwesBound
    <3>4. o >= 0
      BY <2>1, <3>3
    <3> QED BY <3>1, <3>2, <3>4, BoundsAssumption
  <2>6. \A k \in 1 .. Len(wqueue) : wqueue[k] \in Eth!Writes
    BY <2>1
  <2>7. /\ comm_active \in BOOLEAN /\ ethmissed \in BOOLEAN
        /\ stale \subseteq {"read", "flush", "closed"}
        /\ regs \in [Eth!Regs -> Vals] /\ issued \in [Eth!Regs -> Vals] /\ Len(wire) <= MaxWire
    BY DEF EthInv, EthTyped, Memory
  <2> QED BY <2>3, <2>4, <2>5, <2>6, <2>7 DEF Eth!TypeOK
<1>2. CurrentUntilTimeout
  BY DEF CurrentUntilTimeout, Eth!CurrentUntilTimeout, EthInv, InStepSoFar
<1>3. WritesApplied
  <2> SUFFICES ASSUME ~ethmissed, wire = <<>> PROVE regs = issued
    BY DEF WritesApplied, Eth!WritesApplied
  <2>1. regs \in Memory /\ Leads(regs, <<>>, issued)
    BY DEF EthInv, EthTyped, InStepSoFar
  <2> QED BY <2>1, LeadsNowhere
<1> QED BY <1>1, <1>2, <1>3

LEMMA EthAlways == IOSpec => []EthInv
<1>1. IOInit => EthInv
  BY EthInit DEF IOInit
<1>2. EthInv /\ [IONext]_<<loadedDriver, vars, ethVars, testVars>> => EthInv'
  <2> SUFFICES ASSUME EthInv, [IONext]_<<loadedDriver, vars, ethVars, testVars>> PROVE EthInv'
    OBVIOUS
  <2>1. [Eth!Next]_ethVars
    BY DEF IONext
  <2> QED BY <2>1, EthStep
<1> QED BY <1>1, <1>2, PTL DEF IOSpec

(***************************************************************************)
(* A read or a flush that says success filled the buffers with what the    *)
(* registers hold, for any number of words, queued commands and packets    *)
(* under way, until a poll times out or a write is lost.                   *)
(***************************************************************************)
THEOREM CurrentUntilTimeoutAlways == IOSpec => []CurrentUntilTimeout
  BY EthAlways, EthInvHolds, PTL

(***************************************************************************)
(* Once all that was sent has arrived the board holds what the host wrote, *)
(* in the order in which it wrote it.                                      *)
(***************************************************************************)
THEOREM WritesAppliedAlways == IOSpec => []WritesApplied
  BY EthAlways, EthInvHolds, PTL

(***************************************************************************)
(* The parallel port's boards are those of EppBoards, whichever driver is  *)
(* loaded, and with them the variables of the whole are well typed.        *)
(***************************************************************************)
LEMMA EppImplemented == IOSpec => Spec
<1>1. IOInit => Init
  BY DEF IOInit
<1>2. [IONext]_<<loadedDriver, vars, ethVars, testVars>> => [Next]_vars
  BY DEF IONext
<1> QED BY <1>1, <1>2, PTL DEF IOSpec, Spec

THEOREM IOTyped == IOSpec => []IOTypeOK
<1>1. PortInv /\ BoardsInv => TypeOK
  BY DEF PortInv, BoardsInv, BoardsTyped, Driven, TypeOK
<1>2. Eth!TypeOK /\ TypeOK => IOTypeOK
  BY DEF IOTypeOK
<1> QED BY <1>1, <1>2, EthAlways, EthInvHolds, EppImplemented, PortAlways, BoardsAlways, PTL

-----------------------------------------------------------------------------
(***************************************************************************)
(* The test patterns.  What a read returns of an image that is filled one  *)
(* address after the other.  SMT alone takes the leaves, for the other     *)
(* prover counts numbers like these in unary.                              *)
(***************************************************************************)
At(img, a) == IF a \in DOMAIN img THEN img[a] ELSE 0

LEMMA SetIs ==
  ASSUME NEW img, NEW a, NEW v, NEW b
  PROVE  /\ b = a => At(set32(img, a, v), b) = v
         /\ b # a => At(set32(img, a, v), b) = At(img, b)
         /\ b \in DOMAIN set32(img, a, v) <=> b = a \/ b \in DOMAIN img
  BY SMT DEF set32, At

LEMMA CookieIs ==
  ASSUME NEW b
  PROVE  /\ b = HM2_ADDR_IOCOOKIE => At(Cookie, b) = HM2_IOCOOKIE
         /\ b # HM2_ADDR_IOCOOKIE => At(Cookie, b) = 0
         /\ b \in DOMAIN Cookie <=> b = HM2_ADDR_IOCOOKIE
<1>1. At(<<>>, b) = 0 /\ b \notin DOMAIN <<>>
  BY SMT DEF At
<1> QED BY SMT, <1>1, SetIs DEF Cookie

LEMMA IdentifiedIs ==
  ASSUME NEW b
  PROVE  /\ b = HM2_ADDR_IOCOOKIE => At(Identified, b) = HM2_IOCOOKIE
         /\ b \notin {HM2_ADDR_IOCOOKIE, HM2_ADDR_CONFIGNAME} => At(Identified, b) = 0
         /\ HM2_ADDR_CONFIGNAME \in DOMAIN Identified
<1>1. b # HM2_ADDR_CONFIGNAME => At(Identified, b) = At(Cookie, b)
  BY SMT, SetIs DEF Identified
<1>2. HM2_ADDR_CONFIGNAME \in DOMAIN Identified
  BY SMT, SetIs DEF Identified
<1> QED BY SMT, <1>1, <1>2, CookieIs DEF HM2_ADDR_IOCOOKIE, HM2_ADDR_CONFIGNAME

\* An image with a cookie, a name, and the ID ROM at \h400.
Found(img) ==
  /\ At(img, HM2_ADDR_IOCOOKIE) = HM2_IOCOOKIE
  /\ HM2_ADDR_CONFIGNAME \in DOMAIN img
  /\ At(img, HM2_ADDR_IDROM_OFFSET) = \h400

LEMMA LocatedIs ==
  Found(Located) /\ \A b \in Nat : b >= \h400 => At(Located, b) = 0
<1>1. ASSUME NEW b
      PROVE  /\ b = HM2_ADDR_IDROM_OFFSET => At(Located, b) = \h400
             /\ b # HM2_ADDR_IDROM_OFFSET => At(Located, b) = At(Identified, b)
  BY SMT, SetIs DEF Located
<1>2. HM2_ADDR_CONFIGNAME \in DOMAIN Located
  BY SMT, SetIs, IdentifiedIs DEF Located
<1>3. At(Located, HM2_ADDR_IOCOOKIE) = HM2_IOCOOKIE
  BY SMT, <1>1, IdentifiedIs DEF HM2_ADDR_IOCOOKIE, HM2_ADDR_IDROM_OFFSET
<1>4. ASSUME NEW b \in Nat, b >= \h400 PROVE At(Located, b) = 0
  BY SMT, <1>1, <1>4, IdentifiedIs
     DEF HM2_ADDR_IOCOOKIE, HM2_ADDR_CONFIGNAME, HM2_ADDR_IDROM_OFFSET
<1> QED BY SMT, <1>1, <1>2, <1>3, <1>4 DEF Found

\* Setting a word of the ID ROM leaves what is before it alone.
LEMMA StillFound ==
  ASSUME NEW img, Found(img), NEW a \in Nat, a >= \h400, NEW v
  PROVE  Found(set32(img, a, v))
  BY SMT, SetIs DEF Found, HM2_ADDR_IOCOOKIE, HM2_ADDR_CONFIGNAME, HM2_ADDR_IDROM_OFFSET

LEMMA TypedIs ==
  /\ Found(Typed) /\ At(Typed, \h400) = 2
  /\ \A b \in Nat : b > \h400 => At(Typed, b) = 0
<1>1. ASSUME NEW b
      PROVE  /\ b = \h400 => At(Typed, b) = 2
             /\ b # \h400 => At(Typed, b) = At(Located, b)
  BY SMT, SetIs DEF Typed
<1>2. Found(Typed)
  BY SMT, LocatedIs, StillFound DEF Typed
<1>3. ASSUME NEW b \in Nat, b > \h400 PROVE At(Typed, b) = 0
  BY SMT, <1>1, <1>3, LocatedIs
<1> QED BY SMT, <1>1, <1>2, <1>3

LEMMA WithPortsIs ==
  ASSUME NEW n, NEW width, NEW portwidth
  PROVE  LET img == WithPorts(n, width, portwidth)
         IN  /\ Found(img) /\ At(img, \h400) = 2
             /\ At(img, \h41C) = n /\ At(img, \h420) = width /\ At(img, \h424) = portwidth
             /\ \A b \in Nat : b > \h424 => At(img, b) = 0
<1> DEFINE one == set32(Typed, \h41C, n)
           two == set32(one, \h420, width)
           img == WithPorts(n, width, portwidth)
<1>0. img = set32(two, \h424, portwidth)
  BY SMT DEF WithPorts
<1>1. /\ Found(one) /\ At(one, \h400) = 2 /\ At(one, \h41C) = n
      /\ \A b \in Nat : b > \h41C => At(one, b) = 0
  <2>1. Found(one)
    BY SMT, TypedIs, StillFound
  <2> QED BY SMT, <2>1, TypedIs, SetIs
<1> HIDE DEF one
<1>2. /\ Found(two) /\ At(two, \h400) = 2 /\ At(two, \h41C) = n /\ At(two, \h420) = width
      /\ \A b \in Nat : b > \h420 => At(two, b) = 0
  <2>1. Found(two)
    BY SMT, <1>1, StillFound
  <2> QED BY SMT, <1>1, <2>1, SetIs
<1> HIDE DEF two
<1>3. Found(img)
  BY SMT, <1>0, <1>2, StillFound
<1> QED BY SMT, <1>0, <1>2, <1>3, SetIs

LEMMA WithClocksIs ==
  ASSUME NEW old, Found(old), NEW low, NEW high
  PROVE  LET img == WithClocks(old, low, high)
         IN  /\ Found(img) /\ At(img, \h428) = low /\ At(img, \h42C) = high
             /\ \A b \in Nat : b \notin {\h428, \h42C} => At(img, b) = At(old, b)
<1> DEFINE one == set32(old, \h428, low)
           img == WithClocks(old, low, high)
<1>0. img = set32(one, \h42C, high)
  BY SMT DEF WithClocks
<1>1. Found(one)
  BY SMT, StillFound
<1>2. At(one, \h428) = low /\ \A b \in Nat : b # \h428 => At(one, b) = At(old, b)
  BY SMT, SetIs
<1> HIDE DEF one
<1>3. Found(img)
  BY SMT, <1>0, <1>1, StillFound
<1> QED BY SMT, <1>0, <1>2, <1>3, SetIs

LEMMA WithOffsetsIs ==
  ASSUME NEW old, Found(old), NEW modules, NEW pins
  PROVE  LET img == WithOffsets(old, modules, pins)
         IN  /\ Found(img) /\ At(img, \h404) = modules /\ At(img, \h408) = pins
             /\ \A b \in Nat : b \notin {\h404, \h408} => At(img, b) = At(old, b)
<1> DEFINE one == set32(old, \h404, modules)
           img == WithOffsets(old, modules, pins)
<1>0. img = set32(one, \h408, pins)
  BY SMT DEF WithOffsets
<1>1. Found(one)
  BY SMT, StillFound
<1>2. At(one, \h404) = modules /\ \A b \in Nat : b # \h404 => At(one, b) = At(old, b)
  BY SMT, SetIs
<1> HIDE DEF one
<1>3. Found(img)
  BY SMT, <1>0, <1>1, StillFound
<1> QED BY SMT, <1>0, <1>2, <1>3, SetIs

LEMMA WithPinsIs ==
  ASSUME NEW old, Found(old), NEW n \in Nat
  PROVE  LET img == WithPins(old, n)
         IN  /\ Found(img) /\ \A a \in PinsAt(n) : At(img, a) = HM2_GTAG_IOPORT
             /\ \A b \in Nat : b < \h600 => At(img, b) = At(old, b)
<1> DEFINE img == WithPins(old, n)
<1>1. DOMAIN img = DOMAIN old \cup PinsAt(n)
  BY SMT DEF WithPins
<1>2. \A a \in DOMAIN img : img[a] = IF a \in PinsAt(n) THEN HM2_GTAG_IOPORT ELSE old[a]
  BY SMT DEF WithPins
<1> HIDE DEF img
<1>3. ASSUME NEW a \in PinsAt(n) PROVE At(img, a) = HM2_GTAG_IOPORT
  BY SMT, <1>1, <1>2 DEF At
<1>4. ASSUME NEW b \in Nat, b < \h600 PROVE At(img, b) = At(old, b)
  <2>1. b \notin PinsAt(n)
    BY SMT, <1>4 DEF PinsAt
  <2> QED BY SMT, <1>1, <1>2, <2>1 DEF At
<1>5. Found(img)
  <2>1. At(img, HM2_ADDR_IOCOOKIE) = At(old, HM2_ADDR_IOCOOKIE)
        /\ At(img, HM2_ADDR_IDROM_OFFSET) = At(old, HM2_ADDR_IDROM_OFFSET)
    BY SMT, <1>4 DEF HM2_ADDR_IOCOOKIE, HM2_ADDR_IDROM_OFFSET
  <2> QED BY SMT, <1>1, <2>1 DEF Found
<1> QED BY SMT, <1>3, <1>4, <1>5 DEF img

-----------------------------------------------------------------------------
\* Good, check by check.
LEMMA GoodIs ==
  /\ check = 1 => (Good <=> At(image, HM2_ADDR_IOCOOKIE) = HM2_IOCOOKIE)
  /\ check = 2 => (Good <=> HM2_ADDR_CONFIGNAME \in DOMAIN image)
  /\ check = 3 => (Good <=> IDROM(0) = 2)
  /\ check = 4 => (Good <=> IDROM(\h24) = pins_per_connector)
  /\ check = 5 => (Good <=> IDROM(\h20) = IDROM(\h1C) * IDROM(\h24))
  /\ check = 6 => (Good <=> IDROM(\h1C) = num_ioport_connectors)
  /\ check = 7 => (Good <=> IDROM(\h28) >= 1000000)
  /\ check = 8 => (Good <=> IDROM(\h2C) >= 1000000)
  /\ check = 9 => (Good <=>
       \A k \in 0 .. IDROM(\h20) - 1 : IDROM(IDROM(8) + 4 * k) = HM2_GTAG_IOPORT)
  /\ check = 10 => (Good <=> \E k \in 0 .. 31 : IDROM(IDROM(4) + 12 * k) = HM2_GTAG_IOPORT)
<1>1. CASE check = 1
  BY SMT, <1>1 DEF Good, Checks, hm2_test_read, At
<1>2. CASE check = 2
  BY SMT, <1>2 DEF Good, Checks
<1>3. CASE check = 3
  BY SMT, <1>3 DEF Good, Checks
<1>4. CASE check = 4
  BY SMT, <1>4 DEF Good, Checks
<1>5. CASE check = 5
  BY SMT, <1>5 DEF Good, Checks
<1>6. CASE check = 6
  BY SMT, <1>6 DEF Good, Checks
<1>7. CASE check = 7
  BY SMT, <1>7 DEF Good, Checks
<1>8. CASE check = 8
  BY SMT, <1>8 DEF Good, Checks
<1>9. CASE check = 9
  BY SMT, <1>9 DEF Good, Checks
<1>10. CASE check = 10
  BY SMT, <1>10 DEF Good, Checks
<1> QED BY SMT, <1>1, <1>2, <1>3, <1>4, <1>5, <1>6, <1>7, <1>8, <1>9, <1>10

\* The same for an image whose ID ROM is found at \h400.
LEMMA IdromIs ==
  ASSUME Found(image), NEW o
  PROVE  IDROM(o) = At(image, \h400 + o)
  BY SMT DEF Found, IDROM, hm2_test_read, At

LEMMA FoundIs ==
  ASSUME Found(image)
  PROVE  /\ check \in {1, 2} => Good
         /\ check = 3 => (Good <=> At(image, \h400) = 2)
         /\ check = 4 => (Good <=> At(image, \h424) = pins_per_connector)
         /\ check = 5 => (Good <=> At(image, \h420) = At(image, \h41C) * At(image, \h424))
         /\ check = 6 => (Good <=> At(image, \h41C) = num_ioport_connectors)
         /\ check = 7 => (Good <=> At(image, \h428) >= 1000000)
         /\ check = 8 => (Good <=> At(image, \h42C) >= 1000000)
<1>1. /\ IDROM(0) = At(image, \h400) /\ IDROM(\h24) = At(image, \h424)
      /\ IDROM(\h20) = At(image, \h420) /\ IDROM(\h1C) = At(image, \h41C)
      /\ IDROM(\h28) = At(image, \h428) /\ IDROM(\h2C) = At(image, \h42C)
  BY SMT, IdromIs
<1>2. check \in {1, 2} => Good
  BY SMT, GoodIs DEF Found
<1> QED BY SMT, <1>1, <1>2, GoodIs

\* Where in Checks the thing is that is wrong with a pattern.
Limit(n) ==
  CASE n = 0 -> 1 [] n = 1 -> 2 [] n \in {2, 3} -> 3 [] n \in {4, 5, 13} -> 4 [] n = 7 -> 5
    [] n \in {6, 8, 14} -> 6 [] n = 9 -> 7 [] n = 10 -> 8 [] n = 11 -> 9 [] n = 12 -> 10

\* The board of pattern n is in place.
Shown(n) ==
  /\ image = Pattern(n)
  /\ num_ioport_connectors = IF n = 11 THEN 6 ELSE 1
  /\ pins_per_connector = CASE n = 13 -> 5 [] n = 14 -> 37 [] OTHER -> 24

\* Patterns without a good ID ROM.
LEMMA BareGood ==
  ASSUME NEW n \in 0 .. 3, Shown(n), check \in 1 .. Limit(n)
  PROVE  Good <=> check < Limit(n)
<1>0. image = Bare(n)
  BY SMT DEF Shown, Pattern
<1>1. CASE n = 0
  <2>1. image = <<>> /\ check = 1 /\ Limit(n) = 1
    BY SMT, <1>0, <1>1 DEF Bare, Limit
  <2>2. At(image, HM2_ADDR_IOCOOKIE) = 0
    BY SMT, <2>1 DEF At
  <2>3. HM2_IOCOOKIE # 0
    BY SMT DEF HM2_IOCOOKIE
  <2> QED BY SMT, <2>1, <2>2, <2>3, GoodIs
<1>2. CASE n = 1
  <2>1. image = Cookie /\ check \in {1, 2} /\ Limit(n) = 2
    BY SMT, <1>0, <1>2 DEF Bare, Limit
  <2>2. At(image, HM2_ADDR_IOCOOKIE) = HM2_IOCOOKIE /\ HM2_ADDR_CONFIGNAME \notin DOMAIN image
    BY SMT, <2>1, CookieIs DEF HM2_ADDR_CONFIGNAME, HM2_ADDR_IOCOOKIE
  <2> QED BY SMT, <2>1, <2>2, GoodIs
<1>3. CASE n = 2
  <2>1. image = Identified /\ check \in 1 .. 3 /\ Limit(n) = 3
    BY SMT, <1>0, <1>3 DEF Bare, Limit
  <2>2. At(image, HM2_ADDR_IOCOOKIE) = HM2_IOCOOKIE /\ HM2_ADDR_CONFIGNAME \in DOMAIN image
    BY SMT, <2>1, IdentifiedIs
  <2>3. At(image, HM2_ADDR_IDROM_OFFSET) = 0 /\ At(image, 0) = 0
    BY SMT, <2>1, IdentifiedIs
       DEF HM2_ADDR_CONFIGNAME, HM2_ADDR_IOCOOKIE, HM2_ADDR_IDROM_OFFSET
  <2>4. IDROM(0) = 0
    BY SMT, <2>3 DEF IDROM, hm2_test_read, At
  <2> QED BY SMT, <2>1, <2>2, <2>4, GoodIs
<1>4. CASE n = 3
  <2>1. image = set32(Located, \h400, \h1234) /\ check \in 1 .. 3 /\ Limit(n) = 3
    BY SMT, <1>0, <1>4 DEF Bare, Limit
  <2>2. Found(image) /\ At(image, \h400) = \h1234
    BY SMT, <2>1, LocatedIs, StillFound, SetIs
  <2> QED BY SMT, <2>1, <2>2, FoundIs
<1> QED BY SMT, <1>1, <1>2, <1>3, <1>4

\* Patterns with nothing but a port width, or not even that.
LEMMA WidthsGood ==
  ASSUME NEW n \in {4, 5, 6, 13, 14}, Shown(n), check \in 1 .. Limit(n)
  PROVE  Good <=> check < Limit(n)
<1>1. Found(Typed) /\ At(Typed, \h400) = 2 /\ At(Typed, \h41C) = 0 /\ At(Typed, \h420) = 0
      /\ At(Typed, \h424) = 0
  BY SMT, TypedIs
<1>2. ASSUME NEW w
      PROVE  LET img == set32(Typed, \h424, w)
             IN  /\ Found(img) /\ At(img, \h400) = 2
                 /\ At(img, \h41C) = 0 /\ At(img, \h420) = 0 /\ At(img, \h424) = w
  BY SMT, <1>1, StillFound, SetIs
<1>3. CASE n = 4
  <2>1. image = Typed /\ pins_per_connector = 24 /\ check \in 1 .. 4 /\ Limit(n) = 4
    BY SMT, <1>3 DEF Shown, Pattern, Widths, Limit
  <2> QED BY SMT, <1>1, <2>1, FoundIs
<1>4. CASE n = 5
  <2>1. image = set32(Typed, \h424, 29) /\ pins_per_connector = 24 /\ check \in 1 .. 4 /\ Limit(n) = 4
    BY SMT, <1>4 DEF Shown, Pattern, Widths, Limit
  <2> QED BY SMT, <1>2, <2>1, FoundIs
<1>5. CASE n = 6
  <2>1. /\ image = set32(Typed, \h424, 24) /\ pins_per_connector = 24 /\ num_ioport_connectors = 1
        /\ check \in 1 .. 6 /\ Limit(n) = 6
    BY SMT, <1>5 DEF Shown, Pattern, Widths, Limit
  <2>2. 0 = 0 * 24
    BY SMT
  <2> QED BY SMT, <1>2, <2>1, <2>2, FoundIs
<1>6. CASE n = 13
  <2>1. image = set32(Typed, \h424, 24) /\ pins_per_connector = 5 /\ check \in 1 .. 4 /\ Limit(n) = 4
    BY SMT, <1>6 DEF Shown, Pattern, Connectors, Limit
  <2> QED BY SMT, <1>2, <2>1, FoundIs
<1>7. CASE n = 14
  <2>1. /\ image = set32(Typed, \h424, 37) /\ pins_per_connector = 37 /\ num_ioport_connectors = 1
        /\ check \in 1 .. 6 /\ Limit(n) = 6
    BY SMT, <1>7 DEF Shown, Pattern, Connectors, Limit
  <2>2. 0 = 0 * 37
    BY SMT
  <2> QED BY SMT, <1>2, <2>1, <2>2, FoundIs
<1> QED BY SMT, <1>3, <1>4, <1>5, <1>6, <1>7

\* Patterns with ports that are wrong, or clocks that are.
LEMMA SizesGood ==
  ASSUME NEW n \in 7 .. 10, Shown(n), check \in 1 .. Limit(n)
  PROVE  Good <=> check < Limit(n)
<1>0. pins_per_connector = 24 /\ num_ioport_connectors = 1
  BY SMT DEF Shown
<1>1. 99 # 1 * 24 /\ 48 = 2 * 24 /\ 24 = 1 * 24
  BY SMT
<1>2. CASE n = 7
  <2>1. image = WithPorts(1, 99, 24) /\ check \in 1 .. 5 /\ Limit(n) = 5
    BY SMT, <1>2 DEF Shown, Pattern, Sizes, Limit
  <2> QED BY SMT, <1>0, <1>1, <2>1, WithPortsIs, FoundIs
<1>3. CASE n = 8
  <2>1. image = WithPorts(2, 48, 24) /\ check \in 1 .. 6 /\ Limit(n) = 6
    BY SMT, <1>3 DEF Shown, Pattern, Sizes, Limit
  <2> QED BY SMT, <1>0, <1>1, <2>1, WithPortsIs, FoundIs
<1>4. CASE n = 9
  <2>1. image = set32(WithPorts(1, 24, 24), \h428, 12345) /\ check \in 1 .. 7 /\ Limit(n) = 7
    BY SMT, <1>4 DEF Shown, Pattern, BadClocks, Limit
  <2>2. Found(image)
    BY SMT, <2>1, WithPortsIs, StillFound
  <2>3. /\ At(image, \h400) = 2 /\ At(image, \h41C) = 1 /\ At(image, \h420) = 24
        /\ At(image, \h424) = 24 /\ At(image, \h428) = 12345
    BY SMT, <2>1, WithPortsIs, SetIs
  <2> QED BY SMT, <1>0, <1>1, <2>1, <2>2, <2>3, FoundIs
<1>5. CASE n = 10
  <2>1. image = WithClocks(WithPorts(1, 24, 24), 2000000, 0) /\ check \in 1 .. 8 /\ Limit(n) = 8
    BY SMT, <1>5 DEF Shown, Pattern, BadClocks, Limit
  <2>2. Found(image) /\ At(image, \h428) = 2000000 /\ At(image, \h42C) = 0
    BY SMT, <2>1, WithPortsIs, WithClocksIs
  <2>3. /\ At(image, \h400) = 2 /\ At(image, \h41C) = 1 /\ At(image, \h420) = 24
        /\ At(image, \h424) = 24
    BY SMT, <2>1, WithPortsIs, WithClocksIs
  <2> QED BY SMT, <1>0, <1>1, <2>1, <2>2, <2>3, FoundIs
<1> QED BY SMT, <1>2, <1>3, <1>4, <1>5

\* Patterns with pin descriptors that are not there, or modules that are not.
LEMMA DescriptorsGood ==
  ASSUME NEW n \in 11 .. 12, Shown(n), check \in 1 .. Limit(n)
  PROVE  Good <=> check < Limit(n)
<1> DEFINE good(ports, width, modules, pins) ==
      WithOffsets(WithClocks(WithPorts(ports, width, 24), 2000000, 20000000), modules, pins)
<1>1. ASSUME NEW ports, NEW width, NEW modules, NEW pins
      PROVE  LET img == good(ports, width, modules, pins)
             IN  /\ Found(img) /\ At(img, \h400) = 2 /\ At(img, \h404) = modules
                 /\ At(img, \h408) = pins /\ At(img, \h41C) = ports /\ At(img, \h420) = width
                 /\ At(img, \h424) = 24 /\ At(img, \h428) = 2000000 /\ At(img, \h42C) = 20000000
                 /\ \A b \in Nat : b > \h42C => At(img, b) = 0
  <2> DEFINE one == WithPorts(ports, width, 24)
             two == WithClocks(one, 2000000, 20000000)
             img == good(ports, width, modules, pins)
  <2>1. /\ Found(one) /\ At(one, \h400) = 2 /\ At(one, \h41C) = ports /\ At(one, \h420) = width
        /\ At(one, \h424) = 24 /\ \A b \in Nat : b > \h424 => At(one, b) = 0
    BY SMT, WithPortsIs
  <2> HIDE DEF one
  <2>2. /\ Found(two) /\ At(two, \h428) = 2000000 /\ At(two, \h42C) = 20000000
        /\ \A b \in Nat : b \notin {\h428, \h42C} => At(two, b) = At(one, b)
    BY SMT, <2>1, WithClocksIs
  <2>3. img = WithOffsets(two, modules, pins)
    BY SMT DEF one
  <2> HIDE DEF two, img
  <2>4. /\ Found(img) /\ At(img, \h404) = modules /\ At(img, \h408) = pins
        /\ \A b \in Nat : b \notin {\h404, \h408} => At(img, b) = At(two, b)
    BY SMT, <2>2, <2>3, WithOffsetsIs
  <2>5. Found(img) /\ At(img, \h404) = modules /\ At(img, \h408) = pins
    BY SMT, <2>4
  <2>6. /\ At(img, \h400) = 2 /\ At(img, \h41C) = ports /\ At(img, \h420) = width
        /\ At(img, \h424) = 24 /\ At(img, \h428) = 2000000 /\ At(img, \h42C) = 20000000
    BY SMT, <2>1, <2>2, <2>4
  <2>7. \A b \in Nat : b > \h42C => At(img, b) = 0
    BY SMT, <2>1, <2>2, <2>4
  <2> QED BY SMT, <2>5, <2>6, <2>7 DEF img
<1>2. pins_per_connector = 24 /\ 144 = 6 * 24 /\ 24 = 1 * 24
      /\ 2000000 >= 1000000 /\ 20000000 >= 1000000
  BY SMT DEF Shown
<1> HIDE DEF good
<1>3. CASE n = 11
  <2>1. /\ image = good(6, 144, 64, \h1C0) /\ num_ioport_connectors = 6
        /\ check \in 1 .. 9 /\ Limit(n) = 9
    BY SMT, <1>3 DEF Shown, Pattern, Descriptors, Limit, good
  <2>2. /\ Found(image) /\ At(image, \h400) = 2 /\ At(image, \h408) = \h1C0
        /\ At(image, \h41C) = 6 /\ At(image, \h420) = 144
        /\ At(image, \h424) = 24 /\ At(image, \h428) = 2000000 /\ At(image, \h42C) = 20000000
        /\ \A b \in Nat : b > \h42C => At(image, b) = 0
    BY SMT, <1>1, <2>1
  <2>3. check < 9 => Good
    BY SMT, <1>2, <2>1, <2>2, FoundIs
  <2>4. IDROM(\h20) = 144 /\ IDROM(8) = \h1C0
    BY SMT, <2>2, IdromIs
  <2>5. IDROM(\h1C0 + 4 * 0) = 0
    BY SMT, <2>2, IdromIs
  <2>6. check = 9 => ~Good
    <3>1. 0 \in 0 .. IDROM(\h20) - 1 /\ IDROM(IDROM(8) + 4 * 0) # HM2_GTAG_IOPORT
      BY SMT, <2>4, <2>5 DEF HM2_GTAG_IOPORT
    <3> QED BY SMT, <3>1, GoodIs
  <2> QED BY SMT, <2>1, <2>3, <2>6
<1>4. CASE n = 12
  <2> DEFINE bare == good(1, 24, 64, \h200)
  <2>1. /\ image = WithPins(bare, 24) /\ num_ioport_connectors = 1
        /\ check \in 1 .. 10 /\ Limit(n) = 10
    BY SMT, <1>4 DEF Shown, Pattern, Descriptors, Limit, good
  <2>2. /\ Found(bare) /\ At(bare, \h400) = 2 /\ At(bare, \h404) = 64 /\ At(bare, \h408) = \h200
        /\ At(bare, \h41C) = 1 /\ At(bare, \h420) = 24
        /\ At(bare, \h424) = 24 /\ At(bare, \h428) = 2000000 /\ At(bare, \h42C) = 20000000
        /\ \A b \in Nat : b > \h42C => At(bare, b) = 0
    BY SMT, <1>1
  <2> HIDE DEF bare
  <2>3. /\ Found(image) /\ \A b \in Nat : b < \h600 => At(image, b) = At(bare, b)
        /\ \A k \in 0 .. 23 : At(image, \h600 + 4 * k) = HM2_GTAG_IOPORT
    <3>1. /\ Found(image) /\ \A b \in Nat : b < \h600 => At(image, b) = At(bare, b)
          /\ \A a \in PinsAt(24) : At(image, a) = HM2_GTAG_IOPORT
      <4>1. 24 \in Nat /\ Found(bare) /\ image = WithPins(bare, 24)
        BY SMT, <2>1, <2>2
      <4> QED BY SMT, <4>1, WithPinsIs
    <3>2. \A k \in 0 .. 23 : \h600 + 4 * k \in PinsAt(24)
      BY SMT DEF PinsAt
    <3> QED BY SMT, <3>1, <3>2
  <2>4. /\ At(image, \h400) = 2 /\ At(image, \h404) = 64 /\ At(image, \h408) = \h200
        /\ At(image, \h41C) = 1 /\ At(image, \h420) = 24
        /\ At(image, \h424) = 24 /\ At(image, \h428) = 2000000 /\ At(image, \h42C) = 20000000
    BY SMT, <2>2, <2>3
  <2>5. check < 9 => Good
    BY SMT, <1>2, <2>1, <2>3, <2>4, FoundIs
  <2>6. IDROM(\h20) = 24 /\ IDROM(8) = \h200 /\ IDROM(4) = 64
    BY SMT, <2>3, <2>4, IdromIs
  <2>7. check = 9 => Good
    <3>1. ASSUME NEW k \in 0 .. 23 PROVE IDROM(\h200 + 4 * k) = HM2_GTAG_IOPORT
      <4>1. \h400 + (\h200 + 4 * k) = \h600 + 4 * k
        BY SMT
      <4> QED BY SMT, <2>3, <4>1, IdromIs
    <3> QED BY SMT, <2>6, <3>1, GoodIs
  <2>8. check = 10 => ~Good
    <3>1. ASSUME NEW k \in 0 .. 31 PROVE IDROM(64 + 12 * k) # HM2_GTAG_IOPORT
      <4>1. \h400 + (64 + 12 * k) \in Nat /\ \h400 + (64 + 12 * k) > \h42C
            /\ \h400 + (64 + 12 * k) < \h600
        BY SMT
      <4>2. IDROM(64 + 12 * k) = 0
        BY SMT, <2>2, <2>3, <4>1, IdromIs
      <4> QED BY SMT, <4>2 DEF HM2_GTAG_IOPORT
    <3> QED BY SMT, <2>6, <3>1, GoodIs
  <2> QED BY SMT, <2>1, <2>5, <2>7, <2>8
<1> QED BY SMT, <1>3, <1>4

(***************************************************************************)
(* Whatever the core looks at before the thing that is wrong is good, and  *)
(* that thing is not.                                                      *)
(***************************************************************************)
LEMMA GoodUpToLimit ==
  ASSUME NEW n \in Known, Shown(n), check \in 1 .. Limit(n)
  PROVE  Good <=> check < Limit(n)
<1>1. n \in 0 .. 3 \/ n \in {4, 5, 6, 13, 14} \/ n \in 7 .. 10 \/ n \in 11 .. 12
  BY SMT DEF Known
<1> QED BY SMT, <1>1, BareGood, WidthsGood, SizesGood, DescriptorsGood

\* It is what the comment names.
LEMMA LimitIsMeant ==
  ASSUME NEW n \in Known
  PROVE  /\ Limit(n) \in 1 .. 10
         /\ Checks[Limit(n)] = IF n = 0 THEN "cookie" ELSE Meant[n]
<1>1. CASE n = 0
  BY SMT, <1>1 DEF Limit, Checks, Meant
<1>2. CASE n = 1
  BY SMT, <1>2 DEF Limit, Checks, Meant
<1>3. CASE n = 2
  BY SMT, <1>3 DEF Limit, Checks, Meant
<1>4. CASE n = 3
  BY SMT, <1>4 DEF Limit, Checks, Meant
<1>5. CASE n = 4
  BY SMT, <1>5 DEF Limit, Checks, Meant
<1>6. CASE n = 5
  BY SMT, <1>6 DEF Limit, Checks, Meant
<1>7. CASE n = 6
  BY SMT, <1>7 DEF Limit, Checks, Meant
<1>8. CASE n = 7
  BY SMT, <1>8 DEF Limit, Checks, Meant
<1>9. CASE n = 8
  BY SMT, <1>9 DEF Limit, Checks, Meant
<1>10. CASE n = 9
  BY SMT, <1>10 DEF Limit, Checks, Meant
<1>11. CASE n = 10
  BY SMT, <1>11 DEF Limit, Checks, Meant
<1>12. CASE n = 11
  BY SMT, <1>12 DEF Limit, Checks, Meant
<1>13. CASE n = 12
  BY SMT, <1>13 DEF Limit, Checks, Meant
<1>14. CASE n = 13
  BY SMT, <1>14 DEF Limit, Checks, Meant
<1>15. CASE n = 14
  BY SMT, <1>15 DEF Limit, Checks, Meant
<1> QED BY SMT, <1>1, <1>2, <1>3, <1>4, <1>5, <1>6, <1>7, <1>8, <1>9,
           <1>10, <1>11, <1>12, <1>13, <1>14, <1>15 DEF Known

-----------------------------------------------------------------------------
\* While the core looks at a board, the image is that of the pattern, and nothing
\* beyond the thing that is wrong has been looked at.
TestInv ==
  main \in {"registering", "refused"} =>
    /\ test_pattern \in Known /\ Shown(test_pattern)
    /\ check \in 1 .. Limit(test_pattern)
    /\ main = "refused" => ~Good

\* Good reads nothing but the board and what is looked at.
LEMMA GoodKept ==
  ASSUME UNCHANGED <<image, num_ioport_connectors, pins_per_connector, check>>
  PROVE  Good' <=> Good
  BY SMT DEF Good, IDROM, hm2_test_read

LEMMA TestStep ==
  ASSUME TestInv, [TestNext]_testVars
  PROVE  TestInv'
<1>1. ASSUME NEW n \in -1 .. 15, LoadPattern(n) PROVE TestInv'
  <2>1. CASE component \/ n \notin Known
    <3>1. main' \in {"no_component", "unknown_pattern"}
      BY SMT, <1>1, <2>1 DEF LoadPattern
    <3> QED BY SMT, <3>1 DEF TestInv
  <2>2. CASE ~(component \/ n \notin Known)
    <3>1. /\ test_pattern' = n /\ n \in Known /\ main' = "registering" /\ check' = 1
          /\ image' = Pattern(n) /\ num_ioport_connectors' = (IF n = 11 THEN 6 ELSE 1)
          /\ pins_per_connector' = CASE n = 13 -> 5 [] n = 14 -> 37 [] OTHER -> 24
      BY SMT, <1>1, <2>2 DEF LoadPattern
    <3>2. 1 \in 1 .. Limit(n)
      BY SMT, <3>1, LimitIsMeant
    <3>3. Shown(n)'
      BY SMT, <3>1 DEF Shown
    <3> QED BY SMT, <3>1, <3>2, <3>3 DEF TestInv
  <2> QED BY <2>1, <2>2
<1>2. CASE Check
  <2>1. /\ main = "registering" /\ Good /\ check' = check + 1
        /\ UNCHANGED <<test_pattern, image, num_ioport_connectors, pins_per_connector, main>>
    BY SMT, <1>2 DEF Check
  <2>2. test_pattern \in Known /\ Shown(test_pattern) /\ check \in 1 .. Limit(test_pattern)
    BY SMT, <2>1 DEF TestInv
  <2>3. check < Limit(test_pattern) /\ Limit(test_pattern) \in 1 .. 10
    BY SMT, <2>1, <2>2, GoodUpToLimit, LimitIsMeant
  <2>4. check + 1 \in 1 .. Limit(test_pattern)
    BY SMT, <2>2, <2>3
  <2>5. Shown(test_pattern)'
    BY SMT, <2>1, <2>2 DEF Shown
  <2> QED BY SMT, <2>1, <2>2, <2>4, <2>5 DEF TestInv
<1>3. CASE RefuseBoard
  <2>1. /\ main = "registering" /\ ~Good
        /\ UNCHANGED <<test_pattern, image, num_ioport_connectors, pins_per_connector, check>>
    BY SMT, <1>3 DEF RefuseBoard
  <2>2. Shown(test_pattern)'
    BY SMT, <2>1 DEF TestInv, Shown
  <2>3. ~Good'
    BY SMT, <2>1, GoodKept
  <2> QED BY SMT, <2>1, <2>2, <2>3 DEF TestInv
<1>4. CASE LoadFailed
  BY SMT, <1>4 DEF LoadFailed, TestInv
<1>5. CASE UNCHANGED testVars
  <2>1. Good' <=> Good
    BY SMT, <1>5, GoodKept DEF testVars
  <2> QED BY SMT, <1>5, <2>1 DEF testVars, TestInv, Shown
<1> QED BY <1>1, <1>2, <1>3, <1>4, <1>5 DEF TestNext

(***************************************************************************)
(* Every pattern, in any order of loads, is refused at what its comment    *)
(* says is wrong with it, and at nothing before (hm2-export.c 1080-1508).  *)
(***************************************************************************)
THEOREM RefusedWhereMeantAlways == IOSpec => []RefusedWhereMeant
<1>1. IOInit => TestInv
  BY SMT DEF IOInit, TestInit, TestInv
<1>2. TestInv /\ [IONext]_<<loadedDriver, vars, ethVars, testVars>> => TestInv'
  <2> SUFFICES ASSUME TestInv, [IONext]_<<loadedDriver, vars, ethVars, testVars>> PROVE TestInv'
    OBVIOUS
  <2>1. [TestNext]_testVars
    BY DEF IONext
  <2> QED BY <2>1, TestStep
<1>3. TestInv => RefusedWhereMeant
  <2> SUFFICES ASSUME TestInv, main = "refused"
               PROVE  Checks[check] = IF test_pattern = 0 THEN "cookie" ELSE Meant[test_pattern]
    BY DEF RefusedWhereMeant
  <2>1. /\ test_pattern \in Known /\ Shown(test_pattern)
        /\ check \in 1 .. Limit(test_pattern) /\ ~Good
    BY SMT DEF TestInv
  <2>2. Limit(test_pattern) \in 1 .. 10
    BY SMT, <2>1, LimitIsMeant
  <2>3. check = Limit(test_pattern)
    BY SMT, <2>1, <2>2, GoodUpToLimit
  <2> QED BY SMT, <2>1, <2>3, LimitIsMeant
<1> QED BY <1>1, <1>2, <1>3, PTL DEF IOSpec
=============================================================================
