--------------------------- MODULE BlockRequests ----------------------------
(***************************************************************************)
(* Two registers behind hm2reg_io whose strobes act on another clock: the  *)
(* value of a PWM generator (pwmpdmgenh.vhd), which the fast clock takes   *)
(* over from prepwmval, and the word FIFO of a BISS encoder (biss.vhd),    *)
(* which a read pops.  A strobe lasts several bus clocks and each of them  *)
(* asks again; an edge of the fast clock may come anywhere between two of  *)
(* the bus clock.                                                          *)
(***************************************************************************)
EXTENDS Hm2RegIO

CONSTANTS PwmReg, BissReg,
          MinFast  \* edges of the fast clock between two of the bus clock, at least
ASSUME RegsAssumption == PwmReg \in Addr /\ BissReg \in Addr
ASSUME MinFastAssumption == MinFast \in Nat \ {0}

VARIABLES edges,                                      \* since the last bus clock, up to MinFast
          loadpwmreq, oldloadpwmreq, olderloadpwmreq,
          pwmval,                                     \* prepwmval is reg[PwmReg]
          PopReq, PopReq1, PopReq2,
          pops                                        \* history: pops of the last read

Pwm  == INSTANCE FastRequest WITH req <- loadpwmreq, one <- oldloadpwmreq, two <- olderloadpwmreq
Biss == INSTANCE FastRequest WITH req <- PopReq, one <- PopReq1, two <- PopReq2

requestVars == <<edges, loadpwmreq, oldloadpwmreq, olderloadpwmreq, pwmval,
                 PopReq, PopReq1, PopReq2, pops>>

RequestsInit ==
  /\ Init /\ Pwm!Init /\ Biss!Init
  /\ edges = 0 /\ pwmval = reg[PwmReg] /\ pops = 0

loadpwmval == con_write_out /\ slave_address = PwmReg
Poplifo    == con_read_out /\ slave_address = BissReg

BusClock ==
  /\ edges >= MinFast /\ edges' = 0
  /\ Next
  /\ Pwm!BusEdge(loadpwmval) /\ Biss!BusEdge(Poplifo)
  /\ pops' = IF phase = "setup" THEN 0 ELSE pops
  /\ UNCHANGED pwmval

\* cyclestart delays the take-over of a double-buffered generator.
FastClock(cyclestart) ==
  /\ edges' = IF edges < MinFast THEN edges + 1 ELSE edges
  /\ Pwm!FastEdge(cyclestart) /\ Biss!FastEdge(TRUE)
  /\ pwmval' = IF Pwm!Taking THEN reg[PwmReg] ELSE pwmval
  /\ pops' = IF Biss!Taking THEN pops + 1 ELSE pops
  /\ UNCHANGED vars

RequestsNext == BusClock \/ \E cyclestart \in BOOLEAN : FastClock(cyclestart)

RequestsSpec == RequestsInit /\ [][RequestsNext]_<<vars, requestVars>>
-----------------------------------------------------------------------------
RequestsTypeOK ==
  /\ TypeOK
  /\ edges \in 0 .. MinFast
  /\ loadpwmreq \in BOOLEAN /\ oldloadpwmreq \in BOOLEAN /\ olderloadpwmreq \in BOOLEAN
  /\ PopReq \in BOOLEAN /\ PopReq1 \in BOOLEAN /\ PopReq2 \in BOOLEAN
  /\ pwmval \in Data /\ pops \in Nat

(***************************************************************************)
(* A write that is over and was not cut short by a reset has reached the   *)
(* generator or is still asked for, although the first clock of its strobe *)
(* loads another word and a clock of it may fall where requests are lost.  *)
(***************************************************************************)
LoadTaken ==
  PwmReg \notin doubt /\ ~loadpwmval =>
    pwmval = written[PwmReg] \/ loadpwmreq \/ oldloadpwmreq

(***************************************************************************)
(* A read pops the FIFO at least once and at most once per strobed clock.  *)
(***************************************************************************)
PopTaken ==
  /\ pops <= ReadWait + 1
  /\ phase = "hold" /\ isread /\ slave_address = BissReg => pops > 0 \/ PopReq \/ PopReq1
=============================================================================
