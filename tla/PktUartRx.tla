----------------------------- MODULE PktUartRx ------------------------------
(***************************************************************************)
(* hm2/pktuartr.vhd: the receive half of the packet UART.  Bytes are packed*)
(* into words of a buffer; when the line has been silent for the frame     *)
(* delay the length of the frame goes into a FIFO of counts.  The names are*)
(* those of the source with an R in front, as PktUartTx has the same ones. *)
(* Line errors, the receive mask and the enable bit are left out: the line *)
(* is free of noise and the receiver is on.                                *)
(***************************************************************************)
EXTENDS PktUartFifo

VARIABLES
  rbuffram, RInAdd, ROutAdd,
  rcounts, RCFIFOError,
  RecvCount, RBytePointer, RDataLatch,
  RPushData, RPushRC,   \* write the latch, push the count, in the next edge
  RGo, RFDGo            \* inside a byte; inside a frame or its delay

rxVars == <<rbuffram, RInAdd, ROutAdd, rcounts, RCFIFOError, RecvCount,
            RBytePointer, RDataLatch, RPushData, RPushRC, RGo, RFDGo>>

\* The host has written ModeReg with the clear bit.
RxInit ==
  /\ rbuffram = [a \in 0 .. Depth - 1 |-> Blank] /\ RInAdd = 0 /\ ROutAdd = 0
  /\ rcounts = <<>> /\ RCFIFOError = FALSE
  /\ RecvCount = 0 /\ RBytePointer = 0 /\ RDataLatch = <<>>
  /\ RPushData = FALSE /\ RPushRC = FALSE /\ RGo = FALSE /\ RFDGo = FALSE

Pending == IF RPushRC THEN <<RecvCount>> ELSE <<>>

\* abuf and arcfifo: in every edge.
RBackground(popdata, poprc, Clear) ==
  /\ rbuffram' = IF RPushData THEN [rbuffram EXCEPT ![RInAdd] = RDataLatch] ELSE rbuffram
  /\ RInAdd' = IF Clear THEN 0 ELSE (RInAdd + IF RPushData THEN 1 ELSE 0) % Depth
  /\ ROutAdd' = IF Clear THEN 0 ELSE (ROutAdd + IF popdata THEN 1 ELSE 0) % Depth
  /\ rcounts' = IF Clear THEN <<>> ELSE CountFifo(rcounts, Pending, poprc)
  /\ LET full == RPushRC /\ ~poprc /\ Len(rcounts) = Slots
         dry == poprc /\ ~RPushRC /\ rcounts = <<>>
     IN RCFIFOError' = (~Clear /\ (RCFIFOError \/ full \/ dry))

-----------------------------------------------------------------------------
\* The middle of the stop bit: the byte goes into the latch.
CharEnd(byte, Clear) ==
  /\ RGo
  /\ RecvCount' = IF RFDGo THEN RecvCount + 1 ELSE 1
  /\ RDataLatch' = [i \in 1 .. W |-> IF i = RBytePointer + 1 THEN byte
                                     ELSE IF i \in DOMAIN RDataLatch THEN RDataLatch[i] ELSE byte]
  /\ RBytePointer' = IF Clear THEN 0 ELSE (RBytePointer + 1) % W
  /\ RPushData' = (RBytePointer = W - 1 /\ ~RPushData)
  /\ RGo' = FALSE /\ RFDGo' = ~Clear
  /\ RPushRC' = FALSE

\* Mutant: the next frame starts in the middle of a word.
PointerKept(Clear) ==
  /\ RFDGo /\ ~RGo
  /\ RFDGo' = FALSE /\ RGo' = FALSE /\ RPushRC' = ~RPushRC
  /\ RPushData' = (RBytePointer # 0 /\ ~RPushData)
  /\ UNCHANGED <<RecvCount, RDataLatch, RBytePointer>>

\* The frame delay has run out.
FrameTimeout(Clear) ==
  /\ RFDGo /\ ~RGo
  /\ RFDGo' = FALSE /\ RGo' = FALSE
  /\ RPushRC' = ~RPushRC
  /\ RPushData' = (RBytePointer # 0 /\ ~RPushData)
  /\ RBytePointer' = 0
  /\ UNCHANGED <<RecvCount, RDataLatch>>

\* Nothing ends in this edge; a start bit may be seen.
Listen(low, Clear) ==
  /\ RGo' = ((RGo \/ low) /\ ~Clear) /\ RFDGo' = (RFDGo /\ ~Clear)
  /\ RPushRC' = FALSE /\ RPushData' = FALSE
  /\ RBytePointer' = IF Clear THEN 0 ELSE RBytePointer
  /\ UNCHANGED <<RecvCount, RDataLatch>>
-----------------------------------------------------------------------------
RxTypeOK ==
  /\ RInAdd \in 0 .. Depth - 1 /\ ROutAdd \in 0 .. Depth - 1
  /\ Len(rcounts) <= Slots /\ RecvCount \in Nat /\ RBytePointer \in 0 .. W - 1
  /\ RCFIFOError \in BOOLEAN /\ RPushData \in BOOLEAN /\ RPushRC \in BOOLEAN
  /\ RGo \in BOOLEAN /\ RFDGo \in BOOLEAN
=============================================================================
