----------------------------- MODULE PktUartTx ------------------------------
(***************************************************************************)
(* hm2/pktuartx.vhd: the transmit half of the packet UART.  The host pushes*)
(* the words of a frame into a buffer and then its length in bytes into a  *)
(* FIFO of counts; the UART sends the frame and keeps a gap after it.      *)
(* A step is a rising edge of clk.  How long a byte or a gap takes is      *)
(* abstracted: the shift register is done in an edge with tick.            *)
(***************************************************************************)
EXTENDS PktUartFifo

CONSTANT Delays  \* values of the driver-enable delay
ASSUME TxAssumption == Delays \subseteq Nat

VARIABLES
  buffram, InAdd, OutAdd,  \* the buffer; its addresses
  counts, SCFIFOError,     \* FIFO of frame lengths, oldest first; it overflowed
  SendCount, BytePointer,  \* bytes of the current frame not yet started
  ReadData, PopSC,         \* advance OutAdd, pop a count, in the next edge
  Go, FDGo, SCNZ, SReg,    \* shifting; in the gap; inside a frame; the byte
  DriveDelayCount,
  mode                     \* ModeReg: DriveEnAuto, DriveEnBit, DriveEnDelay

txVars == <<buffram, InAdd, OutAdd, counts, SCFIFOError, SendCount, BytePointer,
            ReadData, PopSC, Go, FDGo, SCNZ, SReg, DriveDelayCount, mode>>

\* The host has written ModeReg with the clear bit.
TxInit ==
  /\ buffram = [a \in 0 .. Depth - 1 |-> Blank] /\ InAdd = 0 /\ OutAdd = 0
  /\ counts = <<>> /\ SCFIFOError = FALSE
  /\ SendCount = 0 /\ BytePointer = 0 /\ ReadData = FALSE /\ PopSC = FALSE
  /\ Go = FALSE /\ FDGo = FALSE /\ SCNZ = FALSE /\ SReg = <<>>
  /\ mode \in [auto : BOOLEAN, bit : {TRUE}, delay : Delays]
  /\ DriveDelayCount = IF mode.auto THEN mode.delay ELSE 0

\* Mutant: a frame that waits in the FIFO does not ask for the driver.
DriveWhileSending == IF mode.auto THEN Go \/ FDGo \/ SCNZ ELSE mode.bit

DriveEnable ==
  IF mode.auto THEN Go \/ FDGo \/ SCNZ \/ counts # <<>> ELSE mode.bit
WaitingForDrive == DriveDelayCount # 0
DriveEnHold == ~DriveEnable \/ WaitingForDrive

SendData == buffram[OutAdd][BytePointer + 1]

\* The busy bit of the status register, and the room its other bits show.
Busy == Go \/ FDGo \/ counts # <<>> \/ SCNZ

-----------------------------------------------------------------------------
\* abuf, ascfifo and the end of asimplepktuarttx: in every edge.  push is a
\* sequence of at most one word, cnt of at most one count.
Background(push, cnt, Clear) ==
  /\ buffram' = IF push = <<>> THEN buffram ELSE [buffram EXCEPT ![InAdd] = push[1]]
  /\ InAdd' = IF Clear THEN 0 ELSE (InAdd + Len(push)) % Depth
  /\ OutAdd' = IF Clear THEN 0 ELSE (OutAdd + IF ReadData THEN 1 ELSE 0) % Depth
  /\ counts' = IF Clear THEN <<>> ELSE CountFifo(counts, cnt, PopSC)
  /\ SCFIFOError' = (~Clear /\ (SCFIFOError \/ (cnt # <<>> /\ ~PopSC /\ Len(counts) = Slots)))
  /\ DriveDelayCount' = CASE ~DriveEnable -> mode.delay
                          [] DriveEnable /\ WaitingForDrive -> DriveDelayCount - 1
                          [] OTHER -> DriveDelayCount
  /\ UNCHANGED mode

\* Go or FDGo: a byte is being shifted out, or the gap runs.
Shifting(Clear, tick) ==
  /\ Go \/ FDGo
  /\ Go' = (Go /\ ~tick /\ ~Clear) /\ FDGo' = (FDGo /\ ~tick /\ ~Clear)
  /\ SendCount' = IF Clear THEN 0 ELSE SendCount
  /\ BytePointer' = IF Clear THEN 0 ELSE BytePointer
  /\ SCNZ' = (SCNZ /\ ~Clear)
  /\ ReadData' = FALSE /\ PopSC' = FALSE
  /\ UNCHANGED SReg

StartByte(Clear) ==
  /\ ~Go /\ ~FDGo /\ SendCount # 0 /\ ~DriveEnHold
  /\ SReg' = SendData
  /\ Go' = ~Clear /\ SCNZ' = ~Clear /\ FDGo' = FALSE
  /\ BytePointer' = IF Clear THEN 0 ELSE (BytePointer + 1) % W
  /\ SendCount' = IF Clear THEN 0 ELSE SendCount - 1
  /\ ReadData' = (BytePointer = W - 1 /\ ~ReadData)
  /\ PopSC' = FALSE

\* Mutant: the rest of a frame's last word is not thrown away.
NoFlush(Clear) ==
  /\ ~Go /\ ~FDGo /\ (SendCount = 0 \/ DriveEnHold)
  /\ SendCount' = IF Clear THEN 0 ELSE IF counts # <<>> THEN Head(counts) ELSE SendCount
  /\ PopSC' = (counts # <<>> /\ ~PopSC) /\ FDGo' = (SCNZ /\ ~Clear)
  /\ BytePointer' = IF Clear \/ SCNZ THEN 0 ELSE BytePointer
  /\ Go' = FALSE /\ SCNZ' = FALSE /\ ReadData' = FALSE /\ UNCHANGED SReg

\* The branch marked SendCount = 0, which a held driver enable reaches as well.
NextFrame(Clear) ==
  /\ ~Go /\ ~FDGo /\ (SendCount = 0 \/ DriveEnHold)
  /\ SendCount' = CASE Clear -> 0
                    [] ~Clear /\ counts # <<>> -> Head(counts)
                    [] OTHER -> SendCount
  /\ PopSC' = (counts # <<>> /\ ~PopSC)
  /\ FDGo' = (SCNZ /\ ~Clear) /\ Go' = FALSE /\ SCNZ' = FALSE
  /\ ReadData' = (SCNZ /\ BytePointer # 0 /\ ~ReadData)
  /\ BytePointer' = IF Clear \/ SCNZ THEN 0 ELSE BytePointer
  /\ UNCHANGED SReg

TxEdge(push, cnt, Clear, tick) ==
  /\ Background(push, cnt, Clear)
  /\ Shifting(Clear, tick) \/ StartByte(Clear) \/ NextFrame(Clear)
-----------------------------------------------------------------------------
TxTypeOK ==
  /\ InAdd \in 0 .. Depth - 1 /\ OutAdd \in 0 .. Depth - 1
  /\ Len(counts) <= Slots /\ SendCount \in Nat /\ BytePointer \in 0 .. W - 1
  /\ SCFIFOError \in BOOLEAN /\ ReadData \in BOOLEAN /\ PopSC \in BOOLEAN
  /\ Go \in BOOLEAN /\ FDGo \in BOOLEAN /\ SCNZ \in BOOLEAN
  /\ DriveDelayCount \in 0 .. mode.delay

(***************************************************************************)
(* "when there is data to xmit" (pktuartx.vhd 363): in automatic mode the  *)
(* driver is enabled whenever the transmitter has bytes to send.           *)
(***************************************************************************)
EnabledWhileData == mode.auto /\ SendCount # 0 => DriveEnable
=============================================================================
