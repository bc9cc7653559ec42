---------------------------- MODULE PktUartLink -----------------------------
(***************************************************************************)
(* A packet UART transmitting to another, and the hosts on both sides.     *)
(* The halves have clocks of their own.  What the bit rates and the delays *)
(* have to guarantee is said where the line couples the two: a byte ends at*)
(* the receiver before its stop bit is over, the receiver's frame delay is *)
(* longer than a byte and the transmitter's is longer than the receiver's. *)
(*                                                                         *)
(* A push, a pop and a clear are each the strobe of one access and last one*)
(* clock.  What is asked of a host that clears is in ClearTx and ClearRx.  *)
(***************************************************************************)
EXTENDS PktUartTx, PktUartRx

CONSTANTS Frames,     \* the frames the host sends
          Unread,     \* frames the hosts agree to have under way at a time
          Patient,    \* with DriveEnAuto, the host sends when the UART is not busy
          MaxFrames, MaxClears  \* bounds
ASSUME LinkAssumption ==
  /\ \A f \in Frames : /\ f # <<>> /\ f \in Seq({f[i] : i \in 1 .. Len(f)})
                       /\ Unread * ((Len(f) + W - 1) \div W) <= Depth
  /\ Unread \in 0 .. Slots /\ Patient \in BOOLEAN

VARIABLES wire,              \* the byte on the line
          todo, frame,       \* sender: words still to push, the frame they are of
          reading, words,    \* reader: the count it has popped, the words since
          last, sent, clears,\* history and bounds
          spoiled            \* history: a clear of the receiver met the end of a frame

hostVars == <<todo, frame, reading, words, last, sent, clears, spoiled>>
linkVars == <<txVars, rxVars, wire, hostVars>>

LinkInit ==
  /\ TxInit /\ RxInit
  /\ wire = <<>> /\ todo = <<>> /\ frame = <<>> /\ reading = 0 /\ words = <<>>
  /\ last = <<>> /\ sent = 0 /\ clears = [tx |-> 0, rx |-> 0] /\ spoiled = FALSE

-----------------------------------------------------------------------------
WordsFor(n) == (n + W - 1) \div W

\* The words of a frame.
Packed(f) ==
  [k \in 1 .. WordsFor(Len(f)) |->
     [i \in 1 .. W |-> IF (k - 1) * W + i <= Len(f) THEN f[(k - 1) * W + i] ELSE Pad]]

\* n bytes that start at byte b of word a of a buffer.
BytesAt(mem, a, b, n) ==
  [i \in 1 .. n |-> mem[(a + (b + i - 1) \div W) % Depth][((b + i - 1) % W) + 1]]

\* Where in a buffer the frames with counts q begin, counted from the first word
\* of the first one, and the words of all of them.
Offsets(q) ==
  LET sum[k \in 0 .. Len(q)] == IF k = 0 THEN 0 ELSE sum[k - 1] + WordsFor(q[k]) IN sum
WordsIn(q) == Offsets(q)[Len(q)]

FramesAt(mem, a, q) == [k \in 1 .. Len(q) |-> BytesAt(mem, a + Offsets(q)[k - 1], 0, q[k])]

\* The frame the reader has begun to read.
BeingRead ==
  LET word(k) == IF k < Len(words) THEN words[k + 1]
                 ELSE rbuffram[(ROutAdd + k - Len(words)) % Depth]
  IN IF reading = 0 THEN <<>>
     ELSE <<[i \in 1 .. reading |-> word((i - 1) \div W)[((i - 1) % W) + 1]]>>

FirstUnread == ROutAdd + IF reading = 0 THEN 0 ELSE WordsFor(reading) - Len(words)

\* The frame on the line: what has been received, the byte, what is to come.
NextByte == OutAdd + IF ReadData THEN 1 ELSE 0
Received ==
  IF RFDGo \/ RPushRC
  THEN BytesAt(IF RPushData \/ RBytePointer # 0
               THEN [rbuffram EXCEPT ![RInAdd] = RDataLatch] ELSE rbuffram,
               FirstUnread + WordsIn(rcounts), 0, RecvCount)
  ELSE <<>>
ToCome == IF SCNZ THEN BytesAt(buffram, NextByte, BytePointer, SendCount) ELSE <<>>
OnTheLine ==
  LET all == Received \o wire \o ToCome IN IF all = <<>> THEN <<>> ELSE <<all>>

\* The counts still to be popped, and the frame that is next when none is sent.
Queued == IF PopSC /\ counts # <<>> THEN Tail(counts) ELSE counts
Loaded == IF SendCount # 0 /\ ~SCNZ THEN <<SendCount>> ELSE <<>>
Unsent ==
  FramesAt(buffram, NextByte + IF SCNZ THEN WordsFor(BytePointer + SendCount) ELSE 0,
           Loaded \o Queued)

\* The frames under way, oldest first, read off the registers of both halves.
Queue == BeingRead \o FramesAt(rbuffram, FirstUnread, rcounts) \o OnTheLine \o Unsent

-----------------------------------------------------------------------------
\* An edge of the transmitter.  A byte is over when the receiver has taken it,
\* a gap when the receiver has seen the end of the frame, both after a clock.
TxStep(push, cnt, Clear, tick) ==
  /\ TxEdge(push, cnt, Clear, tick)
  /\ tick => /\ ~ReadData /\ ~PopSC
             /\ Go => wire = <<>>
             /\ FDGo => ~RFDGo /\ ~RPushRC
  /\ wire' = IF ~Go /\ Go' THEN <<SReg'>> ELSE wire
  /\ UNCHANGED <<rxVars, reading, words, last, spoiled>>

TxQuiet(tick) ==
  /\ TxStep(<<>>, <<>>, FALSE, tick)
  /\ UNCHANGED <<todo, frame, sent, clears>>

ChooseFrame(f) ==
  /\ frame = <<>> /\ sent < MaxFrames /\ Len(Queue) < Unread
  /\ frame' = f /\ todo' = Packed(f)
  /\ UNCHANGED <<txVars, rxVars, wire, reading, words, last, sent, clears, spoiled>>

PushWord(tick) ==
  /\ todo # <<>> /\ TxStep(<<Head(todo)>>, <<>>, FALSE, tick)
  /\ todo' = Tail(todo)
  /\ UNCHANGED <<frame, sent, clears>>

PushCount(tick) ==
  /\ frame # <<>> /\ todo = <<>> /\ Len(counts) < Slots
  /\ mode.auto /\ Patient => ~Busy
  /\ TxStep(<<>>, <<Len(frame)>>, FALSE, tick)
  /\ frame' = <<>> /\ sent' = sent + 1
  /\ UNCHANGED <<todo, clears>>

MayClear == clears.tx + clears.rx < MaxClears

\* The mode register is written with the clear bit.  The host does not cut a frame
\* or the gap after it: not Busy is enough for it to know.
ClearTx ==
  /\ MayClear /\ ~Go /\ ~FDGo /\ ~SCNZ
  /\ TxStep(<<>>, <<>>, TRUE, FALSE)
  /\ todo' = <<>> /\ frame' = <<>> /\ clears' = [clears EXCEPT !.tx = @ + 1]
  /\ UNCHANGED sent

-----------------------------------------------------------------------------
\* An edge of the receiver.
RxStep(popdata, poprc, Clear) ==
  /\ RBackground(popdata, poprc, Clear)
  /\ \/ /\ wire # <<>> /\ ~RPushData /\ ~RPushRC
        /\ CharEnd(wire[1], Clear) /\ wire' = <<>>
     \/ /\ wire = <<>> /\ ~RPushData /\ (FDGo \/ ~(Go \/ SCNZ))
        /\ FrameTimeout(Clear) /\ UNCHANGED wire
     \/ Listen(wire # <<>>, Clear) /\ UNCHANGED wire
  /\ UNCHANGED <<txVars, todo, frame, sent>>

RxQuiet ==
  /\ RxStep(FALSE, FALSE, FALSE)
  /\ UNCHANGED <<reading, words, last, clears, spoiled>>

\* The host sees a frame in the status register and reads its count.
PopCount ==
  /\ reading = 0 /\ rcounts # <<>>
  /\ RxStep(FALSE, TRUE, FALSE)
  /\ reading' = Head(rcounts)
  /\ UNCHANGED <<words, last, clears, spoiled>>

PopWord ==
  /\ reading # 0
  /\ RxStep(TRUE, FALSE, FALSE)
  /\ LET now == Append(words, rbuffram[ROutAdd]) IN
       IF Len(now) * W >= reading
       THEN /\ last' = [i \in 1 .. reading |-> now[(i - 1) \div W + 1][((i - 1) % W) + 1]]
            /\ words' = <<>> /\ reading' = 0
       ELSE words' = now /\ UNCHANGED <<reading, last>>
  /\ UNCHANGED <<clears, spoiled>>

\* The host does not cut a byte or a frame; the delay after it may be running.
\* If it runs out in this very edge the count is pushed in the next one, into the
\* cleared FIFO, and the rest of the data with it.
ClearRx ==
  /\ MayClear /\ wire = <<>> /\ ~RGo /\ ~Go /\ ~SCNZ
  /\ RxStep(FALSE, FALSE, TRUE)
  /\ reading' = 0 /\ words' = <<>> /\ clears' = [clears EXCEPT !.rx = @ + 1]
  /\ spoiled' = (spoiled \/ RPushRC')
  /\ UNCHANGED last

LinkNext ==
  \/ \E tick \in BOOLEAN : TxQuiet(tick) \/ PushWord(tick) \/ PushCount(tick)
  \/ \E f \in Frames : ChooseFrame(f)
  \/ ClearTx \/ RxQuiet \/ PopCount \/ PopWord \/ ClearRx

\* The clocks run, bytes and gaps end, and the reader reads.
LinkSpec ==
  /\ LinkInit /\ [][LinkNext]_linkVars
  /\ \A tick \in BOOLEAN : WF_linkVars(TxQuiet(tick))
  /\ WF_linkVars(RxQuiet) /\ WF_linkVars(PopCount) /\ WF_linkVars(PopWord)
-----------------------------------------------------------------------------
LinkTypeOK == TxTypeOK /\ RxTypeOK /\ spoiled \in BOOLEAN

Channel == INSTANCE FrameChannel WITH queue <- Queue

(***************************************************************************)
(* Frames are delivered whole, in order and once, whatever is pushed while *)
(* others are sent, received and read, and none is lost but by a clear: of *)
(* the transmitter, the newest, of the receiver, the oldest.  That ends    *)
(* with a clear of the receiver in the very clock in which the delay after *)
(* a frame runs out (pktuartr.vhd 312-325, 353-358): it leaves a count of  *)
(* a frame that is gone.                                                   *)
(***************************************************************************)
FramesArrive ==
  Channel!ChanInit /\ [][spoiled' \/ Channel!ChanNext]_(Channel!chanVars)

(***************************************************************************)
(* Every frame that was queued is read, or thrown away by a clear: no      *)
(* count waits for data and no data for a count (pktuartx.vhd 284-307,     *)
(* pktuartr.vhd 312-325).                                                  *)
(***************************************************************************)
EveryFrameArrives == <>[](Queue = <<>>)
=============================================================================
