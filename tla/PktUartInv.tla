----------------------------- MODULE PktUartInv -----------------------------
(***************************************************************************)
(* The inductive invariant of PktUartLink: how the registers of both halves*)
(* of the packet UART, the line and the hosts fit together in every edge.  *)
(* It says of each half which combinations of flags there are, where each  *)
(* address has to stand for the frames that are under way, and that there  *)
(* is room for them.                                                       *)
(***************************************************************************)
EXTENDS PktUartLink

\* Finite sequences of whatever elements; concatenation and a sequence of one.
IsSeq(s) == Len(s) \in Nat /\ s = [i \in 1 .. Len(s) |-> s[i]]
Cat(s, t) == s \o t
One(x) == <<x>>
AllIn(s, S) == \A k \in 1 .. Len(s) : s[k] \in S

\* Addresses that are the same word of a buffer.
Same(a, b) == a % Depth = b % Depth

\* As many frames of n bytes as the hosts agree on have room in a buffer.
Fits(n) == Unread * WordsFor(n) <= Depth

\* Types: those of the run, and the elements of the FIFOs.
Counts ==
  /\ counts \in Seq(Nat) /\ rcounts \in Seq(Nat)
  /\ mode.delay \in Nat
  /\ frame = <<>> \/ frame \in Frames

TypeInv == LinkTypeOK /\ Counts
-----------------------------------------------------------------------------
\* The pop of a count that has been cleared meanwhile: no count is pushed in the
\* same edge, for the host begins with the words of a frame.
Cleared == SendCount = 0 /\ ~SCNZ /\ ~Go /\ ~FDGo /\ (frame # <<>> => todo # <<>>)

\* The flags of the transmitter: a byte is sent inside a frame, a gap is outside
\* of one, and a count is popped when its frame is the next.
TxFlags ==
  /\ Go => SCNZ
  /\ FDGo => ~SCNZ
  /\ ~SCNZ => BytePointer = 0
  /\ ReadData => Go \/ FDGo
  /\ PopSC => IF counts = <<>> THEN Cleared
              ELSE SendCount = Head(counts) /\ SendCount # 0 /\ ~SCNZ
  /\ SCNZ => Fits(BytePointer + SendCount)

\* Automatic drive enable works for a host that waits until the UART is not busy
\* and a delay that is over when the count of a frame leaves the FIFO.
Usable == mode.auto => Patient /\ mode.delay <= 1

\* The driver is on, and has been for long enough, when there is a frame to send.
\* In automatic mode that takes a host that sends one frame at a time.
Driver ==
  IF mode.auto
  THEN /\ Patient /\ mode.delay <= 1
       /\ SendCount # 0 \/ SCNZ => DriveDelayCount = 0
       /\ counts # <<>> => Len(counts) = 1 /\ ~SCNZ /\ ~FDGo
       /\ SendCount # 0 => SCNZ \/ PopSC
       /\ counts # <<>> /\ SendCount # 0 => PopSC
  ELSE mode.bit /\ DriveDelayCount = 0

\* The words of the frame that is sent, the counts that wait, the words that have
\* been pushed of the next frame and where they begin.
Current == IF SCNZ THEN WordsFor(BytePointer + SendCount) ELSE 0
Waiting == Cat(Loaded, Queued)
Pushed == IF frame = <<>> THEN 0 ELSE WordsFor(Len(frame)) - Len(todo)
TxEnd == NextByte + Current + WordsIn(Waiting)

\* What the host has pushed is in the buffer, behind the frames that wait.
Sender ==
  /\ frame = <<>> => todo = <<>>
  /\ IsSeq(todo) /\ Pushed \in Nat
  /\ \A j \in 1 .. Len(todo) : todo[j] = Packed(frame)[Pushed + j]
  /\ \A j \in 1 .. Pushed : buffram[(TxEnd + j - 1) % Depth] = Packed(frame)[j]
  /\ Same(InAdd, TxEnd + Pushed)

\* The receiver is inside a frame only as long as the transmitter is in it or in
\* the gap behind it.
LineInv ==
  /\ wire = <<>> \/ (wire = One(wire[1]) /\ Go)
  /\ RFDGo \/ RPushRC => SCNZ \/ FDGo
  /\ RPushRC => ~RFDGo /\ FDGo
  /\ SCNZ => wire # <<>> \/ RFDGo
-----------------------------------------------------------------------------
\* The words written of the frame that is received, and the next one's address.
LineWords ==
  IF RPushRC THEN WordsFor(RecvCount) ELSE IF RFDGo THEN RecvCount \div W ELSE 0
RxNext == RInAdd + IF RPushData THEN 1 ELSE 0

\* The flags of the receiver; words are written behind the frames that are unread.
RxFlags ==
  /\ RFDGo => RecvCount # 0 /\ RBytePointer = RecvCount % W /\ (RPushData => RBytePointer = 0)
  /\ ~RFDGo => RBytePointer = 0
  /\ RPushRC => RecvCount # 0 /\ (RPushData <=> RecvCount % W # 0)
  /\ RPushData => RFDGo \/ RPushRC
  /\ RFDGo \/ RPushRC => DOMAIN RDataLatch = 1 .. W
  /\ Same(RxNext, FirstUnread + WordsIn(rcounts) + LineWords)

\* The reader, with count rd, has words ws, not all of them.
Reads(rd, ws) ==
  /\ rd \in Nat /\ IsSeq(ws)
  /\ IF rd = 0 THEN ws = <<>> ELSE Len(ws) * W < rd

\* The hosts keep to their agreement, and what is under way are frames of theirs.
Room ==
  /\ Len(Queue) + (IF frame = <<>> THEN 0 ELSE 1) <= Unread
  /\ AllIn(Queue, Frames)

\* Together.
LinkInv ==
  /\ DOMAIN buffram = 0 .. Depth - 1 /\ DOMAIN rbuffram = 0 .. Depth - 1
  /\ Driver /\ LineInv /\ Reads(reading, words) /\ Room
  /\ TxFlags /\ Sender /\ RxFlags

(***************************************************************************)
(* The two halves, the line and the hosts agree in every edge: what is     *)
(* pushed goes behind the frames that wait, what is received behind those  *)
(* that are unread, neither buffer is overrun, and whatever is under way is*)
(* a whole frame (pktuartx.vhd 254-308, pktuartr.vhd 272-358).  Clears keep*)
(* that, but one of the receiver in the clock in which a frame ends.       *)
(***************************************************************************)
HalvesAgree == LinkTypeOK /\ (~spoiled => LinkInv)
=============================================================================
