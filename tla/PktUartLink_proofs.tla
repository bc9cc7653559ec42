------------------------- MODULE PktUartLink_proofs -------------------------
(***************************************************************************)
(* Proofs about PktUartLink, for every size of a word, of the buffers and  *)
(* of the FIFOs of counts, and every set of frames that fit.               *)
(***************************************************************************)
EXTENDS PktUartInv, SequenceTheorems, NaturalsInduction, WellFoundedInduction, TLAPS

-----------------------------------------------------------------------------
\* The FIFO of counts is never longer than its slots: a push into a full one
\* loses the oldest count.
LEMMA CountFifoTyped ==
  ASSUME NEW q \in Seq(Nat), Len(q) <= Slots,
         NEW push \in Seq(Nat), Len(push) <= 1, NEW pop \in BOOLEAN
  PROVE  CountFifo(q, push, pop) \in Seq(Nat) /\ Len(CountFifo(q, push, pop)) <= Slots
<1> USE FifoAssumption
<1>1. CASE pop /\ q = <<>>
  BY <1>1 DEF CountFifo
<1>2. CASE q # <<>> /\ (pop \/ (push # <<>> /\ Len(q) = Slots))
  <2>1. CountFifo(q, push, pop) = Tail(q) \o push
    BY <1>2 DEF CountFifo
  <2>2. Tail(q) \in Seq(Nat) /\ Len(Tail(q)) = Len(q) - 1
    BY <1>2, HeadTailProperties
  <2>3. Tail(q) \o push \in Seq(Nat) /\ Len(Tail(q) \o push) = Len(q) - 1 + Len(push)
    BY <2>2, ConcatProperties
  <2> QED BY <2>1, <2>3
<1>3. CASE ~(pop /\ q = <<>>) /\ ~(q # <<>> /\ (pop \/ (push # <<>> /\ Len(q) = Slots)))
  <2>1. CountFifo(q, push, pop) = q \o push
    BY <1>3 DEF CountFifo
  <2>2. q \o push \in Seq(Nat) /\ Len(q \o push) = Len(q) + Len(push)
    BY ConcatProperties
  <2>3. push # <<>> => Len(q) < Slots
    <3>1. CASE q = <<>>
      BY <3>1
    <3>2. CASE q # <<>>
      BY <1>3, <3>2
    <3> QED BY <3>1, <3>2
  <2>4. push = <<>> => Len(push) = 0
    OBVIOUS
  <2> QED BY <2>1, <2>2, <2>3, <2>4
<1> QED BY <1>1, <1>2, <1>3

\* An address after wrapping is one of the buffer.
LEMMA ModIsTyped ==
  ASSUME NEW n \in Nat, NEW d \in Nat \ {0}
  PROVE  n % d \in 0 .. d - 1
  OBVIOUS

\* The bits of each half.
TxBits ==
  /\ SCFIFOError \in BOOLEAN /\ ReadData \in BOOLEAN /\ PopSC \in BOOLEAN
  /\ Go \in BOOLEAN /\ FDGo \in BOOLEAN /\ SCNZ \in BOOLEAN
RxBits ==
  /\ RCFIFOError \in BOOLEAN /\ RPushData \in BOOLEAN /\ RPushRC \in BOOLEAN
  /\ RGo \in BOOLEAN /\ RFDGo \in BOOLEAN

\* A clear leaves both halves empty.
LEMMA InitTyped == LinkInit => TypeInv
<1> SUFFICES ASSUME LinkInit PROVE TypeInv
  OBVIOUS
<1>1. mode.delay \in Nat /\ DriveDelayCount \in {0, mode.delay}
  BY TxAssumption DEF LinkInit, TxInit
<1>2. /\ InAdd = 0 /\ OutAdd = 0 /\ counts = <<>> /\ SendCount = 0 /\ BytePointer = 0
      /\ RInAdd = 0 /\ ROutAdd = 0 /\ rcounts = <<>> /\ RecvCount = 0 /\ RBytePointer = 0
      /\ frame = <<>> /\ spoiled \in BOOLEAN
  BY DEF LinkInit, TxInit, RxInit
<1>3. TxBits /\ RxBits
  BY DEF LinkInit, TxInit, RxInit, TxBits, RxBits
<1>4. /\ InAdd \in 0 .. Depth - 1 /\ OutAdd \in 0 .. Depth - 1 /\ Len(counts) <= Slots
      /\ SendCount \in Nat /\ BytePointer \in 0 .. W - 1 /\ DriveDelayCount \in 0 .. mode.delay
  BY <1>1, <1>2, FifoAssumption
<1>5. /\ RInAdd \in 0 .. Depth - 1 /\ ROutAdd \in 0 .. Depth - 1 /\ Len(rcounts) <= Slots
      /\ RecvCount \in Nat /\ RBytePointer \in 0 .. W - 1
  BY <1>2, FifoAssumption
<1>6. Counts
  BY <1>1, <1>2 DEF Counts
<1> QED BY <1>2, <1>3, <1>4, <1>5, <1>6 DEF TypeInv, LinkTypeOK, TxTypeOK, RxTypeOK, TxBits, RxBits

\* An edge of the transmitter, with a push of at most one word and one count.
LEMMA TxEdgeTyped ==
  ASSUME TypeInv, NEW push, Len(push) \in Nat, NEW cnt \in Seq(Nat), Len(cnt) <= 1,
         NEW Clear \in BOOLEAN, NEW tick \in BOOLEAN, TxEdge(push, cnt, Clear, tick)
  PROVE  TxTypeOK' /\ counts' \in Seq(Nat) /\ mode'.delay \in Nat
<1>0. /\ TxBits /\ counts \in Seq(Nat) /\ Len(counts) <= Slots /\ mode.delay \in Nat
      /\ InAdd \in Nat /\ OutAdd \in Nat /\ SendCount \in Nat /\ BytePointer \in 0 .. W - 1
      /\ DriveDelayCount \in 0 .. mode.delay
  BY FifoAssumption DEF TypeInv, LinkTypeOK, Counts, TxTypeOK, TxBits
<1>1. Background(push, cnt, Clear)
  BY DEF TxEdge
<1>2. InAdd' \in 0 .. Depth - 1 /\ OutAdd' \in 0 .. Depth - 1
  <2>1. InAdd + Len(push) \in Nat /\ OutAdd + (IF ReadData THEN 1 ELSE 0) \in Nat
    BY <1>0
  <2>2. (InAdd + Len(push)) % Depth \in 0 .. Depth - 1
        /\ (OutAdd + IF ReadData THEN 1 ELSE 0) % Depth \in 0 .. Depth - 1
    BY <2>1, FifoAssumption, ModIsTyped
  <2>3. 0 \in 0 .. Depth - 1
    BY FifoAssumption
  <2> QED BY <1>1, <2>2, <2>3 DEF Background
<1>3. counts' \in Seq(Nat) /\ Len(counts') <= Slots
  <2>1. counts' = IF Clear THEN <<>> ELSE CountFifo(counts, cnt, PopSC)
    BY <1>1 DEF Background
  <2> QED BY <1>0, <2>1, CountFifoTyped, FifoAssumption DEF TxBits
<1>4. mode' = mode /\ SCFIFOError' \in BOOLEAN
  BY <1>1 DEF Background
<1>5. DriveDelayCount' \in 0 .. mode.delay
  BY <1>0, <1>1 DEF Background, WaitingForDrive
<1>6. Shifting(Clear, tick) \/ StartByte(Clear) \/ NextFrame(Clear)
  BY DEF TxEdge
<1>7. /\ ReadData' \in BOOLEAN /\ PopSC' \in BOOLEAN
      /\ Go' \in BOOLEAN /\ FDGo' \in BOOLEAN /\ SCNZ' \in BOOLEAN
  BY <1>0, <1>6 DEF TxBits, Shifting, StartByte, NextFrame
<1>8. SendCount' \in Nat
  <2>1. CASE Shifting(Clear, tick)
    BY <1>0, <2>1 DEF Shifting
  <2>2. CASE StartByte(Clear)
    BY <1>0, <2>2 DEF StartByte
  <2>3. CASE NextFrame(Clear)
    <3>1. counts # <<>> => Head(counts) \in Nat
      BY <1>0, HeadTailProperties
    <3> QED BY <1>0, <2>3, <3>1 DEF NextFrame
  <2> QED BY <1>6, <2>1, <2>2, <2>3
<1>9. BytePointer' \in 0 .. W - 1
  <2>1. (BytePointer + 1) % W \in 0 .. W - 1 /\ 0 \in 0 .. W - 1
    <3>1. BytePointer + 1 \in Nat /\ 0 \in 0 .. W - 1
      BY <1>0, FifoAssumption
    <3> QED BY <3>1, FifoAssumption, ModIsTyped
  <2> QED BY <1>0, <1>6, <2>1 DEF Shifting, StartByte, NextFrame
<1> QED BY <1>0, <1>2, <1>3, <1>4, <1>5, <1>7, <1>8, <1>9 DEF TxTypeOK

\* An edge of the receiver.
LEMMA RxStepTyped ==
  ASSUME TypeInv, NEW popdata \in BOOLEAN, NEW poprc \in BOOLEAN, NEW Clear \in BOOLEAN,
         RxStep(popdata, poprc, Clear), spoiled' \in BOOLEAN
  PROVE  TypeInv'
<1>0. /\ RxBits /\ rcounts \in Seq(Nat) /\ Len(rcounts) <= Slots
      /\ RInAdd \in Nat /\ ROutAdd \in Nat /\ RecvCount \in Nat /\ RBytePointer \in 0 .. W - 1
  BY FifoAssumption DEF TypeInv, LinkTypeOK, Counts, RxTypeOK, RxBits
<1>1. RBackground(popdata, poprc, Clear) /\ UNCHANGED <<txVars, frame>>
  BY DEF RxStep
<1>2. RInAdd' \in 0 .. Depth - 1 /\ ROutAdd' \in 0 .. Depth - 1
  <2>1. RInAdd + (IF RPushData THEN 1 ELSE 0) \in Nat
        /\ ROutAdd + (IF popdata THEN 1 ELSE 0) \in Nat
    BY <1>0
  <2>2. (RInAdd + IF RPushData THEN 1 ELSE 0) % Depth \in 0 .. Depth - 1
        /\ (ROutAdd + IF popdata THEN 1 ELSE 0) % Depth \in 0 .. Depth - 1
    BY <2>1, FifoAssumption, ModIsTyped
  <2>3. 0 \in 0 .. Depth - 1
    BY FifoAssumption
  <2> QED BY <1>1, <2>2, <2>3 DEF RBackground
<1>3. rcounts' \in Seq(Nat) /\ Len(rcounts') <= Slots
  <2>1. rcounts' = IF Clear THEN <<>> ELSE CountFifo(rcounts, Pending, poprc)
    BY <1>1 DEF RBackground
  <2>2. Pending \in Seq(Nat) /\ Len(Pending) <= 1
    BY <1>0 DEF Pending
  <2> QED BY <1>0, <2>1, <2>2, CountFifoTyped, FifoAssumption
<1>4. RCFIFOError' \in BOOLEAN
  BY <1>1 DEF RBackground
<1>5. CharEnd(wire[1], Clear) \/ FrameTimeout(Clear) \/ Listen(wire # <<>>, Clear)
  BY DEF RxStep
<1>6. RPushData' \in BOOLEAN /\ RPushRC' \in BOOLEAN /\ RGo' \in BOOLEAN /\ RFDGo' \in BOOLEAN
  BY <1>0, <1>5 DEF RxBits, CharEnd, FrameTimeout, Listen
<1>7. RecvCount' \in Nat
  BY <1>0, <1>5 DEF CharEnd, FrameTimeout, Listen
<1>8. RBytePointer' \in 0 .. W - 1
  <2>1. (RBytePointer + 1) % W \in 0 .. W - 1 /\ 0 \in 0 .. W - 1
    <3>1. RBytePointer + 1 \in Nat /\ 0 \in 0 .. W - 1
      BY <1>0, FifoAssumption
    <3> QED BY <3>1, FifoAssumption, ModIsTyped
  <2> QED BY <1>0, <1>5, <2>1 DEF CharEnd, FrameTimeout, Listen
<1>9. RxTypeOK'
  BY <1>2, <1>3, <1>4, <1>6, <1>7, <1>8 DEF RxTypeOK
<1>10. UNCHANGED <<InAdd, OutAdd, counts, SCFIFOError, SendCount, BytePointer, ReadData, PopSC,
                   Go, FDGo, SCNZ, DriveDelayCount, mode, frame>>
  BY <1>1 DEF txVars
<1>11. TxTypeOK' /\ Counts'
  BY <1>3, <1>10 DEF TypeInv, LinkTypeOK, TxTypeOK, Counts
<1> QED BY <1>9, <1>11 DEF TypeInv, LinkTypeOK

\* Every step keeps the types.
LEMMA TypeKept == TypeInv /\ [LinkNext]_linkVars => TypeInv'
<1> SUFFICES ASSUME TypeInv, [LinkNext]_linkVars PROVE TypeInv'
  OBVIOUS
<1>0. /\ <<>> \in Seq(Nat) /\ Len(<<>>) \in Nat /\ Len(<<>>) <= 1
      /\ FALSE \in BOOLEAN /\ TRUE \in BOOLEAN
  OBVIOUS
<1>1. ASSUME TxTypeOK' /\ counts' \in Seq(Nat) /\ mode'.delay \in Nat,
             UNCHANGED <<rxVars, spoiled>>, frame' = <<>> \/ frame' = frame
      PROVE  TypeInv'
  BY <1>1 DEF TypeInv, LinkTypeOK, RxTypeOK, Counts, rxVars
<1>2. ASSUME NEW tick \in BOOLEAN, TxQuiet(tick) PROVE TypeInv'
  <2>1. TxEdge(<<>>, <<>>, FALSE, tick) /\ UNCHANGED <<rxVars, spoiled>> /\ frame' = frame
    BY <1>2 DEF TxQuiet, TxStep
  <2>2. TxTypeOK' /\ counts' \in Seq(Nat) /\ mode'.delay \in Nat
    BY <1>0, <2>1, TxEdgeTyped, Zenon
  <2> QED BY <1>1, <2>1, <2>2
<1>3. ASSUME NEW tick \in BOOLEAN, PushWord(tick) PROVE TypeInv'
  <2>1. TxEdge(<<Head(todo)>>, <<>>, FALSE, tick) /\ UNCHANGED <<rxVars, spoiled>> /\ frame' = frame
    BY <1>3 DEF PushWord, TxStep
  <2>2. Len(<<Head(todo)>>) \in Nat
    OBVIOUS
  <2>3. TxTypeOK' /\ counts' \in Seq(Nat) /\ mode'.delay \in Nat
    BY <1>0, <2>1, <2>2, TxEdgeTyped, Zenon
  <2> QED BY <1>1, <2>1, <2>3
<1>4. ASSUME NEW tick \in BOOLEAN, PushCount(tick) PROVE TypeInv'
  <2>1. TxEdge(<<>>, <<Len(frame)>>, FALSE, tick) /\ UNCHANGED <<rxVars, spoiled>> /\ frame' = <<>>
    BY <1>4 DEF PushCount, TxStep
  <2>2. Len(frame) \in Nat
    BY <1>4, LinkAssumption DEF PushCount, TypeInv, Counts
  <2>3. <<Len(frame)>> \in Seq(Nat) /\ Len(<<Len(frame)>>) <= 1
    BY <2>2
  <2>4. TxTypeOK' /\ counts' \in Seq(Nat) /\ mode'.delay \in Nat
    BY <1>0, <2>1, <2>3, TxEdgeTyped, Zenon
  <2> QED BY <1>1, <2>1, <2>4
<1>5. CASE ClearTx
  <2>1. TxEdge(<<>>, <<>>, TRUE, FALSE) /\ UNCHANGED <<rxVars, spoiled>> /\ frame' = <<>>
    BY <1>5 DEF ClearTx, TxStep
  <2>2. TxTypeOK' /\ counts' \in Seq(Nat) /\ mode'.delay \in Nat
    BY <1>0, <2>1, TxEdgeTyped, Zenon
  <2> QED BY <1>1, <2>1, <2>2
<1>6. ASSUME NEW f \in Frames, ChooseFrame(f) PROVE TypeInv'
  BY <1>6 DEF ChooseFrame, TypeInv, LinkTypeOK, TxTypeOK, RxTypeOK, Counts, txVars, rxVars
<1>7. CASE RxQuiet \/ PopCount \/ PopWord \/ ClearRx
  <2>1. spoiled \in BOOLEAN /\ spoiled' \in BOOLEAN
    <3>1. spoiled \in BOOLEAN
      BY DEF TypeInv, LinkTypeOK
    <3>2. spoiled' = spoiled \/ spoiled' = (spoiled \/ RPushRC')
      BY <1>7 DEF RxQuiet, PopCount, PopWord, ClearRx
    <3> QED BY <3>1, <3>2
  <2> QED BY <1>7, <2>1, RxStepTyped DEF RxQuiet, PopCount, PopWord, ClearRx
<1>8. CASE UNCHANGED linkVars
  BY <1>8 DEF linkVars, hostVars, TypeInv, LinkTypeOK, TxTypeOK, RxTypeOK, Counts,
              txVars, rxVars
<1> QED BY <1>2, <1>3, <1>4, <1>5, <1>6, <1>7, <1>8 DEF LinkNext

(***************************************************************************)
(* Both halves stay well typed; no FIFO of counts outgrows its slots.      *)
(***************************************************************************)
THEOREM LinkTyped == LinkSpec => []LinkTypeOK
<1>1. TypeInv => LinkTypeOK
  BY DEF TypeInv
<1> QED BY <1>1, InitTyped, TypeKept, PTL DEF LinkSpec

-----------------------------------------------------------------------------
(***************************************************************************)
(* Division by a parameter, and the words a number of bytes takes.         *)
(***************************************************************************)

\* Division by a parameter: quotient and remainder are determined by their bounds.
LEMMA DivIs ==
  ASSUME NEW d \in Nat \ {0}, NEW n \in Nat
  PROVE  /\ n \div d \in Nat /\ n % d \in 0 .. d - 1
         /\ n = d * (n \div d) + (n % d)
<1>1. n \div d \in Nat
  OBVIOUS
<1>2. n % d \in 0 .. d - 1
  OBVIOUS
<1>3. n = d * (n \div d) + (n % d)
  OBVIOUS
<1> QED BY <1>1, <1>2, <1>3

LEMMA DivUnique ==
  ASSUME NEW d \in Nat \ {0}, NEW n \in Nat, NEW k \in Int, NEW r \in 0 .. d - 1, n = d * k + r
  PROVE  n \div d = k /\ n % d = r
<1>1. n \div d = k
  OBVIOUS
<1>2. n % d = r
  OBVIOUS
<1> QED BY <1>1, <1>2

\* A remainder may be taken before adding.
LEMMA ModAdd ==
  ASSUME NEW d \in Nat \ {0}, NEW a \in Nat, NEW k \in Nat
  PROVE  ((a % d) + k) % d = (a + k) % d
<1> DEFINE q == a \div d
           m == (a % d) + k
<1>1. q \in Nat /\ a % d \in 0 .. d - 1 /\ a = d * q + (a % d)
  BY DivIs
<1>2. m \in Nat /\ m \div d \in Nat /\ m % d \in 0 .. d - 1 /\ m = d * (m \div d) + (m % d)
  <2>1. m \in Nat
    BY <1>1
  <2> QED BY <2>1, DivIs
<1>3. d * (q + m \div d) = d * q + d * (m \div d)
  BY <1>1, <1>2
<1>4. a + k = d * (q + m \div d) + (m % d)
  BY <1>1, <1>2, <1>3
<1>5. a + k \in Nat /\ q + m \div d \in Int
  BY <1>1, <1>2
<1> HIDE DEF q, m
<1>6. (a + k) % d = m % d
  BY <1>2, <1>4, <1>5, DivUnique, Zenon
<1> QED BY <1>6 DEF m

\* Fewer than d steps do not lead back to the same remainder.
LEMMA ModDiffers ==
  ASSUME NEW d \in Nat \ {0}, NEW a \in Nat, NEW k \in 1 .. d - 1
  PROVE  (a + k) % d # a % d
<1> DEFINE q == a \div d
           r == a % d
<1>1. q \in Nat /\ r \in 0 .. d - 1 /\ a = d * q + r
  BY DivIs
<1> HIDE DEF q, r
<1>2. CASE r + k < d
  <2>1. (a + k) % d = r + k
    BY <1>1, <1>2, DivUnique
  <2> QED BY <1>1, <2>1 DEF r
<1>3. CASE r + k >= d
  <2>1. d * (q + 1) = d * q + d
    BY <1>1
  <2>2. a + k = d * (q + 1) + (r + k - d) /\ r + k - d \in 0 .. d - 1
        /\ a + k \in Nat /\ q + 1 \in Int
    BY <1>1, <1>3, <2>1
  <2>3. (a + k) % d = r + k - d
    BY <2>2, DivUnique
  <2> QED BY <1>1, <2>3 DEF r
<1> QED BY <1>1, <1>2, <1>3

\* Sums and products, for the leaves in which they are not all there is.
LEMMA AddNat == \A x \in Nat, y \in Nat : x + y \in Nat
  OBVIOUS

LEMMA MulNat == \A x \in Nat, y \in Nat : x * y \in Nat
  OBVIOUS

LEMMA AddAssoc ==
  ASSUME NEW a \in Nat, NEW b \in Nat, NEW c \in Nat PROVE (a + b) + c = a + (b + c)
  OBVIOUS

\* What is below a part is below the whole.
LEMMA PartIs ==
  ASSUME NEW a \in Nat, NEW b \in Nat, NEW c \in Nat, a + b <= c
  PROVE  a \in 0 .. c /\ b \in 0 .. c
  OBVIOUS

\* Bytes and words.
LEMMA WordIs ==
  ASSUME NEW n \in Nat
  PROVE  /\ n \div W \in Nat /\ n % W \in 0 .. W - 1
         /\ n = W * (n \div W) + (n % W)
BY DivIs, FifoAssumption

\* A word further on.
LEMMA NextWord ==
  ASSUME NEW n \in Nat
  PROVE  (n + W) \div W = n \div W + 1 /\ (n + W) % W = n % W
<1>1. W * (n \div W + 1) = W * (n \div W) + W
  BY WordIs, FifoAssumption
<1>2. n + W = W * (n \div W + 1) + (n % W)
  BY <1>1, WordIs, FifoAssumption
<1>3. n + W \in Nat /\ n \div W + 1 \in Int /\ n % W \in 0 .. W - 1 /\ W \in Nat \ {0}
  BY WordIs, FifoAssumption
<1> QED BY <1>2, <1>3, DivUnique, Zenon

\* The words of n bytes: as many as hold them.
LEMMA WordsForIs ==
  ASSUME NEW n \in Nat
  PROVE  /\ WordsFor(n) \in Nat
         /\ n <= W * WordsFor(n) /\ (W * WordsFor(n) < n + W)
         /\ \A k \in Nat : WordsFor(n) <= k <=> n <= W * k
<1> DEFINE q == (n + W - 1) \div W
<1>0. n + W - 1 \in Nat
  BY FifoAssumption
<1>1. q \in Nat /\ (n + W - 1) % W \in 0 .. W - 1 /\ n + W - 1 = W * q + ((n + W - 1) % W)
  BY <1>0, DivIs, FifoAssumption, Zenon
<1>2. WordsFor(n) = q
  BY DEF WordsFor
<1> HIDE DEF q
<1> DEFINE p == W * q
<1>a. p \in Nat
  BY <1>1, FifoAssumption
<1>b. n <= p /\ p < n + W
  <2> HIDE DEF p
  <2>1. ASSUME NEW r \in 0 .. W - 1, n + W - 1 = p + r PROVE n <= p /\ p < n + W
    BY <1>a, <2>1, FifoAssumption
  <2>2. n + W - 1 = p + ((n + W - 1) % W)
    BY <1>1 DEF p
  <2> QED BY <1>1, <2>1, <2>2, Zenon
<1>3. n <= W * q /\ W * q < n + W /\ W * q \in Nat
  BY <1>a, <1>b
<1>4. ASSUME NEW k \in Nat, q <= k PROVE n <= W * k
  <2>1. W * q <= W * k
    BY <1>1, <1>4, FifoAssumption
  <2> QED BY <1>3, <2>1, FifoAssumption
<1>5. ASSUME NEW k \in Nat, ~(q <= k) PROVE ~(n <= W * k)
  <2>1. W * (k + 1) <= W * q
    BY <1>1, <1>5, FifoAssumption
  <2>2. W * (k + 1) = W * k + W
    BY FifoAssumption
  <2> QED BY <1>3, <2>1, <2>2, FifoAssumption
<1> QED BY <1>1, <1>2, <1>3, <1>4, <1>5

LEMMA WordsForNat == \A n \in Nat : WordsFor(n) \in Nat
  BY WordsForIs

\* What pushing, popping and indexing need of the number of words.
LEMMA WordsForFacts ==
  ASSUME NEW n \in Nat
  PROVE  /\ WordsFor(0) = 0 /\ (n # 0 => WordsFor(n) # 0)
         /\ WordsFor(n + W) = WordsFor(n) + 1
         /\ \A m \in Nat : m <= n => WordsFor(m) <= WordsFor(n)
         /\ \A i \in Nat : i < n => i \div W < WordsFor(n)
         /\ WordsFor(n) = n \div W + (IF n % W = 0 THEN 0 ELSE 1)
<1>1. WordsFor(0) = 0
  BY WordsForIs, FifoAssumption
<1>2. n # 0 => WordsFor(n) # 0
  BY WordsForIs, FifoAssumption
<1>3. WordsFor(n + W) = WordsFor(n) + 1
  <2>1. n + W + W - 1 = (n + W - 1) + W /\ n + W - 1 \in Nat
    BY FifoAssumption
  <2> QED BY <2>1, NextWord DEF WordsFor
<1>4. ASSUME NEW m \in Nat, m <= n PROVE WordsFor(m) <= WordsFor(n)
  <2>1. m <= W * WordsFor(n) /\ WordsFor(n) \in Nat
    BY <1>4, WordsForIs, FifoAssumption
  <2> QED BY <2>1, WordsForIs
<1>5. ASSUME NEW i \in Nat, i < n PROVE i \div W < WordsFor(n)
  <2> SUFFICES ASSUME WordsFor(n) <= i \div W PROVE FALSE
    BY <1>5, WordIs, WordsForIs
  <2>1. n <= W * (i \div W)
    BY WordIs, WordsForIs
  <2>2. i = W * (i \div W) + (i % W) /\ i \div W \in Nat /\ i % W \in Nat
    BY WordIs, FifoAssumption
  <2> DEFINE q == W * (i \div W)
  <2>3. q \in Nat
    BY <2>2, FifoAssumption
  <2> HIDE DEF q
  <2>4. q <= i
    BY <2>2, <2>3 DEF q
  <2> QED BY <1>5, <2>1, <2>3, <2>4 DEF q
<1>6. WordsFor(n) = n \div W + (IF n % W = 0 THEN 0 ELSE 1)
  <2>1. CASE n % W = 0
    <3>0. n = W * (n \div W) + 0
      BY <2>1, WordIs
    <3> DEFINE q == W * (n \div W)
    <3>3. q \in Nat
      BY WordIs, FifoAssumption
    <3> HIDE DEF q
    <3>4. n + W - 1 = q + (W - 1) /\ n + W - 1 \in Nat
      BY <3>0, <3>3, FifoAssumption DEF q
    <3>1. n + W - 1 = W * (n \div W) + (W - 1) /\ n + W - 1 \in Nat
      BY <3>4 DEF q
    <3>2. (n + W - 1) \div W = n \div W
      <4>1. W \in Nat \ {0} /\ n \div W \in Int /\ W - 1 \in 0 .. W - 1
        BY WordIs, FifoAssumption
      <4> HIDE DEF WordsFor
      <4> QED BY <3>1, <4>1, DivUnique, Zenon
    <3> QED BY <2>1, <3>2, WordIs DEF WordsFor
  <2>2. CASE n % W # 0
    <3>0. W * (n \div W + 1) = W * (n \div W) + W
      BY WordIs, FifoAssumption
    <3>1. n + W - 1 = W * (n \div W + 1) + ((n % W) - 1) /\ n + W - 1 \in Nat
          /\ (n % W) - 1 \in 0 .. W - 1
      <4> DEFINE q == W * (n \div W)
                 k == n % W
      <4>1. q \in Nat /\ k \in 0 .. W - 1 /\ k # 0 /\ n = q + k
        BY <2>2, WordIs, FifoAssumption
      <4>2. W * (n \div W + 1) = q + W
        BY <3>0
      <4> HIDE DEF q, k
      <4>3. n + W - 1 = (q + W) + (k - 1) /\ n + W - 1 \in Nat /\ k - 1 \in 0 .. W - 1
        BY <4>1, FifoAssumption
      <4> QED BY <4>2, <4>3 DEF k
    <3>2. (n + W - 1) \div W = n \div W + 1
      <4>1. W \in Nat \ {0} /\ n \div W + 1 \in Int
        BY WordIs, FifoAssumption
      <4> QED BY <3>1, <4>1, DivUnique, Zenon
    <3> QED BY <2>2, <3>2, WordIs DEF WordsFor
  <2> QED BY <2>1, <2>2
<1> QED BY <1>1, <1>2, <1>3, <1>4, <1>5, <1>6

-----------------------------------------------------------------------------
(***************************************************************************)
(* Sequences, and the bytes in a buffer.                                   *)
(***************************************************************************)

\* Sequences over a set are of this form.
LEMMA SeqIs ==
  ASSUME NEW S, NEW s \in Seq(S) PROVE IsSeq(s)
  BY DEF IsSeq

LEMMA SeqOf ==
  ASSUME NEW S, NEW s, IsSeq(s), \A i \in 1 .. Len(s) : s[i] \in S
  PROVE  s \in Seq(S)
  BY DEF IsSeq

\* Concatenation: its length, its elements, and the empty sequence.
LEMMA ConcatIs ==
  ASSUME NEW s, NEW t, IsSeq(s), IsSeq(t)
  PROVE  /\ IsSeq(Cat(s, t)) /\ Len(Cat(s, t)) = Len(s) + Len(t)
         /\ Cat(s, t) = [i \in 1 .. Len(s) + Len(t) |-> IF i <= Len(s) THEN s[i] ELSE t[i - Len(s)]]
         /\ Cat(s, <<>>) = s /\ Cat(<<>>, s) = s
         /\ (Cat(s, t) = <<>> => s = <<>> /\ t = <<>>)
<1> DEFINE S == {s[i] : i \in 1 .. Len(s)} \cup {t[i] : i \in 1 .. Len(t)}
<1>1. s \in Seq(S) /\ t \in Seq(S)
  BY DEF IsSeq
<1> HIDE DEF S
<1>2. s \o t \in Seq(S) /\ Len(s \o t) = Len(s) + Len(t)
  BY <1>1
<1>3. s \o t = [i \in 1 .. Len(s) + Len(t) |-> IF i <= Len(s) THEN s[i] ELSE t[i - Len(s)]]
  <2>1. \A i \in 1 .. Len(s) + Len(t) : (s \o t)[i] = IF i <= Len(s) THEN s[i] ELSE t[i - Len(s)]
    BY <1>1, ConcatProperties
  <2>2. s \o t = [i \in 1 .. Len(s) + Len(t) |-> (s \o t)[i]]
    BY <1>2, SeqIs DEF IsSeq
  <2> QED BY <2>1, <2>2
<1>4. s \o <<>> = s /\ <<>> \o s = s
  BY <1>1
<1>5. s \o t = <<>> => s = <<>> /\ t = <<>>
  BY <1>1, ConcatEqualIffEmpty
<1>6. IsSeq(s \o t)
  BY <1>2, SeqIs
<1> QED BY <1>2, <1>3, <1>4, <1>5, <1>6, Zenon DEF Cat

LEMMA ConcatAssoc ==
  ASSUME NEW s, NEW t, NEW u, IsSeq(s), IsSeq(t), IsSeq(u)
  PROVE  Cat(Cat(s, t), u) = Cat(s, Cat(t, u))
<1> DEFINE S == {s[i] : i \in 1 .. Len(s)} \cup {t[i] : i \in 1 .. Len(t)}
                \cup {u[i] : i \in 1 .. Len(u)}
<1>1. s \in Seq(S) /\ t \in Seq(S) /\ u \in Seq(S)
  <2>1. /\ \A i \in 1 .. Len(s) : s[i] \in S
        /\ \A i \in 1 .. Len(t) : t[i] \in S
        /\ \A i \in 1 .. Len(u) : u[i] \in S
    OBVIOUS
  <2> HIDE DEF S
  <2> QED BY <2>1, SeqOf
<1> HIDE DEF S
<1>2. (s \o t) \o u = s \o (t \o u)
  BY <1>1, ConcatAssociative
<1> QED BY <1>2 DEF Cat

\* The empty sequence and a sequence of one.
LEMMA EmptyIs ==
  /\ IsSeq(<<>>) /\ Len(<<>>) = 0
  /\ \A x : IsSeq(One(x)) /\ Len(One(x)) = 1 /\ One(x)[1] = x /\ One(x) # <<>>
  BY DEF IsSeq, One

LEMMA CatTyped ==
  ASSUME NEW s \in Seq(Nat), NEW t \in Seq(Nat), NEW n \in Nat
  PROVE  /\ Cat(s, t) \in Seq(Nat) /\ Len(Cat(s, t)) = Len(s) + Len(t)
         /\ One(n) \in Seq(Nat) /\ <<>> \in Seq(Nat)
  BY DEF Cat, One

\* Length, head and tail.
LEMMA LenIs ==
  ASSUME NEW s, IsSeq(s)
  PROVE  /\ (s = <<>> <=> Len(s) = 0) /\ DOMAIN s = 1 .. Len(s)
         /\ (s # <<>> => /\ IsSeq(Tail(s)) /\ Len(Tail(s)) = Len(s) - 1 /\ Head(s) = s[1]
                         /\ Cat(One(Head(s)), Tail(s)) = s
                         /\ \A i \in 1 .. Len(s) - 1 : Tail(s)[i] = s[i + 1])
<1> DEFINE S == {s[i] : i \in 1 .. Len(s)}
<1>1. s \in Seq(S)
  BY DEF IsSeq
<1> HIDE DEF S
<1>2. s # <<>> => /\ Tail(s) \in Seq(S) /\ Len(Tail(s)) = Len(s) - 1 /\ Head(s) = s[1]
                  /\ \A i \in 1 .. Len(s) - 1 : Tail(s)[i] = s[i + 1]
  BY <1>1, HeadTailProperties
<1>3. s # <<>> => <<Head(s)>> \o Tail(s) = s
  BY <1>1
<1>4. (s = <<>> <=> Len(s) = 0) /\ DOMAIN s = 1 .. Len(s)
  BY <1>1
<1>5. s # <<>> => IsSeq(Tail(s))
  BY <1>2, SeqIs
<1>6. s # <<>> => Cat(One(Head(s)), Tail(s)) = s
  BY <1>3 DEF Cat, One
<1> QED BY <1>2, <1>4, <1>5, <1>6

LEMMA CatHead ==
  ASSUME NEW x, NEW s, IsSeq(s)
  PROVE  Head(Cat(One(x), s)) = x /\ Tail(Cat(One(x), s)) = s /\ Cat(One(x), s) # <<>>
<1> DEFINE S == {s[i] : i \in 1 .. Len(s)} \cup {x}
<1>1. s \in Seq(S) /\ x \in S
  BY DEF IsSeq
<1> HIDE DEF S
<1>2. Head(<<x>> \o s) = x /\ Tail(<<x>> \o s) = s /\ <<x>> \o s # <<>>
  BY <1>1
<1> QED BY <1>2 DEF Cat, One

\* Two buffers have the same n words from a and from b.
Agree(mem, a, mem2, b, n) ==
  \A j \in 0 .. n - 1 : mem[(a + j) % Depth] = mem2[(b + j) % Depth]

\* Addresses that are the same stay so when both move on.
LEMMA SameAdd ==
  ASSUME NEW a \in Nat, NEW b \in Nat, NEW k \in Nat, Same(a, b)
  PROVE  Same(a + k, b + k) /\ Same(a % Depth, a)
<1>0. Depth \in Nat \ {0} /\ 0 \in Nat /\ a % Depth \in Nat /\ a % Depth = b % Depth
  BY DivIs, FifoAssumption DEF Same
<1>1. (a + k) % Depth = ((a % Depth) + k) % Depth /\ (b + k) % Depth = ((b % Depth) + k) % Depth
  BY <1>0, ModAdd, Zenon
<1>2. ((a % Depth) + 0) % Depth = (a + 0) % Depth
  BY <1>0, ModAdd, Zenon
<1>3. (a % Depth) + 0 = a % Depth /\ a + 0 = a
  BY <1>0
<1>4. (a % Depth) % Depth = a % Depth
  BY <1>2, <1>3, Zenon
<1> QED BY <1>0, <1>1, <1>4, Zenon DEF Same

LEMMA AgreeShift ==
  ASSUME NEW mem, NEW a \in Nat, NEW b \in Nat, NEW n \in Nat, Same(a, b)
  PROVE  Agree(mem, a, mem, b, n)
  BY SameAdd DEF Agree, Same

\* A word written behind the n words does not change them.
LEMMA AgreePut ==
  ASSUME NEW mem, DOMAIN mem = 0 .. Depth - 1, NEW a \in Nat, NEW b \in Nat, NEW n \in Nat,
         Same(a, b), NEW x \in 0 .. Depth - 1, NEW m \in Nat, Same(x, a + m),
         n <= m, m < Depth, NEW v
  PROVE  Agree(mem, a, [mem EXCEPT ![x] = v], b, n)
<1> SUFFICES ASSUME NEW j \in 0 .. n - 1
             PROVE  mem[(a + j) % Depth] = [mem EXCEPT ![x] = v][(b + j) % Depth]
  BY DEF Agree
<1>0. j \in Nat /\ a + j \in Nat /\ m - j \in 1 .. Depth - 1 /\ Depth \in Nat \ {0}
  BY FifoAssumption
<1>1. (a + j) % Depth = (b + j) % Depth /\ (a + j) % Depth \in 0 .. Depth - 1
  <2>1. Same(a + j, b + j)
    BY <1>0, SameAdd, Zenon
  <2>2. (a + j) % Depth \in 0 .. Depth - 1
    BY <1>0, DivIs, Zenon
  <2> QED BY <2>1, <2>2 DEF Same
<1>2. (a + j + (m - j)) % Depth # (a + j) % Depth
  BY <1>0, ModDiffers, Zenon
<1>3. x = (a + m) % Depth
  <2>1. x % Depth = x
    BY FifoAssumption
  <2> QED BY <2>1 DEF Same
<1>4. a + j + (m - j) = a + m
  OBVIOUS
<1>5. x # (a + j) % Depth
  BY <1>2, <1>3, <1>4
<1> QED BY <1>1, <1>5

\* A part of words that agree.
LEMMA AgreePart ==
  ASSUME NEW mem, NEW mem2, NEW a \in Nat, NEW b \in Nat, NEW n \in Nat,
         Agree(mem, a, mem2, b, n), NEW i \in Nat, NEW k \in Nat, i + k <= n
  PROVE  Agree(mem, a + i, mem2, b + i, k)
<1> SUFFICES ASSUME NEW j \in 0 .. k - 1
             PROVE  mem[(a + i + j) % Depth] = mem2[(b + i + j) % Depth]
  BY DEF Agree
<1>1. i + j \in 0 .. n - 1 /\ a + (i + j) = a + i + j /\ b + (i + j) = b + i + j
  OBVIOUS
<1> QED BY <1>1 DEF Agree

\* Bytes read off a buffer.
LEMMA BytesIs ==
  ASSUME NEW mem, NEW a, NEW o, NEW n \in Nat
  PROVE  /\ IsSeq(BytesAt(mem, a, o, n)) /\ Len(BytesAt(mem, a, o, n)) = n
         /\ BytesAt(mem, a, o, n) = <<>> <=> n = 0
<1>1. IsSeq(BytesAt(mem, a, o, n)) /\ Len(BytesAt(mem, a, o, n)) = n
  BY DEF BytesAt, IsSeq
<1> QED BY <1>1, LenIs

\* Bytes that are in words that agree are equal.
LEMMA BytesAgree ==
  ASSUME NEW mem, NEW mem2, NEW a \in Nat, NEW b \in Nat, NEW o \in Nat, NEW n \in Nat,
         Agree(mem, a, mem2, b, WordsFor(o + n))
  PROVE  BytesAt(mem, a, o, n) = BytesAt(mem2, b, o, n)
<1> SUFFICES ASSUME NEW i \in 1 .. n
             PROVE  mem[(a + (o + i - 1) \div W) % Depth] = mem2[(b + (o + i - 1) \div W) % Depth]
  BY DEF BytesAt
<1>1. o + i - 1 \in Nat /\ o + n \in Nat /\ o + i - 1 < o + n
  OBVIOUS
<1>2. (o + i - 1) \div W \in Nat /\ (o + i - 1) \div W < WordsFor(o + n) /\ WordsFor(o + n) \in Nat
  BY <1>1, WordsForFacts, WordsForIs, WordIs
<1> QED BY <1>2 DEF Agree

\* The first byte, and the rest.
LEMMA BytesHead ==
  ASSUME NEW mem, NEW a \in Nat, NEW o \in 0 .. W - 1, NEW n \in Nat \ {0}
  PROVE  BytesAt(mem, a, o, n) =
           Cat(One(mem[a % Depth][o + 1]),
               BytesAt(mem, a + (IF o = W - 1 THEN 1 ELSE 0), (o + 1) % W, n - 1))
<1> DEFINE d == IF o = W - 1 THEN 1 ELSE 0
           rest == BytesAt(mem, a + d, (o + 1) % W, n - 1)
<1>1. IsSeq(rest) /\ Len(rest) = n - 1 /\ IsSeq(One(mem[a % Depth][o + 1]))
      /\ Len(One(mem[a % Depth][o + 1])) = 1
  BY BytesIs, EmptyIs
<1>2. Cat(One(mem[a % Depth][o + 1]), rest) =
        [i \in 1 .. n |-> IF i = 1 THEN mem[a % Depth][o + 1] ELSE rest[i - 1]]
  <2> DEFINE s == One(mem[a % Depth][o + 1])
  <2>1. IsSeq(s) /\ IsSeq(rest)
    BY <1>1
  <2>2. Len(s) = 1 /\ s[1] = mem[a % Depth][o + 1] /\ Len(s) + Len(rest) = n
    BY <1>1, EmptyIs
  <2> HIDE DEF s, rest
  <2>3. Cat(s, rest) = [i \in 1 .. Len(s) + Len(rest) |->
                         IF i <= Len(s) THEN s[i] ELSE rest[i - Len(s)]]
    BY <2>1, ConcatIs
  <2>4. Cat(s, rest) = [i \in 1 .. n |-> IF i <= 1 THEN s[i] ELSE rest[i - 1]]
    BY <2>3, <2>2
  <2>5. Cat(s, rest) = [i \in 1 .. n |-> IF i = 1 THEN mem[a % Depth][o + 1] ELSE rest[i - 1]]
    BY <2>2, <2>4
  <2> QED BY <2>5 DEF s
<1>3. o \div W = 0 /\ o % W = o
  BY FifoAssumption
<1>4. ASSUME NEW i \in 2 .. n
      PROVE  rest[i - 1] = mem[(a + (o + i - 1) \div W) % Depth][((o + i - 1) % W) + 1]
  <2>1. rest[i - 1] = mem[(a + d + (((o + 1) % W) + (i - 1) - 1) \div W) % Depth]
                         [((((o + 1) % W) + (i - 1) - 1) % W) + 1]
    BY DEF BytesAt
  <2>2. CASE o = W - 1
    <3>1. (o + 1) % W = 0 /\ i - 2 \in Nat /\ o + i - 1 = (i - 2) + W
      BY <2>2, FifoAssumption
    <3>2. (o + i - 1) \div W = (i - 2) \div W + 1 /\ (o + i - 1) % W = (i - 2) % W
      BY <3>1, NextWord
    <3>3. ((o + 1) % W) + (i - 1) - 1 = i - 2
      BY <3>1
    <3>4. a + d + (i - 2) \div W = a + (o + i - 1) \div W
      BY <2>2, <3>1, <3>2, WordIs
    <3> QED BY <2>1, <3>2, <3>3, <3>4
  <2>3. CASE o # W - 1
    <3>1. (o + 1) % W = o + 1 /\ d = 0
      BY <2>3, FifoAssumption
    <3>2. ((o + 1) % W) + (i - 1) - 1 = o + i - 1 /\ a + d = a
      BY <3>1, FifoAssumption
    <3> QED BY <2>1, <3>2
  <2> QED BY <2>2, <2>3
<1>5. mem[(a + (o + 1 - 1) \div W) % Depth][((o + 1 - 1) % W) + 1] = mem[a % Depth][o + 1]
  <2>1. o + 1 - 1 = o /\ a + 0 = a
    BY FifoAssumption
  <2> QED BY <1>3, <2>1
<1> HIDE DEF rest
<1>6. BytesAt(mem, a, o, n) =
        [i \in 1 .. n |-> IF i = 1 THEN mem[a % Depth][o + 1] ELSE rest[i - 1]]
  BY <1>4, <1>5 DEF BytesAt
<1> QED BY <1>2, <1>6 DEF rest

\* One byte more.
LEMMA BytesNext ==
  ASSUME NEW mem, NEW a \in Nat, NEW n \in Nat
  PROVE  BytesAt(mem, a, 0, n + 1) =
           Cat(BytesAt(mem, a, 0, n), One(mem[(a + n \div W) % Depth][(n % W) + 1]))
<1> DEFINE s == BytesAt(mem, a, 0, n)
           b == mem[(a + n \div W) % Depth][(n % W) + 1]
<1>1. IsSeq(s) /\ Len(s) = n /\ IsSeq(One(b)) /\ Len(One(b)) = 1 /\ One(b)[1] = b
  BY BytesIs, EmptyIs
<1>2. Cat(s, One(b)) = [i \in 1 .. n + 1 |-> IF i <= n THEN s[i] ELSE One(b)[i - n]]
  <2> HIDE DEF s, b
  <2>0. IsSeq(s) /\ IsSeq(One(b))
    BY <1>1
  <2>1. Cat(s, One(b)) = [i \in 1 .. Len(s) + Len(One(b)) |->
                         IF i <= Len(s) THEN s[i] ELSE One(b)[i - Len(s)]]
    BY <2>0, ConcatIs
  <2> QED BY <1>1, <2>1, Zenon
<1>3. \A i \in 1 .. n : s[i] = mem[(a + (0 + i - 1) \div W) % Depth][((0 + i - 1) % W) + 1]
  BY DEF BytesAt
<1>4. 0 + (n + 1) - 1 = n
  OBVIOUS
<1> HIDE DEF s
<1>5. BytesAt(mem, a, 0, n + 1) = [i \in 1 .. n + 1 |-> IF i <= n THEN s[i] ELSE b]
  BY <1>3, <1>4 DEF BytesAt
<1> HIDE DEF b
<1>6. \A i \in 1 .. n + 1 : ~(i <= n) => One(b)[i - n] = b
  BY DEF One
<1>7. Cat(s, One(b)) = [i \in 1 .. n + 1 |-> IF i <= n THEN s[i] ELSE b]
  BY <1>2, <1>6
<1> QED BY <1>5, <1>7 DEF s, b

-----------------------------------------------------------------------------
(***************************************************************************)
(* Where the frames in a buffer begin. The offsets are a recursive         *)
(* function; that it adds up is proved with a set of the numbers for which *)
(* it does.                                                                *)
(***************************************************************************)

(***************************************************************************)
(* Induction over the naturals for a set.                                  *)
(***************************************************************************)
LEMMA SetInduction ==
  ASSUME NEW T, 0 \in T, \A n \in Nat : n \in T => n + 1 \in T
  PROVE  Nat \subseteq T
<1> DEFINE R == {ss \in Nat \X Nat : ss[1] < ss[2]}
           Rest == {n \in Nat : n \notin T}
<1>1. IsWellFoundedOn(R, Nat)
  BY NatLessThanWellFounded DEF OpToRel
<1>2. SUFFICES ASSUME Rest # {} PROVE FALSE
  OBVIOUS
<1> HIDE DEF R, Rest
<1>3. Rest \subseteq Nat
  BY DEF Rest
<1>4. PICK x \in Rest : \A y \in Rest : <<y, x>> \notin R
  BY <1>1, <1>2, <1>3, WFMin
<1>5. x # 0 /\ x \in Nat /\ x - 1 \in Nat /\ x = (x - 1) + 1
  BY <1>4 DEF Rest
<1>6. x - 1 \in T
  <2>1. <<x - 1, x>> \in R
    BY <1>5 DEF R
  <2> QED BY <2>1, <1>4, <1>5 DEF Rest
<1> QED BY <1>4, <1>5, <1>6 DEF Rest

\* f adds up the words of the first n frames with counts q.
Adds(f, q, n) ==
  /\ f \in [0 .. n -> Nat] /\ f[0] = 0
  /\ \A k \in 1 .. n : f[k] = f[k - 1] + WordsFor(q[k])

LEMMA OffsetsAdd ==
  ASSUME NEW q \in Seq(Nat)
  PROVE  Adds(Offsets(q), q, Len(q))
<1> DEFINE N == Len(q)
           Solves(f) == f = [k \in 0 .. N |-> IF k = 0 THEN 0 ELSE f[k - 1] + WordsFor(q[k])]
<1>0. N \in Nat /\ \A k \in 1 .. N : WordsFor(q[k]) \in Nat
  <2>1. \A k \in 1 .. Len(q) : q[k] \in Nat
    OBVIOUS
  <2>2. \A k \in 1 .. Len(q) : WordsFor(q[k]) \in Nat
    BY <2>1, WordsForNat, Zenon
  <2>3. Len(q) \in Nat
    OBVIOUS
  <2> QED BY <2>2, <2>3
<1> HIDE DEF N
<1>1. \E f : Adds(f, q, N)
  <2> DEFINE T == {n \in Nat : n <= N => \E f : Adds(f, q, n)}
  <2>1. 0 \in T
    <3>1. Adds([k \in 0 .. 0 |-> 0], q, 0)
      BY DEF Adds
    <3> QED BY <3>1
  <2>2. ASSUME NEW n \in Nat, n \in T PROVE n + 1 \in T
    <3> SUFFICES ASSUME n + 1 <= N PROVE \E f : Adds(f, q, n + 1)
      OBVIOUS
    <3>1. PICK f : Adds(f, q, n)
      BY <1>0, <2>2
    <3> DEFINE g == [k \in 0 .. n + 1 |-> IF k = n + 1 THEN f[n] + WordsFor(q[n + 1]) ELSE f[k]]
    <3>2. f[n] + WordsFor(q[n + 1]) \in Nat
      <4>1. n \in 0 .. n /\ n + 1 \in 1 .. N
        BY <1>0
      <4> QED BY <1>0, <3>1, <4>1 DEF Adds
    <3>3. g \in [0 .. n + 1 -> Nat] /\ g[0] = 0
      BY <3>1, <3>2 DEF Adds
    <3>4. ASSUME NEW k \in 1 .. n + 1 PROVE g[k] = g[k - 1] + WordsFor(q[k])
      <4>1. k \in 0 .. n + 1 /\ k - 1 \in 0 .. n + 1 /\ k - 1 # n + 1
        OBVIOUS
      <4>2. CASE k = n + 1
        BY <4>1, <4>2
      <4>3. CASE k # n + 1
        <5>1. k \in 1 .. n
          BY <4>3
        <5> QED BY <3>1, <4>1, <4>3, <5>1 DEF Adds
      <4> QED BY <4>2, <4>3
    <3> HIDE DEF g
    <3>5. Adds(g, q, n + 1)
      BY <3>3, <3>4 DEF Adds
    <3> QED BY <3>5
  <2> HIDE DEF T
  <2>3. N \in T
    BY <1>0, <2>1, <2>2, SetInduction
  <2> QED BY <1>0, <2>3 DEF T
<1>2. PICK f : Adds(f, q, N)
  BY <1>1
<1>3. Solves(f)
  BY <1>0, <1>2 DEF Adds
<1>4. Offsets(q) = CHOOSE g : Solves(g)
  BY DEF Offsets, N
<1>5. Solves(Offsets(q))
  <2> HIDE DEF Solves
  <2> QED BY <1>3, <1>4
<1> DEFINE h == Offsets(q)
<1> HIDE DEF h
<1>6. Solves(h)
  BY <1>5 DEF h
<1>7. h[0] = 0 /\ \A k \in 1 .. N : h[k] = h[k - 1] + WordsFor(q[k])
  BY <1>0, <1>6
<1>8. \A k \in 0 .. N : h[k] \in Nat
  <2> DEFINE T == {n \in Nat : n <= N => h[n] \in Nat}
  <2>1. 0 \in T
    BY <1>7
  <2>2. ASSUME NEW n \in Nat, n \in T PROVE n + 1 \in T
    <3> SUFFICES ASSUME n + 1 <= N PROVE h[n + 1] \in Nat
      OBVIOUS
    <3>1. PICK m \in 1 .. N : m = n + 1 /\ m - 1 = n
      BY <1>0
    <3>2. h[m] = h[m - 1] + WordsFor(q[m]) /\ WordsFor(q[m]) \in Nat
      BY <1>0, <1>7
    <3> QED BY <1>0, <2>2, <3>1, <3>2
  <2> HIDE DEF T
  <2>3. Nat \subseteq T
    BY <2>1, <2>2, SetInduction
  <2> QED BY <1>0, <2>3 DEF T
<1>9. h \in [0 .. N -> Nat]
  BY <1>6, <1>8
<1> QED BY <1>7, <1>9 DEF Adds, N, h

\* The equations of the offsets.
LEMMA OffsetsAre ==
  ASSUME NEW q \in Seq(Nat)
  PROVE  /\ Offsets(q)[0] = 0 /\ WordsIn(q) \in Nat
         /\ \A k \in 0 .. Len(q) : Offsets(q)[k] \in Nat
         /\ \A k \in 1 .. Len(q) : /\ Offsets(q)[k] = Offsets(q)[k - 1] + WordsFor(q[k])
                                   /\ WordsFor(q[k]) \in Nat
<1>1. \A k \in 1 .. Len(q) : WordsFor(q[k]) \in Nat
  <2>1. \A k \in 1 .. Len(q) : q[k] \in Nat
    OBVIOUS
  <2> QED BY <2>1, WordsForNat
<1>2. Len(q) \in 0 .. Len(q)
  OBVIOUS
<1> QED BY <1>1, <1>2, OffsetsAdd DEF Adds, WordsIn

\* A piece of a list of counts has the offsets of the list, from where it begins.
LEMMA OffsetsOfPiece ==
  ASSUME NEW q \in Seq(Nat), NEW r \in Seq(Nat), NEW i \in Nat, i + Len(q) <= Len(r),
         \A k \in 1 .. Len(q) : r[i + k] = q[k]
  PROVE  \A k \in 0 .. Len(q) : Offsets(r)[i + k] = Offsets(r)[i] + Offsets(q)[k]
<1> DEFINE f == Offsets(q)
           g == Offsets(r)
           T == {n \in Nat : n <= Len(q) => g[i + n] = g[i] + f[n]}
<1>0. Len(q) \in Nat /\ Len(r) \in Nat
  OBVIOUS
<1>1. f[0] = 0 /\ \A k \in 1 .. Len(q) : f[k] = f[k - 1] + WordsFor(q[k])
  BY OffsetsAre
<1>2. \A k \in 1 .. Len(r) : g[k] = g[k - 1] + WordsFor(r[k])
  BY OffsetsAre
<1>3. /\ \A k \in 0 .. Len(q) : f[k] \in Nat
      /\ \A k \in 0 .. Len(r) : g[k] \in Nat
      /\ \A k \in 1 .. Len(q) : WordsFor(q[k]) \in Nat
  BY OffsetsAre
<1> HIDE DEF f, g
<1>4. 0 \in T
  <2>1. i \in 0 .. Len(r) /\ i + 0 = i
    BY <1>0
  <2> QED BY <1>1, <1>3, <2>1
<1>5. ASSUME NEW n \in Nat, n \in T PROVE n + 1 \in T
  <2> SUFFICES ASSUME n + 1 <= Len(q) PROVE g[i + (n + 1)] = g[i] + f[n + 1]
    OBVIOUS
  <2>1. PICK m \in 1 .. Len(q) : m = n + 1 /\ m - 1 = n
    BY <1>0
  <2>2. f[m] = f[m - 1] + WordsFor(q[m]) /\ f[m - 1] \in Nat /\ WordsFor(q[m]) \in Nat
    BY <1>0, <1>1, <1>3
  <2>3. i + m \in 1 .. Len(r) /\ (i + m) - 1 = i + n
    BY <1>0, <2>1
  <2>4. g[i + m] = g[i + n] + WordsFor(q[m])
    BY <1>2, <2>3
  <2>5. g[i + n] = g[i] + f[n] /\ g[i] \in Nat
    <3>1. i \in 0 .. Len(r)
      BY <1>0, PartIs, Zenon
    <3>2. n \in 0 .. Len(q)
      <4>1. 1 \in Nat
        OBVIOUS
      <4> QED BY <1>0, <4>1, PartIs, Zenon
    <3>3. n <= Len(q)
      BY <3>2
    <3>4. g[i + n] = g[i] + f[n]
      BY <1>5, <3>3
    <3> QED BY <1>3, <3>1, <3>4
  <2>6. g[i + m] = g[i] + f[m]
    <3>1. f[m] = f[n] + WordsFor(q[m]) /\ f[n] \in Nat
      BY <2>1, <2>2
    <3>2. g[i + m] = (g[i] + f[n]) + WordsFor(q[m])
      BY <2>4, <2>5
    <3>3. (g[i] + f[n]) + WordsFor(q[m]) = g[i] + (f[n] + WordsFor(q[m]))
      <4> DEFINE a == g[i]
                 b == f[n]
                 c == WordsFor(q[m])
      <4>1. a \in Nat /\ b \in Nat /\ c \in Nat
        BY <2>2, <2>5, <3>1
      <4> HIDE DEF T, a, b, c
      <4>2. (a + b) + c = a + (b + c)
        BY <4>1
      <4> QED BY <4>2 DEF a, b, c
    <3>4. g[i + m] = g[i] + (f[n] + WordsFor(q[m]))
      BY <3>2, <3>3, Zenon
    <3> QED BY <3>1, <3>4, Zenon
  <2>7. m = n + 1
    BY <2>1
  <2> HIDE DEF T
  <2> QED BY <2>6, <2>7, Zenon
<1> HIDE DEF T
<1>6. Nat \subseteq T
  BY <1>4, <1>5, SetInduction
<1>7. \A k \in 0 .. Len(q) : g[i + k] = g[i] + f[k]
  BY <1>0, <1>6 DEF T
<1> QED BY <1>7 DEF f, g

\* No frame reaches beyond the words of all.
LEMMA OffsetsGrow ==
  ASSUME NEW q \in Seq(Nat), NEW k \in 1 .. Len(q)
  PROVE  Offsets(q)[k - 1] + WordsFor(q[k]) <= WordsIn(q)
<1> DEFINE f == Offsets(q)
           T == {n \in Nat : k + n <= Len(q) => f[k] <= f[k + n]}
<1>0. Len(q) \in Nat
  OBVIOUS
<1>1. \A m \in 1 .. Len(q) : f[m] = f[m - 1] + WordsFor(q[m]) /\ WordsFor(q[m]) \in Nat
  BY OffsetsAre
<1>2. \A m \in 0 .. Len(q) : f[m] \in Nat
  BY OffsetsAre
<1>3. WordsIn(q) = f[Len(q)]
  BY DEF WordsIn
<1> HIDE DEF f
<1>4. 0 \in T
  <2>1. k \in 0 .. Len(q) /\ k + 0 = k
    BY <1>0
  <2> QED BY <1>2, <2>1
<1>5. ASSUME NEW n \in Nat, n \in T PROVE n + 1 \in T
  <2> SUFFICES ASSUME k + (n + 1) <= Len(q) PROVE f[k] <= f[k + (n + 1)]
    OBVIOUS
  <2>1. PICK m \in 1 .. Len(q) : m = k + (n + 1) /\ m - 1 = k + n
    BY <1>0
  <2>2. f[m] = f[m - 1] + WordsFor(q[m]) /\ WordsFor(q[m]) \in Nat
    BY <1>1
  <2>3. f[k] <= f[m - 1] /\ f[m - 1] \in Nat /\ f[k] \in Nat
    <3>1. m - 1 \in 0 .. Len(q) /\ k \in 0 .. Len(q)
      BY <1>0
    <3> QED BY <1>0, <1>2, <1>5, <2>1, <3>1
  <2> QED BY <2>1, <2>2, <2>3
<1> HIDE DEF T
<1>6. Nat \subseteq T
  BY <1>4, <1>5, SetInduction
<1>7. Len(q) - k \in T /\ k + (Len(q) - k) = Len(q)
  BY <1>0, <1>6
<1>8. f[k] <= f[Len(q)]
  BY <1>0, <1>7 DEF T
<1>9. f[k] = f[k - 1] + WordsFor(q[k])
  BY <1>1
<1> QED BY <1>3, <1>8, <1>9 DEF f

-----------------------------------------------------------------------------
(***************************************************************************)
(* The frames in a buffer.                                                 *)
(***************************************************************************)

\* Frames laid out one behind the other.
LEMMA FramesIs ==
  ASSUME NEW mem, NEW a, NEW q \in Seq(Nat)
  PROVE  /\ IsSeq(FramesAt(mem, a, q)) /\ Len(FramesAt(mem, a, q)) = Len(q)
         /\ \A k \in 1 .. Len(q) :
              FramesAt(mem, a, q)[k] = BytesAt(mem, a + Offsets(q)[k - 1], 0, q[k])
  BY DEF FramesAt, IsSeq

LEMMA BytesAgreeAll ==
  ASSUME NEW mem, NEW mem2, NEW a \in Nat, NEW b \in Nat, NEW n \in Nat,
         Agree(mem, a, mem2, b, WordsFor(n))
  PROVE  BytesAt(mem, a, 0, n) = BytesAt(mem2, b, 0, n)
<1> SUFFICES ASSUME NEW i \in 1 .. n
             PROVE  mem[(a + (0 + i - 1) \div W) % Depth] = mem2[(b + (0 + i - 1) \div W) % Depth]
  BY DEF BytesAt
<1>1. i - 1 \in Nat /\ i - 1 < n /\ 0 + i - 1 = i - 1
  OBVIOUS
<1>2. (i - 1) \div W \in Nat /\ (i - 1) \div W < WordsFor(n) /\ WordsFor(n) \in Nat
  BY <1>1, WordsForFacts, WordsForIs, WordIs
<1> QED BY <1>1, <1>2 DEF Agree

\* Frames that are in words that agree are equal.
LEMMA FramesAgree ==
  ASSUME NEW mem, NEW mem2, NEW a \in Nat, NEW b \in Nat, NEW q \in Seq(Nat),
         Agree(mem, a, mem2, b, WordsIn(q))
  PROVE  FramesAt(mem, a, q) = FramesAt(mem2, b, q)
<1>1. ASSUME NEW x \in Nat, NEW n \in Nat, x + WordsFor(n) <= WordsIn(q)
      PROVE  BytesAt(mem, a + x, 0, n) = BytesAt(mem2, b + x, 0, n)
  <2>1. WordsFor(n) \in Nat /\ WordsIn(q) \in Nat
    BY OffsetsAre, WordsForNat
  <2>2. Agree(mem, a + x, mem2, b + x, WordsFor(n))
    BY <1>1, <2>1, AgreePart
  <2>3. a + x \in Nat /\ b + x \in Nat
    OBVIOUS
  <2> QED BY <2>2, <2>3, BytesAgreeAll
<1>2. ASSUME NEW k \in 1 .. Len(q)
      PROVE  /\ Offsets(q)[k - 1] \in Nat /\ q[k] \in Nat
             /\ Offsets(q)[k - 1] + WordsFor(q[k]) <= WordsIn(q)
  <2>1. k - 1 \in 0 .. Len(q) /\ q[k] \in Nat
    OBVIOUS
  <2> QED BY <2>1, OffsetsAre, OffsetsGrow
<1>3. \A k \in 1 .. Len(q) : BytesAt(mem, a + Offsets(q)[k - 1], 0, q[k])
                               = BytesAt(mem2, b + Offsets(q)[k - 1], 0, q[k])
  BY <1>1, <1>2
<1> QED BY <1>3, Zenon DEF FramesAt

\* The first frame, and the rest.
LEMMA FramesHead ==
  ASSUME NEW mem, NEW a \in Nat, NEW n \in Nat, NEW q \in Seq(Nat)
  PROVE  /\ FramesAt(mem, a, Cat(One(n), q)) =
              Cat(One(BytesAt(mem, a, 0, n)), FramesAt(mem, a + WordsFor(n), q))
         /\ WordsIn(Cat(One(n), q)) = WordsFor(n) + WordsIn(q)
<1> DEFINE r == Cat(One(n), q)
<1>1. r \in Seq(Nat) /\ Len(r) = 1 + Len(q) /\ r[1] = n /\ \A k \in 1 .. Len(q) : r[1 + k] = q[k]
  BY DEF Cat, One
<1> HIDE DEF r
<1>2. Offsets(r)[0] = 0 /\ Offsets(r)[1] = WordsFor(n) /\ WordsFor(n) \in Nat
  <2>1. 1 \in 1 .. Len(r) /\ 1 - 1 = 0
    BY <1>1
  <2>2. Offsets(r)[0] = 0 /\ Offsets(r)[1] = Offsets(r)[0] + WordsFor(r[1])
    BY <1>1, <2>1, OffsetsAre
  <2>3. WordsFor(n) \in Nat
    BY WordsForNat
  <2> QED BY <1>1, <2>2, <2>3
<1>3. \A k \in 0 .. Len(q) : Offsets(r)[1 + k] = WordsFor(n) + Offsets(q)[k]
  <2>1. 1 + Len(q) <= Len(r) /\ 1 \in Nat
    BY <1>1
  <2>2. \A k \in 0 .. Len(q) : Offsets(r)[1 + k] = Offsets(r)[1] + Offsets(q)[k]
    BY <1>1, <2>1, OffsetsOfPiece, Zenon
  <2> QED BY <1>2, <2>2
<1>4. \A k \in 0 .. Len(q) : Offsets(q)[k] \in Nat
  BY OffsetsAre
<1>5. WordsIn(r) = WordsFor(n) + WordsIn(q)
  <2>1. Len(q) \in 0 .. Len(q)
    OBVIOUS
  <2> QED BY <1>1, <1>3, <2>1 DEF WordsIn
<1> DEFINE first == BytesAt(mem, a, 0, n)
           rest == FramesAt(mem, a + WordsFor(n), q)
           all == FramesAt(mem, a, r)
<1>6. /\ IsSeq(all) /\ Len(all) = 1 + Len(q)
      /\ \A k \in 1 .. Len(r) : all[k] = BytesAt(mem, a + Offsets(r)[k - 1], 0, r[k])
  BY <1>1, FramesIs
<1>7. all[1] = first
  <2>1. 1 \in 1 .. Len(r) /\ 1 - 1 = 0 /\ a + 0 = a
    BY <1>1
  <2>2. all[1] = BytesAt(mem, a + Offsets(r)[1 - 1], 0, r[1])
    BY <1>6, <2>1, Zenon
  <2> QED BY <1>1, <1>2, <2>1, <2>2
<1>8. ASSUME NEW k \in 1 .. Len(q) PROVE all[1 + k] = rest[k]
  <2>1. 1 + k \in 1 .. Len(r) /\ (1 + k) - 1 = 1 + (k - 1) /\ k - 1 \in 0 .. Len(q)
    BY <1>1
  <2>2. all[1 + k] = BytesAt(mem, a + Offsets(r)[(1 + k) - 1], 0, r[1 + k])
    BY <1>6, <2>1, Zenon
  <2>3. Offsets(r)[(1 + k) - 1] = WordsFor(n) + Offsets(q)[k - 1] /\ r[1 + k] = q[k]
    BY <1>1, <1>3, <2>1
  <2>4. a + (WordsFor(n) + Offsets(q)[k - 1]) = (a + WordsFor(n)) + Offsets(q)[k - 1]
    <3>1. ASSUME NEW x \in Nat, NEW y \in Nat PROVE a + (x + y) = (a + x) + y
      OBVIOUS
    <3>2. WordsFor(n) \in Nat /\ Offsets(q)[k - 1] \in Nat
      BY <1>2, <1>4, <2>1
    <3> QED BY <3>1, <3>2, Zenon
  <2>5. rest[k] = BytesAt(mem, (a + WordsFor(n)) + Offsets(q)[k - 1], 0, q[k])
    BY FramesIs
  <2> QED BY <2>2, <2>3, <2>4, <2>5
<1>9. IsSeq(rest) /\ Len(rest) = Len(q) /\ IsSeq(One(first)) /\ Len(One(first)) = 1 /\ One(first)[1] = first
  BY FramesIs, EmptyIs
<1> HIDE DEF r, first, rest, all
<1> DEFINE one == One(first)
<1> HIDE DEF one
<1>10. IsSeq(rest) /\ IsSeq(one)
  BY <1>9 DEF one
<1>11. Cat(one, rest) = [i \in 1 .. Len(one) + Len(rest) |-> IF i <= Len(one) THEN one[i] ELSE rest[i - Len(one)]]
  BY <1>10, ConcatIs
<1>12. Len(one) = 1 /\ one[1] = first
  BY <1>9 DEF one
<1>13. Cat(one, rest) = [i \in 1 .. 1 + Len(q) |-> IF i <= 1 THEN one[i] ELSE rest[i - 1]]
  BY <1>9, <1>11, <1>12
<1>14. \A i \in 1 .. 1 + Len(q) : all[i] = IF i <= 1 THEN one[i] ELSE rest[i - 1]
  <2> SUFFICES ASSUME NEW i \in 1 .. 1 + Len(q)
               PROVE  all[i] = IF i <= 1 THEN one[i] ELSE rest[i - 1]
    OBVIOUS
  <2>1. CASE i = 1
    BY <1>7, <1>12, <2>1
  <2>2. CASE i # 1
    <3>1. i - 1 \in 1 .. Len(q) /\ 1 + (i - 1) = i
      BY <2>2
    <3>2. all[1 + (i - 1)] = rest[i - 1]
      BY <1>8, <3>1
    <3> QED BY <2>2, <3>1, <3>2
  <2> QED BY <2>1, <2>2
<1>15. all = Cat(one, rest)
  BY <1>6, <1>13, <1>14 DEF IsSeq
<1> QED BY <1>5, <1>15 DEF r, first, rest, all, one

\* One frame more.
LEMMA FramesNext ==
  ASSUME NEW mem, NEW a \in Nat, NEW n \in Nat, NEW q \in Seq(Nat)
  PROVE  /\ FramesAt(mem, a, Cat(q, One(n))) =
              Cat(FramesAt(mem, a, q), One(BytesAt(mem, a + WordsIn(q), 0, n)))
         /\ WordsIn(Cat(q, One(n))) = WordsIn(q) + WordsFor(n)
<1> DEFINE r == Cat(q, One(n))
           L == Len(q)
<1>1. /\ r \in Seq(Nat) /\ Len(r) = L + 1 /\ r[L + 1] = n /\ L \in Nat
      /\ \A k \in 1 .. L : r[0 + k] = q[k] /\ r[k] = q[k]
  BY DEF Cat, One
<1> HIDE DEF r
<1>2. Offsets(r)[0] = 0 /\ \A k \in 0 .. L : Offsets(q)[k] \in Nat
  BY <1>1, OffsetsAre
<1>3. \A k \in 0 .. L : Offsets(r)[k] = Offsets(q)[k]
  <2>0. 0 \in Nat /\ 0 + Len(q) <= Len(r)
    BY <1>1
  <2>1. \A k \in 0 .. L : Offsets(r)[0 + k] = Offsets(r)[0] + Offsets(q)[k]
    BY <1>1, <2>0, OffsetsOfPiece, Zenon
  <2> QED BY <1>2, <2>1
<1>4. WordsIn(r) = WordsIn(q) + WordsFor(n)
  <2>1. L + 1 \in 1 .. Len(r) /\ (L + 1) - 1 = L /\ L \in 0 .. L
    BY <1>1
  <2>2. Offsets(r)[L + 1] = Offsets(r)[L] + WordsFor(n)
    BY <1>1, <2>1, OffsetsAre
  <2> QED BY <1>1, <1>3, <2>1, <2>2 DEF WordsIn
<1> DEFINE frames == FramesAt(mem, a, q)
           next == BytesAt(mem, a + WordsIn(q), 0, n)
           all == FramesAt(mem, a, r)
           one == One(next)
<1>5. /\ IsSeq(all) /\ Len(all) = L + 1
      /\ \A k \in 1 .. Len(r) : all[k] = BytesAt(mem, a + Offsets(r)[k - 1], 0, r[k])
  BY <1>1, FramesIs
<1>6. all[L + 1] = next
  <2>1. L + 1 \in 1 .. Len(r) /\ (L + 1) - 1 = L /\ L \in 0 .. L
    BY <1>1
  <2>2. all[L + 1] = BytesAt(mem, a + Offsets(r)[(L + 1) - 1], 0, r[L + 1])
    BY <1>5, <2>1, Zenon
  <2> QED BY <1>1, <1>3, <2>1, <2>2 DEF WordsIn
<1>7. ASSUME NEW k \in 1 .. L PROVE all[k] = frames[k]
  <2>1. k \in 1 .. Len(r) /\ k - 1 \in 0 .. L
    BY <1>1
  <2>2. all[k] = BytesAt(mem, a + Offsets(r)[k - 1], 0, r[k])
    BY <1>5, <2>1, Zenon
  <2>3. frames[k] = BytesAt(mem, a + Offsets(q)[k - 1], 0, q[k])
    BY FramesIs
  <2> QED BY <1>1, <1>3, <2>1, <2>2, <2>3
<1>8. IsSeq(frames) /\ Len(frames) = L
  BY FramesIs
<1>9. IsSeq(one) /\ Len(one) = 1 /\ one[1] = next
  BY EmptyIs
<1> HIDE DEF frames, next, all, one
<1>10. Cat(frames, one) = [i \in 1 .. Len(frames) + Len(one) |->
                          IF i <= Len(frames) THEN frames[i] ELSE one[i - Len(frames)]]
  <2>1. IsSeq(frames) /\ IsSeq(one)
    BY <1>8, <1>9
  <2> QED BY <2>1, ConcatIs
<1>11. Cat(frames, one) = [i \in 1 .. L + 1 |-> IF i <= L THEN frames[i] ELSE one[i - L]]
  BY <1>8, <1>9, <1>10
<1>12. \A i \in 1 .. L + 1 : all[i] = IF i <= L THEN frames[i] ELSE one[i - L]
  <2> SUFFICES ASSUME NEW i \in 1 .. L + 1
               PROVE  all[i] = IF i <= L THEN frames[i] ELSE one[i - L]
    OBVIOUS
  <2>1. CASE i = L + 1
    <3>1. i - L = 1 /\ ~(i <= L)
      BY <1>1, <2>1
    <3> QED BY <1>6, <1>9, <2>1, <3>1
  <2>2. CASE i # L + 1
    <3>1. i \in 1 .. L /\ i <= L
      BY <1>1, <2>2
    <3> QED BY <1>7, <3>1
  <2> QED BY <2>1, <2>2
<1>13. all = Cat(frames, one)
  BY <1>5, <1>11, <1>12 DEF IsSeq
<1> QED BY <1>4, <1>13 DEF r, frames, next, all, one

\* Frames that fit one by one fit together.
LEMMA FramesFit ==
  ASSUME NEW q \in Seq(Nat), \A k \in 1 .. Len(q) : Fits(q[k])
  PROVE  Unread * WordsIn(q) <= Len(q) * Depth
<1> DEFINE f == Offsets(q)
           T == {n \in Nat : n <= Len(q) => Unread * f[n] <= n * Depth}
<1>0. Len(q) \in Nat /\ Unread \in Nat /\ Depth \in Nat
  BY FifoAssumption, LinkAssumption
<1>1. f[0] = 0 /\ \A k \in 1 .. Len(q) : f[k] = f[k - 1] + WordsFor(q[k]) /\ WordsFor(q[k]) \in Nat
  BY OffsetsAre
<1>2. \A k \in 0 .. Len(q) : f[k] \in Nat
  BY OffsetsAre
<1>3. WordsIn(q) = f[Len(q)]
  BY DEF WordsIn
<1> HIDE DEF f
<1>4. 0 \in T
  BY <1>0, <1>1
<1>5. ASSUME NEW n \in Nat, n \in T PROVE n + 1 \in T
  <2> SUFFICES ASSUME n + 1 <= Len(q) PROVE Unread * f[n + 1] <= (n + 1) * Depth
    OBVIOUS
  <2>1. PICK m \in 1 .. Len(q) : m = n + 1 /\ m - 1 = n
    BY <1>0
  <2>2. f[m] = f[n] + WordsFor(q[m]) /\ WordsFor(q[m]) \in Nat
    BY <1>1, <2>1
  <2>3. f[n] \in Nat /\ Unread * f[n] <= n * Depth
    <3>1. n \in 0 .. Len(q) /\ n <= Len(q)
      BY <1>0
    <3> QED BY <1>2, <1>5, <3>1
  <2>4. Unread * WordsFor(q[m]) <= Depth
    BY DEF Fits
  <2>5. Unread * (f[n] + WordsFor(q[m])) = Unread * f[n] + Unread * WordsFor(q[m])
    BY <1>0, <2>2, <2>3
  <2>6. (n + 1) * Depth = n * Depth + Depth
    BY <1>0
  <2>7. ASSUME NEW x \in Nat, NEW y \in Nat, NEW u \in Nat, NEW v \in Nat, x <= u, y <= v
        PROVE  x + y <= u + v
    BY <2>7
  <2>8. Unread * f[n] + Unread * WordsFor(q[m]) <= n * Depth + Depth
    <3>1. /\ Unread * f[n] \in Nat /\ Unread * WordsFor(q[m]) \in Nat
          /\ n * Depth \in Nat /\ Depth \in Nat
      BY <1>0, <2>2, <2>3, MulNat, Zenon
    <3> QED BY <2>3, <2>4, <2>7, <3>1, Zenon
  <2>9. Unread * f[n + 1] <= (n + 1) * Depth
    <3>1. f[n + 1] = f[n] + WordsFor(q[m])
      BY <2>1, <2>2
    <3> QED BY <2>5, <2>6, <2>8, <3>1
  <2> QED BY <2>9
<1> HIDE DEF T
<1>6. Nat \subseteq T
  BY <1>4, <1>5, SetInduction
<1> QED BY <1>0, <1>3, <1>6 DEF T

-----------------------------------------------------------------------------
(***************************************************************************)
(* The frames that have arrived: the one the reader has begun and the      *)
(* unread.                                                                 *)
(***************************************************************************)

\* The frames that have arrived, from a buffer, the address of the next word,
\* the count the reader has popped, the words since, and the counts it has not.
Left(rd, ws) == IF rd = 0 THEN 0 ELSE WordsFor(rd) - Len(ws)

ReadOf(mem, out, rd, ws) ==
  IF rd = 0 THEN <<>>
  ELSE One([i \in 1 .. rd |-> (IF (i - 1) \div W < Len(ws) THEN ws[(i - 1) \div W + 1]
                             ELSE mem[(out + (i - 1) \div W - Len(ws)) % Depth])
                               [((i - 1) % W) + 1]])

Arrived(mem, out, rd, ws, q) == Cat(ReadOf(mem, out, rd, ws), FramesAt(mem, out + Left(rd, ws), q))

LEMMA LeftIs ==
  ASSUME NEW rd, NEW ws, Reads(rd, ws)
  PROVE  /\ Left(rd, ws) \in Nat /\ Len(ws) \in Nat
         /\ rd # 0 => Left(rd, ws) # 0 /\ WordsFor(rd) = Len(ws) + Left(rd, ws)
<1>0. rd \in Nat /\ Len(ws) \in Nat
  BY DEF Reads, IsSeq
<1>1. CASE rd = 0
  BY <1>0, <1>1 DEF Left
<1>2. CASE rd # 0
  <2>1. ~(rd <= W * Len(ws))
    <3>1. Len(ws) * W = W * Len(ws) /\ W * Len(ws) \in Nat
      BY <1>0, FifoAssumption
    <3>2. Len(ws) * W < rd
      BY <1>2 DEF Reads
    <3> QED BY <1>0, <3>1, <3>2
  <2>2. WordsFor(rd) \in Nat /\ ~(WordsFor(rd) <= Len(ws))
    BY <1>0, <2>1, WordsForIs
  <2> QED BY <1>0, <1>2, <2>2 DEF Left
<1> QED BY <1>1, <1>2

LEMMA ReadOfIs ==
  ASSUME NEW mem, NEW out, NEW rd, NEW ws
  PROVE  /\ IsSeq(ReadOf(mem, out, rd, ws))
         /\ Len(ReadOf(mem, out, rd, ws)) = IF rd = 0 THEN 0 ELSE 1
<1>1. CASE rd = 0
  BY <1>1, EmptyIs DEF ReadOf
<1>2. CASE rd # 0
  <2> DEFINE f == [i \in 1 .. rd |-> (IF (i - 1) \div W < Len(ws) THEN ws[(i - 1) \div W + 1]
                             ELSE mem[(out + (i - 1) \div W - Len(ws)) % Depth])
                               [((i - 1) % W) + 1]]
  <2>1. ReadOf(mem, out, rd, ws) = One(f)
    BY <1>2 DEF ReadOf
  <2> HIDE DEF f
  <2>2. IsSeq(One(f)) /\ Len(One(f)) = 1
    BY EmptyIs
  <2> QED BY <1>2, <2>1, <2>2
<1> QED BY <1>1, <1>2

LEMMA ArrivedIs ==
  ASSUME NEW mem, NEW out, NEW rd, NEW ws, NEW q \in Seq(Nat)
  PROVE  /\ IsSeq(Arrived(mem, out, rd, ws, q))
         /\ Len(Arrived(mem, out, rd, ws, q)) = (IF rd = 0 THEN 0 ELSE 1) + Len(q)
<1> DEFINE s == ReadOf(mem, out, rd, ws)
           t == FramesAt(mem, out + Left(rd, ws), q)
<1>1. IsSeq(s) /\ Len(s) = IF rd = 0 THEN 0 ELSE 1
  BY ReadOfIs
<1>2. IsSeq(t) /\ Len(t) = Len(q)
  BY FramesIs
<1>3. Arrived(mem, out, rd, ws, q) = Cat(s, t)
  BY DEF Arrived
<1> HIDE DEF s, t
<1>4. IsSeq(Cat(s, t)) /\ Len(Cat(s, t)) = Len(s) + Len(t)
  BY <1>1, <1>2, ConcatIs
<1> QED BY <1>1, <1>2, <1>3, <1>4

\* The first frame the reader pops words of.
LEMMA ReadFirst ==
  ASSUME NEW mem, NEW out \in Nat, NEW n \in Nat \ {0}
  PROVE  ReadOf(mem, out, n, <<>>) = One(BytesAt(mem, out, 0, n))
<1>1. ASSUME NEW i \in 1 .. n
      PROVE  /\ ~((i - 1) \div W < Len(<<>>))
             /\ out + (i - 1) \div W - Len(<<>>) = out + (0 + i - 1) \div W
             /\ (0 + i - 1) % W = (i - 1) % W
  <2>1. i - 1 \in Nat /\ 0 + i - 1 = i - 1 /\ Len(<<>>) = 0
    OBVIOUS
  <2>2. (i - 1) \div W \in Nat
    BY <2>1, WordIs
  <2> QED BY <2>1, <2>2
<1>2. \A i \in 1 .. n :
        (IF (i - 1) \div W < Len(<<>>) THEN <<>>[(i - 1) \div W + 1]
         ELSE mem[(out + (i - 1) \div W - Len(<<>>)) % Depth])[((i - 1) % W) + 1]
          = mem[(out + (0 + i - 1) \div W) % Depth][((0 + i - 1) % W) + 1]
  BY <1>1
<1>3. [i \in 1 .. n |->
        (IF (i - 1) \div W < Len(<<>>) THEN <<>>[(i - 1) \div W + 1]
         ELSE mem[(out + (i - 1) \div W - Len(<<>>)) % Depth])[((i - 1) % W) + 1]]
        = [i \in 1 .. n |-> mem[(out + (0 + i - 1) \div W) % Depth][((0 + i - 1) % W) + 1]]
  BY <1>2
<1>4. n # 0
  OBVIOUS
<1> QED BY <1>3, <1>4 DEF ReadOf, BytesAt

\* The reader pops a count.
LEMMA PopCountReads ==
  ASSUME NEW mem, NEW out \in Nat, NEW n \in Nat \ {0}, NEW q \in Seq(Nat)
  PROVE  /\ Arrived(mem, out, 0, <<>>, Cat(One(n), q)) = Arrived(mem, out, n, <<>>, q)
         /\ Left(0, <<>>) + WordsIn(Cat(One(n), q)) = Left(n, <<>>) + WordsIn(q)
         /\ Reads(n, <<>>)
<1>1. Left(0, <<>>) = 0 /\ Left(n, <<>>) = WordsFor(n) /\ WordsFor(n) \in Nat /\ WordsIn(q) \in Nat
  <2>1. Len(<<>>) = 0 /\ n \in Nat /\ n # 0
    OBVIOUS
  <2>2. WordsFor(n) \in Nat
    BY <2>1, WordsForNat
  <2> QED BY <2>1, <2>2, OffsetsAre DEF Left
<1>2. /\ FramesAt(mem, out, Cat(One(n), q)) = Cat(One(BytesAt(mem, out, 0, n)), FramesAt(mem, out + WordsFor(n), q))
      /\ WordsIn(Cat(One(n), q)) = WordsFor(n) + WordsIn(q)
  <2>1. n \in Nat
    OBVIOUS
  <2>2. FramesAt(mem, out, Cat(One(n), q)) = Cat(One(BytesAt(mem, out, 0, n)), FramesAt(mem, out + WordsFor(n), q))
    BY <2>1, FramesHead
  <2>3. WordsIn(Cat(One(n), q)) = WordsFor(n) + WordsIn(q)
    BY <2>1, FramesHead
  <2> QED BY <2>2, <2>3
<1>3. ReadOf(mem, out, 0, <<>>) = <<>> /\ ReadOf(mem, out, n, <<>>) = One(BytesAt(mem, out, 0, n))
  BY ReadFirst DEF ReadOf
<1>4. IsSeq(FramesAt(mem, out, Cat(One(n), q)))
  <2>1. Cat(One(n), q) \in Seq(Nat)
    BY CatTyped
  <2> QED BY <2>1, FramesIs
<1>5. Cat(<<>>, FramesAt(mem, out, Cat(One(n), q))) = FramesAt(mem, out, Cat(One(n), q))
  <2> DEFINE s == FramesAt(mem, out, Cat(One(n), q))
  <2>1. IsSeq(s)
    BY <1>4
  <2> HIDE DEF s
  <2>2. Cat(<<>>, s) = s
    BY <2>1, ConcatIs
  <2> QED BY <2>2 DEF s
<1>6. out + 0 = out
  OBVIOUS
<1>7. Arrived(mem, out, 0, <<>>, Cat(One(n), q)) = Arrived(mem, out, n, <<>>, q)
  BY <1>1, <1>2, <1>3, <1>5, <1>6 DEF Arrived
<1>8. Reads(n, <<>>)
  <2>1. Len(<<>>) * W < n /\ n # 0 /\ n \in Nat
    BY FifoAssumption
  <2> QED BY <2>1, EmptyIs DEF Reads
<1> QED BY <1>1, <1>2, <1>7, <1>8

\* Buffers that hold the same words hold the same frames.
LEMMA ArrivedAgree ==
  ASSUME NEW mem, NEW mem2, NEW a \in Nat, NEW b \in Nat, NEW rd, NEW ws, Reads(rd, ws),
         NEW q \in Seq(Nat), Agree(mem, a, mem2, b, Left(rd, ws) + WordsIn(q))
  PROVE  Arrived(mem, a, rd, ws, q) = Arrived(mem2, b, rd, ws, q)
<1> DEFINE l == Left(rd, ws)
           t == WordsIn(q)
<1>1. l \in Nat /\ t \in Nat /\ rd \in Nat /\ Len(ws) \in Nat
  BY LeftIs, OffsetsAre DEF Reads
<1>2. Agree(mem, a, mem2, b, l + t)
  OBVIOUS
<1>3. t = WordsIn(q)
  OBVIOUS
<1>4. rd # 0 => WordsFor(rd) = Len(ws) + l
  BY LeftIs
<1>5. l = Left(rd, ws)
  OBVIOUS
<1> HIDE DEF l, t
<1>6. FramesAt(mem, a + l, q) = FramesAt(mem2, b + l, q)
  <2>1. Agree(mem, a + l, mem2, b + l, t) /\ a + l \in Nat /\ b + l \in Nat
    <3>1. l + t <= l + t /\ l + t \in Nat
      BY <1>1
    <3>2. Agree(mem, a + l, mem2, b + l, t)
      BY <1>1, <1>2, <3>1, AgreePart, Zenon
    <3> QED BY <1>1, <3>2
  <2> QED BY <1>3, <2>1, FramesAgree
<1>7. ASSUME NEW i \in 1 .. rd, ~((i - 1) \div W < Len(ws))
      PROVE  mem[(a + (i - 1) \div W - Len(ws)) % Depth] = mem2[(b + (i - 1) \div W - Len(ws)) % Depth]
  <2>1. i - 1 \in Nat /\ i - 1 < rd /\ rd # 0
    BY <1>1
  <2>2. (i - 1) \div W \in Nat /\ (i - 1) \div W < WordsFor(rd)
    BY <1>1, <2>1, WordIs, WordsForFacts
  <2> DEFINE k == (i - 1) \div W
  <2>3. k \in Nat /\ k < Len(ws) + l /\ ~(k < Len(ws))
    BY <1>4, <1>7, <2>1, <2>2
  <2> HIDE DEF k
  <2>4. k - Len(ws) \in 0 .. (l + t) - 1
    BY <1>1, <2>3
  <2>5. mem[(a + (k - Len(ws))) % Depth] = mem2[(b + (k - Len(ws))) % Depth]
    BY <1>2, <2>4 DEF Agree
  <2>6. a + (k - Len(ws)) = a + k - Len(ws) /\ b + (k - Len(ws)) = b + k - Len(ws)
    BY <1>1, <2>3
  <2> QED BY <2>5, <2>6 DEF k
<1>8. ReadOf(mem, a, rd, ws) = ReadOf(mem2, b, rd, ws)
  BY <1>7 DEF ReadOf
<1> QED BY <1>5, <1>6, <1>8 DEF Arrived

\* Another frame arrives.
LEMMA ArrivedNext ==
  ASSUME NEW mem, NEW out \in Nat, NEW rd, NEW ws, Reads(rd, ws), NEW q \in Seq(Nat), NEW n \in Nat
  PROVE  Arrived(mem, out, rd, ws, Cat(q, One(n))) =
           Cat(Arrived(mem, out, rd, ws, q), One(BytesAt(mem, out + Left(rd, ws) + WordsIn(q), 0, n)))
<1> DEFINE s == ReadOf(mem, out, rd, ws)
           t == FramesAt(mem, out + Left(rd, ws), q)
           u == One(BytesAt(mem, out + Left(rd, ws) + WordsIn(q), 0, n))
<1>1. IsSeq(s) /\ IsSeq(t) /\ IsSeq(u)
  BY ReadOfIs, FramesIs, EmptyIs
<1>2. FramesAt(mem, out + Left(rd, ws), Cat(q, One(n))) = Cat(t, u)
  <2>1. out + Left(rd, ws) \in Nat
    BY LeftIs
  <2> QED BY <2>1, FramesNext
<1>3. /\ Arrived(mem, out, rd, ws, Cat(q, One(n))) = Cat(s, FramesAt(mem, out + Left(rd, ws), Cat(q, One(n))))
      /\ Arrived(mem, out, rd, ws, q) = Cat(s, t)
  BY DEF Arrived
<1> HIDE DEF s, t, u
<1>4. Cat(Cat(s, t), u) = Cat(s, Cat(t, u))
  BY <1>1, ConcatAssoc
<1> QED BY <1>2, <1>3, <1>4 DEF u

-----------------------------------------------------------------------------
(***************************************************************************)
(* What popping a word does to the frames that have arrived.               *)
(***************************************************************************)

\* A sequence with one more element.
LEMMA AppendIs ==
  ASSUME NEW s, NEW x, IsSeq(s)
  PROVE  /\ Append(s, x) = Cat(s, One(x)) /\ IsSeq(Cat(s, One(x)))
         /\ Len(Cat(s, One(x))) = Len(s) + 1 /\ Cat(s, One(x))[Len(s) + 1] = x
         /\ \A k \in 1 .. Len(s) : Cat(s, One(x))[k] = s[k]
<1> DEFINE S == {s[i] : i \in 1 .. Len(s)} \cup {x}
<1>1. s \in Seq(S) /\ x \in S
  BY DEF IsSeq
<1> HIDE DEF S
<1>2. Append(s, x) = s \o <<x>> /\ Append(s, x) \in Seq(S) /\ Len(Append(s, x)) = Len(s) + 1
      /\ Append(s, x)[Len(s) + 1] = x /\ \A k \in 1 .. Len(s) : Append(s, x)[k] = s[k]
  BY <1>1
<1>3. IsSeq(Append(s, x))
  BY <1>2, SeqIs
<1>4. Append(s, x) = Cat(s, One(x))
  BY <1>2 DEF Cat, One
<1> QED BY <1>2, <1>3, <1>4

\* All of a frame is in the words that have been popped.
ReadAll(rd, now) == [i \in 1 .. rd |-> now[(i - 1) \div W + 1][((i - 1) % W) + 1]]

\* What is left to read once word now is popped, and what was read.
PopKeeps(mem, out, next, rd, ws, now, q) ==
  /\ Len(now) * W < rd =>
       /\ Arrived(mem, out, rd, ws, q) = Arrived(mem, next, rd, now, q)
       /\ Reads(rd, now) /\ Same(next + Left(rd, now), out + Left(rd, ws))
  /\ ~(Len(now) * W < rd) =>
       /\ Arrived(mem, out, rd, ws, q) = Cat(One(ReadAll(rd, now)), Arrived(mem, next, 0, <<>>, q))
       /\ Same(next + Left(0, <<>>), out + Left(rd, ws))

\* The reader pops a word: the frame is over, or there is more of it.
LEMMA PopWordReads ==
  ASSUME NEW mem, NEW out \in 0 .. Depth - 1, NEW rd, NEW ws, Reads(rd, ws), rd # 0,
         NEW q \in Seq(Nat), NEW now, now = Cat(ws, One(mem[out])),
         NEW next, next = (out + 1) % Depth
  PROVE  PopKeeps(mem, out, next, rd, ws, now, q)
<1> DEFINE l == Left(rd, ws)
           L == Len(ws)
<1>1. l \in Nat \ {0} /\ L \in Nat /\ rd \in Nat \ {0} /\ WordsFor(rd) = L + l /\ out \in Nat
      /\ IsSeq(ws)
  BY LeftIs DEF Reads
<1>2. /\ IsSeq(now) /\ Len(now) = L + 1 /\ now[L + 1] = mem[out]
      /\ \A k \in 1 .. L : now[k] = ws[k]
  BY <1>1, AppendIs
<1>3. next \in Nat /\ \A k \in Nat : Same(next + k, out + 1 + k)
  <2>1. out + 1 \in Nat /\ Depth \in Nat \ {0}
    BY <1>1, FifoAssumption
  <2>2. next \in Nat
    BY <2>1, DivIs
  <2>3. ASSUME NEW k \in Nat PROVE Same(next + k, out + 1 + k)
    <3>1. (((out + 1) % Depth) + k) % Depth = (out + 1 + k) % Depth
      BY <2>1, ModAdd, Zenon
    <3> QED BY <3>1 DEF Same
  <2> QED BY <2>2, <2>3
<1>4. \A k \in Nat : mem[(next + k) % Depth] = mem[(out + (k + 1)) % Depth]
  <2>1. ASSUME NEW k \in Nat PROVE out + 1 + k = out + (k + 1)
    BY <1>1
  <2> QED BY <1>3, <2>1 DEF Same
<1>5. out % Depth = out
  BY FifoAssumption
<1>6. \A i \in 1 .. rd : (i - 1) \div W \in Nat /\ (i - 1) \div W < L + l
  <2> SUFFICES ASSUME NEW i \in 1 .. rd PROVE (i - 1) \div W \in Nat /\ (i - 1) \div W < L + l
    OBVIOUS
  <2>1. i - 1 \in Nat /\ i - 1 < rd /\ rd \in Nat
    BY <1>1
  <2>2. (i - 1) \div W \in Nat
    BY <2>1, WordIs, Zenon
  <2>3. (i - 1) \div W < WordsFor(rd)
    BY <2>1, WordsForFacts, Zenon
  <2> QED BY <1>1, <2>2, <2>3, Zenon
<1>7. Reads(rd, ws) /\ rd # 0 /\ l = Left(rd, ws) /\ L = Len(ws)
  OBVIOUS
<1> HIDE DEF l, L

\* The word at position k of the frame, before and after.
<1>8. ASSUME NEW k \in Nat, k < L + l
      PROVE  (IF k < L THEN ws[k + 1] ELSE mem[(out + k - L) % Depth])
               = IF k < L + 1 THEN now[k + 1] ELSE mem[(next + k - (L + 1)) % Depth]
  <2>1. CASE k < L
    <3>1. k + 1 \in 1 .. L
      BY <1>1, <2>1
    <3> QED BY <1>1, <1>2, <2>1, <3>1
  <2>2. CASE k = L
    <3>1. out + k - L = out /\ ~(k < L) /\ k < L + 1
      BY <1>1, <2>2
    <3> QED BY <1>2, <1>5, <2>2, <3>1
  <2>3. CASE k > L
    <3>1. k - (L + 1) \in Nat /\ next + (k - (L + 1)) = next + k - (L + 1)
          /\ out + ((k - (L + 1)) + 1) = out + k - L /\ ~(k < L) /\ ~(k < L + 1)
      BY <1>1, <1>3, <2>3
    <3>2. mem[(next + (k - (L + 1))) % Depth] = mem[(out + ((k - (L + 1)) + 1)) % Depth]
      BY <1>4, <3>1
    <3> QED BY <3>1, <3>2
  <2> QED BY <1>1, <2>1, <2>2, <2>3
<1>9. \A i \in 1 .. rd :
        (IF (i - 1) \div W < Len(ws) THEN ws[(i - 1) \div W + 1]
         ELSE mem[(out + (i - 1) \div W - Len(ws)) % Depth])
          = IF (i - 1) \div W < Len(now) THEN now[(i - 1) \div W + 1]
            ELSE mem[(next + (i - 1) \div W - Len(now)) % Depth]
  BY <1>2, <1>6, <1>7, <1>8
<1>10. ReadOf(mem, out, rd, ws) =
         One([i \in 1 .. rd |-> (IF (i - 1) \div W < Len(now) THEN now[(i - 1) \div W + 1]
                                 ELSE mem[(next + (i - 1) \div W - Len(now)) % Depth])
                                 [((i - 1) % W) + 1]])
  <2>1. [i \in 1 .. rd |-> (IF (i - 1) \div W < Len(ws) THEN ws[(i - 1) \div W + 1]
                            ELSE mem[(out + (i - 1) \div W - Len(ws)) % Depth])[((i - 1) % W) + 1]]
      = [i \in 1 .. rd |-> (IF (i - 1) \div W < Len(now) THEN now[(i - 1) \div W + 1]
                            ELSE mem[(next + (i - 1) \div W - Len(now)) % Depth])[((i - 1) % W) + 1]]
    BY <1>9
  <2> QED BY <1>1, <2>1 DEF ReadOf
<1>11. Len(now) * W < rd <=> L + 1 < L + l
  <2>1. (L + 1) * W = W * (L + 1) /\ W * (L + 1) \in Nat
    BY <1>1, FifoAssumption
  <2>2. WordsFor(rd) <= L + 1 <=> rd <= W * (L + 1)
    <3>1. L + 1 \in Nat /\ rd \in Nat
      BY <1>1
    <3>2. \A k \in Nat : WordsFor(rd) <= k <=> rd <= W * k
      BY <3>1, WordsForIs, Zenon
    <3> QED BY <3>1, <3>2, Zenon
  <2> QED BY <1>1, <1>2, <2>1, <2>2
<1>12. CASE Len(now) * W < rd
  <2>1. Reads(rd, now)
    BY <1>1, <1>2, <1>12 DEF Reads
  <2>2. Left(rd, now) = l - 1 /\ l - 1 \in Nat
    BY <1>1, <1>2 DEF Left
  <2>3. Same(next + (l - 1), out + l)
    <3>1. out + 1 + (l - 1) = out + l
      BY <1>1
    <3>2. Same(next + (l - 1), out + 1 + (l - 1))
      BY <1>3, <2>2, Zenon
    <3> QED BY <3>1, <3>2
  <2>4. ReadOf(mem, out, rd, ws) = ReadOf(mem, next, rd, now)
    BY <1>1, <1>10 DEF ReadOf
  <2>5. FramesAt(mem, next + (l - 1), q) = FramesAt(mem, out + l, q)
    <3>1. next + (l - 1) \in Nat /\ out + l \in Nat /\ WordsIn(q) \in Nat
      <4>1. WordsIn(q) \in Nat
        BY OffsetsAre
      <4>2. next + (l - 1) \in Nat
        <5>1. next \in Nat
          BY <1>3
        <5> QED BY <2>2, <5>1
      <4>3. out + l \in Nat
        BY <1>1
      <4> QED BY <4>1, <4>2, <4>3
    <3>2. Agree(mem, next + (l - 1), mem, out + l, WordsIn(q))
      BY <2>3, <3>1, AgreeShift
    <3> QED BY <3>1, <3>2, FramesAgree
  <2>6. Arrived(mem, out, rd, ws, q) = Arrived(mem, next, rd, now, q)
    BY <1>7, <2>2, <2>4, <2>5 DEF Arrived
  <2> QED BY <1>7, <1>12, <2>1, <2>2, <2>3, <2>6 DEF PopKeeps
<1>13. CASE ~(Len(now) * W < rd)
  <2>1. l = 1
    BY <1>1, <1>11, <1>13
  <2>2. Left(0, <<>>) = 0
    BY DEF Left
  <2>3. Same(next + 0, out + l) /\ next + 0 = next
    BY <1>1, <1>3, <2>1
  <2>4. ReadOf(mem, out, rd, ws) = One([i \in 1 .. rd |-> now[(i - 1) \div W + 1][((i - 1) % W) + 1]])
    <3>1. \A i \in 1 .. rd : (i - 1) \div W < Len(now)
      BY <1>2, <1>6, <2>1
    <3> QED BY <1>10, <3>1
  <2>5. FramesAt(mem, next, q) = FramesAt(mem, out + l, q)
    <3>1. out + l \in Nat /\ WordsIn(q) \in Nat
      BY <1>1, <1>3, OffsetsAre
    <3>2. Agree(mem, next, mem, out + l, WordsIn(q))
      BY <1>3, <2>3, <3>1, AgreeShift
    <3> QED BY <1>3, <3>1, <3>2, FramesAgree
  <2>6. ReadOf(mem, next, 0, <<>>) = <<>>
    BY DEF ReadOf
  <2>7. Cat(<<>>, FramesAt(mem, next, q)) = FramesAt(mem, next, q)
    <3> DEFINE s == FramesAt(mem, next, q)
    <3>1. IsSeq(s)
      BY FramesIs
    <3> HIDE DEF s
    <3>2. Cat(<<>>, s) = s
      BY <3>1, ConcatIs
    <3> QED BY <3>2 DEF s
  <2>8. Arrived(mem, next, 0, <<>>, q) = FramesAt(mem, next, q)
    BY <2>2, <2>3, <2>6, <2>7 DEF Arrived
  <2>9. Arrived(mem, out, rd, ws, q) = Cat(ReadOf(mem, out, rd, ws), FramesAt(mem, out + l, q))
    BY <1>7 DEF Arrived
  <2> QED BY <1>7, <1>13, <2>2, <2>3, <2>4, <2>5, <2>8, <2>9 DEF PopKeeps, ReadAll
<1> QED BY <1>12, <1>13

LEMMA PopWordKeeps ==
  ASSUME NEW mem, NEW out \in 0 .. Depth - 1, NEW rd, NEW ws, Reads(rd, ws), rd # 0,
         NEW q \in Seq(Nat)
  PROVE  PopKeeps(mem, out, (out + 1) % Depth, rd, ws, Cat(ws, One(mem[out])), q)
<1> DEFINE now == Cat(ws, One(mem[out]))
           next == (out + 1) % Depth
<1>1. now = Cat(ws, One(mem[out])) /\ next = (out + 1) % Depth
  OBVIOUS
<1> HIDE DEF now, next
<1>2. PopKeeps(mem, out, next, rd, ws, now, q)
  BY <1>1, PopWordReads
<1> QED BY <1>2 DEF now, next

-----------------------------------------------------------------------------
(***************************************************************************)
(* Room in a buffer, and what latching a byte does to the bytes received.  *)
(***************************************************************************)

\* Frames that fit, as many as the hosts agree on, have room in a buffer.
LEMMA Capacity ==
  ASSUME NEW q \in Seq(Nat), \A k \in 1 .. Len(q) : Fits(q[k]), Len(q) <= Unread
  PROVE  WordsIn(q) \in Nat /\ WordsIn(q) <= Depth
<1> DEFINE n == WordsIn(q)
           l == Len(q)
<1>1. n \in Nat /\ l \in Nat /\ l <= Unread /\ Unread \in Nat /\ Depth \in Nat \ {0}
  <2>1. Len(q) \in Nat
    OBVIOUS
  <2> QED BY <2>1, OffsetsAre, FifoAssumption, LinkAssumption
<1>2. Unread * n <= l * Depth
  BY FramesFit
<1>3. l = 0 => n = 0
  BY OffsetsAre DEF WordsIn
<1> HIDE DEF n, l
<1>4. CASE l = 0
  BY <1>1, <1>3, <1>4 DEF n
<1>5. CASE l # 0
  <2>1. l * Depth <= Unread * Depth
    BY <1>1
  <2>2. Unread * n <= Unread * Depth /\ Unread \in Nat \ {0}
    <3>1. Unread * n \in Int /\ l * Depth \in Int /\ Unread * Depth \in Int
      BY <1>1
    <3>2. Unread \in Nat \ {0}
      BY <1>1, <1>5
    <3> QED BY <1>2, <2>1, <3>1, <3>2
  <2>3. n <= Depth
    <3>1. ASSUME n > Depth PROVE FALSE
      <4>1. Unread * n >= Unread * (Depth + 1)
        BY <1>1, <3>1
      <4>2. Unread * (Depth + 1) = Unread * Depth + Unread
        BY <1>1
      <4>3. Unread * n \in Int /\ Unread * Depth \in Int
        BY <1>1
      <4> QED BY <1>1, <2>2, <4>1, <4>2, <4>3
    <3> QED BY <1>1, <3>1
  <2> QED BY <1>1, <2>3 DEF n
<1> QED BY <1>4, <1>5

\* The latch with the next byte in it.
Latched(latch, n, byte) ==
  [i \in 1 .. W |-> IF i = (n % W) + 1 THEN byte
                    ELSE IF i \in DOMAIN latch THEN latch[i] ELSE byte]

\* A byte is packed behind those that are in the buffer and in the latch.
Packs(mem, x, start, n, latch, byte) ==
  BytesAt([mem EXCEPT ![x] = Latched(latch, n, byte)], start, 0, n + 1) =
    Cat(BytesAt(IF n % W # 0 THEN [mem EXCEPT ![x] = latch] ELSE mem, start, 0, n), One(byte))

\* A byte latched, written and followed by its end extends the bytes received by one.
LEMMA LatchNext ==
  ASSUME NEW mem, DOMAIN mem = 0 .. Depth - 1, NEW x \in 0 .. Depth - 1, NEW start \in Nat,
         NEW n \in Nat, n \div W < Depth, Same(x, start + n \div W),
         NEW latch, n # 0 => DOMAIN latch = 1 .. W, NEW byte
  PROVE  Packs(mem, x, start, n, latch, byte)
<1> DEFINE M == IF n % W # 0 THEN [mem EXCEPT ![x] = latch] ELSE mem
           latch2 == Latched(latch, n, byte)
           M2 == [mem EXCEPT ![x] = latch2]
           k == n \div W
           r == n % W
<1>1. k \in Nat /\ r \in 0 .. W - 1 /\ n = W * k + r /\ W \in Nat \ {0} /\ Depth \in Nat \ {0}
  BY WordIs, FifoAssumption
<1>2. (start + k) % Depth = x
  <2>1. x % Depth = x
    BY <1>1
  <2> QED BY <2>1 DEF Same
<1>3. M2[x] = latch2 /\ \A y \in 0 .. Depth - 1 : y # x => M2[y] = mem[y] /\ M[y] = mem[y]
  OBVIOUS
<1>4. r # 0 => M[x] = latch
  OBVIOUS
<1>5. latch2[r + 1] = byte
  BY <1>1 DEF Latched
<1>6. \A i \in 1 .. r : latch2[i] = latch[i]
  <2> SUFFICES ASSUME NEW i \in 1 .. r PROVE latch2[i] = latch[i]
    OBVIOUS
  <2>1. i \in 1 .. W /\ i # r + 1
    BY <1>1
  <2>2. n # 0
    BY <1>1, FifoAssumption
  <2> QED BY <2>1, <2>2 DEF Latched
<1>7. k < Depth
  OBVIOUS
<1> HIDE DEF M, M2, k, r, latch2
<1>8. ASSUME NEW i \in 1 .. n
      PROVE  M2[(start + (0 + i - 1) \div W) % Depth][((0 + i - 1) % W) + 1]
               = M[(start + (0 + i - 1) \div W) % Depth][((0 + i - 1) % W) + 1]
  <2> DEFINE c == (0 + i - 1) \div W
             b == (0 + i - 1) % W
  <2>1. c \in Nat /\ b \in 0 .. W - 1 /\ i - 1 = W * c + b
    <3>1. 0 + i - 1 \in Nat /\ 0 + i - 1 = i - 1
      OBVIOUS
    <3> QED BY <3>1, WordIs
  <2> HIDE DEF c, b
  <2>2. c <= k
    <3> SUFFICES ASSUME c >= k + 1 PROVE FALSE
      BY <1>1, <2>1
    <3>1. W * c >= W * (k + 1)
      BY <1>1, <2>1
    <3>2. W * (k + 1) = W * k + W
      BY <1>1
    <3>3. W * c \in Nat /\ W * k \in Nat
      BY <1>1, <2>1
    <3> QED BY <1>1, <2>1, <3>1, <3>2, <3>3
  <2>3. CASE c = k
    <3>1. b < r
      <4>1. W * k \in Nat
        BY <1>1
      <4> QED BY <1>1, <2>1, <2>3, <4>1
    <3>2. b + 1 \in 1 .. r /\ r # 0
      BY <1>1, <2>1, <3>1
    <3> QED BY <1>2, <1>3, <1>4, <1>6, <2>3, <3>2 DEF c, b
  <2>4. CASE c < k
    <3>1. k - c \in 1 .. Depth - 1 /\ start + c \in Nat /\ start + c + (k - c) = start + k
      BY <1>1, <1>7, <2>1, <2>4
    <3>2. (start + c + (k - c)) % Depth # (start + c) % Depth
      BY <1>1, <3>1, ModDiffers, Zenon
    <3>3. (start + c) % Depth \in 0 .. Depth - 1
      BY <1>1, <3>1, DivIs
    <3> QED BY <1>2, <1>3, <3>1, <3>2, <3>3 DEF c, b
  <2> QED BY <1>1, <2>1, <2>2, <2>3, <2>4
<1>9. BytesAt(M2, start, 0, n) = BytesAt(M, start, 0, n)
  BY <1>8 DEF BytesAt
<1>10. BytesAt(M2, start, 0, n + 1) = Cat(BytesAt(M2, start, 0, n), One(M2[(start + n \div W) % Depth][(n % W) + 1]))
  BY BytesNext
<1>11. M2[(start + n \div W) % Depth][(n % W) + 1] = byte
  BY <1>2, <1>3, <1>5 DEF k, r
<1> QED BY <1>9, <1>10, <1>11 DEF Packs, M, M2, latch2

-----------------------------------------------------------------------------
(***************************************************************************)
(* The frames under way.                                                   *)
(***************************************************************************)

\* What is on the line: nothing, or one frame.
Whole(s) == IF s = <<>> THEN <<>> ELSE One(s)

All == Cat(Cat(Received, wire), ToCome)

LEMMA WholeIs ==
  ASSUME NEW s
  PROVE  IsSeq(Whole(s)) /\ Len(Whole(s)) = IF s = <<>> THEN 0 ELSE 1
<1>1. CASE s = <<>>
  BY <1>1, EmptyIs DEF Whole
<1>2. CASE s # <<>>
  BY <1>2, EmptyIs DEF Whole
<1> QED BY <1>1, <1>2

\* The elements of a concatenation.
LEMMA AllInCat ==
  ASSUME NEW s, NEW t, NEW S, IsSeq(s), IsSeq(t)
  PROVE  AllIn(Cat(s, t), S) <=> AllIn(s, S) /\ AllIn(t, S)
<1>1. /\ Len(Cat(s, t)) = Len(s) + Len(t) /\ Len(s) \in Nat /\ Len(t) \in Nat
      /\ Cat(s, t) = [i \in 1 .. Len(s) + Len(t) |-> IF i <= Len(s) THEN s[i] ELSE t[i - Len(s)]]
  BY ConcatIs DEF IsSeq
<1>2. \A i \in 1 .. Len(s) : i \in 1 .. Len(s) + Len(t) /\ Cat(s, t)[i] = s[i]
  BY <1>1
<1>3. \A i \in 1 .. Len(t) : Len(s) + i \in 1 .. Len(s) + Len(t) /\ Cat(s, t)[Len(s) + i] = t[i]
  BY <1>1
<1>4. AllIn(Cat(s, t), S) => AllIn(s, S) /\ AllIn(t, S)
  BY <1>1, <1>2, <1>3 DEF AllIn
<1>5. AllIn(s, S) /\ AllIn(t, S) => AllIn(Cat(s, t), S)
  <2> SUFFICES ASSUME AllIn(s, S), AllIn(t, S), NEW i \in 1 .. Len(s) + Len(t)
               PROVE  Cat(s, t)[i] \in S
    BY <1>1 DEF AllIn
  <2>1. CASE i <= Len(s)
    BY <1>1, <2>1 DEF AllIn
  <2>2. CASE ~(i <= Len(s))
    <3>1. i - Len(s) \in 1 .. Len(t)
      BY <1>1, <2>2
    <3> QED BY <1>1, <2>2, <3>1 DEF AllIn
  <2> QED BY <2>1, <2>2
<1> QED BY <1>4, <1>5

\* What the assumption says of a frame.
LEMMA FrameIs ==
  ASSUME NEW f \in Frames
  PROVE  IsSeq(f) /\ f # <<>> /\ Len(f) \in Nat \ {0} /\ Fits(Len(f))
<1>1. f # <<>> /\ f \in Seq({f[i] : i \in 1 .. Len(f)})
      /\ Unread * ((Len(f) + W - 1) \div W) <= Depth
  BY LinkAssumption
<1>2. IsSeq(f)
  BY <1>1, SeqIs, Zenon
<1>3. Len(f) \in Nat \ {0}
  BY <1>1, <1>2, LenIs DEF IsSeq
<1> QED BY <1>1, <1>2, <1>3 DEF Fits, WordsFor

\* Types that the arguments below need.
LEMMA Kinds ==
  ASSUME TypeInv
  PROVE  /\ counts \in Seq(Nat) /\ rcounts \in Seq(Nat) /\ Loaded \in Seq(Nat) /\ Queued \in Seq(Nat)
         /\ Waiting \in Seq(Nat) /\ Len(Waiting) = Len(Loaded) + Len(Queued)
         /\ InAdd \in 0 .. Depth - 1 /\ OutAdd \in 0 .. Depth - 1 /\ NextByte \in Nat
         /\ SendCount \in Nat /\ BytePointer \in 0 .. W - 1
         /\ RInAdd \in 0 .. Depth - 1 /\ ROutAdd \in 0 .. Depth - 1
         /\ RecvCount \in Nat /\ RBytePointer \in 0 .. W - 1
<1>1. counts \in Seq(Nat) /\ rcounts \in Seq(Nat)
      /\ InAdd \in 0 .. Depth - 1 /\ OutAdd \in 0 .. Depth - 1
         /\ SendCount \in Nat /\ BytePointer \in 0 .. W - 1
         /\ RInAdd \in 0 .. Depth - 1 /\ ROutAdd \in 0 .. Depth - 1
         /\ RecvCount \in Nat /\ RBytePointer \in 0 .. W - 1
  BY DEF TypeInv, Counts, LinkTypeOK, TxTypeOK, RxTypeOK
<1>2. Loaded \in Seq(Nat) /\ Queued \in Seq(Nat)
  BY <1>1 DEF Loaded, Queued
<1>3. NextByte \in Nat
  BY <1>1, FifoAssumption DEF NextByte
<1> QED BY <1>1, <1>2, <1>3, CatTyped DEF Waiting

\* The lengths of what has been received, is on the line and is to come.
LEMMA LineIs ==
  ASSUME TypeInv, wire = <<>> \/ wire = One(wire[1])
  PROVE  /\ IsSeq(Received) /\ IsSeq(wire) /\ IsSeq(ToCome) /\ IsSeq(All)
         /\ OnTheLine = Whole(All) /\ IsSeq(OnTheLine)
         /\ Len(Received) = (IF RFDGo \/ RPushRC THEN RecvCount ELSE 0)
         /\ Len(wire) = (IF wire = <<>> THEN 0 ELSE 1)
         /\ Len(ToCome) = (IF SCNZ THEN SendCount ELSE 0)
         /\ Len(All) = Len(Received) + Len(wire) + Len(ToCome)
<1>1. RecvCount \in Nat /\ SendCount \in Nat
  BY Kinds
<1>2. IsSeq(Received) /\ Len(Received) = IF RFDGo \/ RPushRC THEN RecvCount ELSE 0
  <2>1. CASE RFDGo \/ RPushRC
    BY <1>1, <2>1, BytesIs DEF Received
  <2>2. CASE ~(RFDGo \/ RPushRC)
    BY <2>2, EmptyIs DEF Received
  <2> QED BY <2>1, <2>2
<1>3. IsSeq(wire) /\ Len(wire) = IF wire = <<>> THEN 0 ELSE 1
  <2>1. CASE wire = <<>>
    BY <2>1, EmptyIs
  <2>2. CASE wire # <<>> /\ wire = One(wire[1])
    <3>1. \A x : IsSeq(One(x)) /\ Len(One(x)) = 1
      BY EmptyIs
    <3>2. IsSeq(wire) /\ Len(wire) = 1
      BY <2>2, <3>1, Zenon
    <3> QED BY <2>2, <3>2
  <2> QED BY <2>1, <2>2
<1>4. IsSeq(ToCome) /\ Len(ToCome) = IF SCNZ THEN SendCount ELSE 0
  <2>1. CASE SCNZ
    BY <1>1, <2>1, BytesIs DEF ToCome
  <2>2. CASE ~SCNZ
    BY <2>2, EmptyIs DEF ToCome
  <2> QED BY <2>1, <2>2
<1>5. IsSeq(Cat(Received, wire)) /\ Len(Cat(Received, wire)) = Len(Received) + Len(wire)
  BY <1>2, <1>3, ConcatIs
<1>6. IsSeq(All) /\ Len(All) = Len(Cat(Received, wire)) + Len(ToCome)
  BY <1>4, <1>5, ConcatIs DEF All
<1>7. OnTheLine = Whole(All)
  BY DEF OnTheLine, Whole, All, Cat, One
<1> QED BY <1>2, <1>3, <1>4, <1>5, <1>6, <1>7, WholeIs

\* The frames under way: those that have arrived, the one on the line, the unsent.
LEMMA QueueIs ==
  ASSUME TypeInv, wire = <<>> \/ wire = One(wire[1])
  PROVE  /\ Queue = Cat(Cat(Arrived(rbuffram, ROutAdd, reading, words, rcounts), Whole(All)), Unsent)
         /\ Unsent = FramesAt(buffram, NextByte + Current, Waiting)
         /\ IsSeq(Arrived(rbuffram, ROutAdd, reading, words, rcounts))
         /\ IsSeq(Whole(All)) /\ IsSeq(Unsent) /\ IsSeq(Queue)
         /\ Len(Unsent) = Len(Waiting)
         /\ Len(Queue) = (IF reading = 0 THEN 0 ELSE 1) + Len(rcounts)
                           + (IF All = <<>> THEN 0 ELSE 1) + Len(Waiting)
<1> DEFINE A == Arrived(rbuffram, ROutAdd, reading, words, rcounts)
           B == Whole(All)
<1>1. Unsent = FramesAt(buffram, NextByte + Current, Waiting)
  BY DEF Unsent, Current, Waiting, Cat
<1>2. Queue = Cat(Cat(A, B), Unsent)
  <2>1. BeingRead = ReadOf(rbuffram, ROutAdd, reading, words)
    BY DEF BeingRead, ReadOf, One
  <2>2. FirstUnread = ROutAdd + Left(reading, words)
    BY DEF FirstUnread, Left
  <2>3. OnTheLine = B
    BY LineIs
  <2> QED BY <2>1, <2>2, <2>3, Zenon DEF Queue, Arrived, Cat
<1>3. IsSeq(Unsent) /\ Len(Unsent) = Len(Waiting)
  <2>1. Waiting \in Seq(Nat)
    BY Kinds
  <2> QED BY <1>1, <2>1, FramesIs
<1>4. IsSeq(A) /\ Len(A) = (IF reading = 0 THEN 0 ELSE 1) + Len(rcounts)
  <2>1. rcounts \in Seq(Nat)
    BY Kinds
  <2> QED BY <2>1, ArrivedIs
<1>5. IsSeq(B) /\ Len(B) = IF All = <<>> THEN 0 ELSE 1
  BY WholeIs
<1> HIDE DEF A, B
<1>6. IsSeq(Cat(A, B)) /\ Len(Cat(A, B)) = Len(A) + Len(B)
  BY <1>4, <1>5, ConcatIs
<1>7. IsSeq(Cat(Cat(A, B), Unsent)) /\ Len(Cat(Cat(A, B), Unsent)) = Len(Cat(A, B)) + Len(Unsent)
  BY <1>3, <1>6, ConcatIs
<1> QED BY <1>1, <1>2, <1>3, <1>4, <1>5, <1>6, <1>7 DEF A, B

LEMMA OneTyped ==
  ASSUME NEW n \in Nat PROVE One(n) \in Seq(Nat) /\ Len(One(n)) = 1
  BY DEF One

\* Of the frames under way each is one of the hosts' and fits.
LEMMA FramesUnderWay ==
  ASSUME TypeInv, LinkInv
  PROVE  /\ \A k \in 1 .. Len(rcounts) : rcounts[k] # 0 /\ Fits(rcounts[k])
         /\ \A k \in 1 .. Len(Waiting) : Waiting[k] # 0 /\ Fits(Waiting[k])
         /\ reading # 0 => Fits(reading)
         /\ All # <<>> => Len(All) # 0 /\ Fits(Len(All)) /\ All \in Frames
         /\ AllIn(Arrived(rbuffram, ROutAdd, reading, words, rcounts), Frames)
         /\ AllIn(Unsent, Frames)
<1> DEFINE A == Arrived(rbuffram, ROutAdd, reading, words, rcounts)
           B == Whole(All)
           R == ReadOf(rbuffram, ROutAdd, reading, words)
           F == FramesAt(rbuffram, ROutAdd + Left(reading, words), rcounts)
<1>1. wire = <<>> \/ wire = One(wire[1])
  BY DEF LinkInv, LineInv
<1>2. /\ Queue = Cat(Cat(A, B), Unsent) /\ IsSeq(A) /\ IsSeq(B) /\ IsSeq(Unsent)
      /\ Unsent = FramesAt(buffram, NextByte + Current, Waiting)
  BY <1>1, QueueIs
<1>3. AllIn(Queue, Frames)
  BY DEF LinkInv, Room
<1>4. IsSeq(R) /\ IsSeq(F) /\ A = Cat(R, F)
  BY ReadOfIs, FramesIs, Kinds DEF Arrived
<1>5. reading # 0 => /\ R[1] \in {[i \in 1 .. reading |-> R[1][i]]} /\ Len(R) = 1
                     /\ reading \in Nat
  <2> SUFFICES ASSUME reading # 0
               PROVE  R[1] \in {[i \in 1 .. reading |-> R[1][i]]} /\ Len(R) = 1 /\ reading \in Nat
    OBVIOUS
  <2> DEFINE g == [i \in 1 .. reading |->
                     (IF (i - 1) \div W < Len(words) THEN words[(i - 1) \div W + 1]
                      ELSE rbuffram[(ROutAdd + (i - 1) \div W - Len(words)) % Depth])
                       [((i - 1) % W) + 1]]
  <2>1. R = One(g)
    BY DEF ReadOf
  <2>2. g = [i \in 1 .. reading |-> g[i]]
    OBVIOUS
  <2> HIDE DEF g, R
  <2>3. R[1] = g /\ Len(R) = 1
    BY <2>1, EmptyIs
  <2>4. reading \in Nat
    BY DEF LinkInv, Reads
  <2> QED BY <2>2, <2>3, <2>4 DEF R
<1>6. \A k \in 1 .. Len(rcounts) : rcounts[k] \in Nat /\ Len(F[k]) = rcounts[k]
  <2> SUFFICES ASSUME NEW k \in 1 .. Len(rcounts) PROVE rcounts[k] \in Nat /\ Len(F[k]) = rcounts[k]
    OBVIOUS
  <2>1. rcounts \in Seq(Nat)
    BY Kinds
  <2>2. rcounts[k] \in Nat
    BY <2>1
  <2>3. F[k] = BytesAt(rbuffram, ROutAdd + Left(reading, words) + Offsets(rcounts)[k - 1], 0, rcounts[k])
    BY <2>1, FramesIs
  <2> QED BY <2>2, <2>3, BytesIs
<1>7. \A k \in 1 .. Len(Waiting) : Waiting[k] \in Nat /\ Len(Unsent[k]) = Waiting[k]
  <2> SUFFICES ASSUME NEW k \in 1 .. Len(Waiting) PROVE Waiting[k] \in Nat /\ Len(Unsent[k]) = Waiting[k]
    OBVIOUS
  <2>1. Waiting \in Seq(Nat)
    BY Kinds
  <2>2. Waiting[k] \in Nat
    BY <2>1
  <2>3. Unsent[k] = BytesAt(buffram, NextByte + Current + Offsets(Waiting)[k - 1], 0, Waiting[k])
    BY <1>2, <2>1, FramesIs
  <2> QED BY <2>2, <2>3, BytesIs
<1>8. Len(F) = Len(rcounts) /\ Len(Unsent) = Len(Waiting)
  BY <1>1, FramesIs, QueueIs, Kinds
<1>9. All # <<>> => Len(B) = 1 /\ B[1] = All
  BY EmptyIs DEF Whole
<1> HIDE DEF A, B, R, F
<1>10. AllIn(A, Frames) /\ AllIn(B, Frames) /\ AllIn(Unsent, Frames)
  <2>1. IsSeq(Cat(A, B))
    BY <1>2, ConcatIs
  <2>2. AllIn(Cat(A, B), Frames) /\ AllIn(Unsent, Frames)
    BY <1>2, <1>3, <2>1, AllInCat
  <2> QED BY <1>2, <2>2, AllInCat
<1>11. AllIn(R, Frames) /\ AllIn(F, Frames)
  BY <1>4, <1>10, AllInCat
<1>12. \A k \in 1 .. Len(rcounts) : rcounts[k] # 0 /\ Fits(rcounts[k])
  <2>1. \A k \in 1 .. Len(rcounts) : F[k] \in Frames
    BY <1>8, <1>11 DEF AllIn
  <2> QED BY <1>6, <2>1, FrameIs
<1>13. \A k \in 1 .. Len(Waiting) : Waiting[k] # 0 /\ Fits(Waiting[k])
  <2>1. \A k \in 1 .. Len(Waiting) : Unsent[k] \in Frames
    BY <1>8, <1>10 DEF AllIn
  <2> QED BY <1>7, <2>1, FrameIs
<1>14. reading # 0 => Fits(reading)
  <2> SUFFICES ASSUME reading # 0 PROVE Fits(reading)
    OBVIOUS
  <2>1. R[1] \in Frames
    <3>1. 1 \in 1 .. Len(R)
      <4>1. Len(R) = 1
        BY <1>5, Zenon
      <4> QED BY <4>1
    <3> QED BY <1>11, <3>1 DEF AllIn
  <2>2. R[1] = [i \in 1 .. reading |-> R[1][i]] /\ reading \in Nat
    BY <1>5
  <2>3. IsSeq(R[1]) /\ Fits(Len(R[1]))
    BY <2>1, FrameIs
  <2>4. Len(R[1]) = reading
    <3> DEFINE f == R[1]
    <3>1. DOMAIN f = 1 .. Len(f) /\ Len(f) \in Nat
      BY <2>3, LenIs DEF IsSeq
    <3>2. DOMAIN f = 1 .. reading
      BY <2>2
    <3> HIDE DEF f
    <3>3. Len(f) = reading
      <4>1. 1 .. Len(f) = 1 .. reading
        BY <3>1, <3>2
      <4>2. \A m \in Nat, n \in Nat : 1 .. m = 1 .. n => m = n
        <5> SUFFICES ASSUME NEW m \in Nat, NEW n \in Nat, 1 .. m = 1 .. n PROVE m = n
          OBVIOUS
        <5>1. m <= n
          <6>1. m # 0 => m \in 1 .. n
            OBVIOUS
          <6> QED BY <6>1
        <5>2. n <= m
          <6>1. n # 0 => n \in 1 .. m
            OBVIOUS
          <6> QED BY <6>1
        <5> QED BY <5>1, <5>2
      <4> QED BY <2>2, <3>1, <4>1, <4>2
    <3> QED BY <3>3 DEF f
  <2> QED BY <2>3, <2>4
<1>15. All # <<>> => Len(All) # 0 /\ Fits(Len(All)) /\ All \in Frames
  <2> SUFFICES ASSUME All # <<>> PROVE Len(All) # 0 /\ Fits(Len(All)) /\ All \in Frames
    OBVIOUS
  <2>1. All \in Frames
    BY <1>9, <1>10 DEF AllIn
  <2> QED BY <2>1, FrameIs
<1> QED BY <1>10, <1>12, <1>13, <1>14, <1>15 DEF A

\* As many frames are under way as the hosts agree on, the one being pushed with them.
LEMMA HowMany ==
  ASSUME TypeInv, LinkInv
  PROVE  (IF reading = 0 THEN 0 ELSE 1) + Len(rcounts) + (IF All = <<>> THEN 0 ELSE 1)
           + Len(Waiting) + (IF frame = <<>> THEN 0 ELSE 1) <= Unread
<1>1. wire = <<>> \/ wire = One(wire[1])
  BY DEF LinkInv, LineInv
<1> QED BY <1>1, QueueIs DEF LinkInv, Room

\* What has arrived and the frame on the line have room in the receiver's buffer.
LEMMA RxRoom ==
  ASSUME TypeInv, LinkInv
  PROVE  /\ WordsIn(rcounts) \in Nat /\ Left(reading, words) \in Nat
         /\ Left(reading, words) + WordsIn(rcounts) <= Depth
         /\ All # <<>> => /\ WordsFor(Len(All)) \in Nat /\ Len(All) \in Nat
                          /\ Left(reading, words) + WordsIn(rcounts) + WordsFor(Len(All)) <= Depth
         /\ Len(rcounts) + (IF All = <<>> THEN 0 ELSE 1) <= Slots
<1> DEFINE r == IF reading = 0 THEN <<>> ELSE One(reading)
           l == IF All = <<>> THEN <<>> ELSE One(Len(All))
           q == Cat(r, rcounts)
           qq == Cat(q, l)
<1>0. Reads(reading, words) /\ reading \in Nat /\ (wire = <<>> \/ wire = One(wire[1]))
  BY DEF LinkInv, LineInv, Reads
<1>1. rcounts \in Seq(Nat) /\ WordsIn(rcounts) \in Nat
  BY Kinds, OffsetsAre
<1>2. Left(reading, words) \in Nat /\ WordsFor(reading) \in Nat
      /\ (reading # 0 => Left(reading, words) <= WordsFor(reading))
  <2>1. Len(words) \in Nat /\ Left(reading, words) \in Nat
        /\ (reading # 0 => WordsFor(reading) = Len(words) + Left(reading, words))
    BY <1>0, LeftIs
  <2>2. WordsFor(reading) \in Nat
    BY <1>0, WordsForNat
  <2> QED BY <2>1, <2>2
<1>3. Len(All) \in Nat
  BY <1>0, LineIs DEF IsSeq
<1>4. WordsFor(Len(All)) \in Nat
  BY <1>3, WordsForNat
<1>5. /\ q \in Seq(Nat) /\ WordsIn(q) = (IF reading = 0 THEN 0 ELSE WordsFor(reading)) + WordsIn(rcounts)
      /\ Len(q) = (IF reading = 0 THEN 0 ELSE 1) + Len(rcounts)
      /\ \A k \in 1 .. Len(q) : Fits(q[k])
  <2>0. \A k \in 1 .. Len(rcounts) : Fits(rcounts[k])
    BY FramesUnderWay
  <2>1. CASE reading = 0
    <3>1. q = rcounts
      <4>1. Cat(<<>>, rcounts) = rcounts
        BY <1>1, SeqIs, ConcatIs
      <4> QED BY <2>1, <4>1
    <3> HIDE DEF q
    <3>2. Len(rcounts) \in Nat
      BY <1>1
    <3> QED BY <1>1, <2>0, <2>1, <3>1, <3>2
  <2>2. CASE reading # 0
    <3>1. q = Cat(One(reading), rcounts)
      BY <2>2
    <3>2. /\ Cat(One(reading), rcounts) \in Seq(Nat)
          /\ Len(Cat(One(reading), rcounts)) = 1 + Len(rcounts)
      <4>1. One(reading) \in Seq(Nat) /\ Len(One(reading)) = 1
        BY <1>0, OneTyped
      <4> QED BY <1>1, <4>1, CatTyped
    <3>3. WordsIn(Cat(One(reading), rcounts)) = WordsFor(reading) + WordsIn(rcounts)
      BY <1>0, <1>1, FramesHead
    <3>4. \A k \in 1 .. Len(q) : Fits(q[k])
      <4>1. AllIn(One(reading), {n \in Nat : Fits(n)}) /\ IsSeq(One(reading))
        <5>1. Fits(reading)
          BY <2>2, FramesUnderWay
        <5> QED BY <1>0, <5>1, EmptyIs DEF AllIn
      <4>2. AllIn(rcounts, {n \in Nat : Fits(n)}) /\ IsSeq(rcounts)
        BY <1>1, <2>0, SeqIs DEF AllIn
      <4>3. AllIn(Cat(One(reading), rcounts), {n \in Nat : Fits(n)})
        BY <4>1, <4>2, AllInCat
      <4> QED BY <3>1, <4>3 DEF AllIn
    <3> QED BY <2>2, <3>1, <3>2, <3>3, <3>4
  <2> QED BY <2>1, <2>2
<1> HIDE DEF q
<1> DEFINE x == IF reading = 0 THEN 0 ELSE 1
           y == IF All = <<>> THEN 0 ELSE 1
           z == IF frame = <<>> THEN 0 ELSE 1
<1>6. Len(q) + y <= Unread /\ Len(rcounts) + y <= Slots
  <2>1. Len(rcounts) \in Nat /\ Len(Waiting) \in Nat
    BY Kinds
  <2>2. x + Len(rcounts) + y + Len(Waiting) + z <= Unread
    BY HowMany
  <2>3. Unread \in Nat /\ Slots \in Nat /\ Unread <= Slots
    BY LinkAssumption, FifoAssumption
  <2>4. Len(q) = x + Len(rcounts)
    BY <1>5
  <2>5. x \in Nat /\ y \in Nat /\ z \in Nat
    OBVIOUS
  <2> HIDE DEF x, y, z
  <2> QED BY <2>1, <2>2, <2>3, <2>4, <2>5
<1>7. CASE All = <<>>
  <2>1. WordsIn(q) <= Depth
    BY <1>5, <1>6, <1>7, Capacity
  <2>2. WordsIn(q) = (IF reading = 0 THEN 0 ELSE WordsFor(reading)) + WordsIn(rcounts)
    BY <1>5
  <2>3. Left(reading, words) + WordsIn(rcounts) <= Depth
    <3>1. reading = 0 => Left(reading, words) = 0
      BY DEF Left
    <3> QED BY <1>1, <1>2, <2>1, <2>2, <3>1, FifoAssumption
  <2> QED BY <1>1, <1>2, <1>6, <1>7, <2>3
<1>8. CASE All # <<>>
  <2>1. /\ qq = Cat(q, One(Len(All))) /\ qq \in Seq(Nat) /\ Len(qq) = Len(q) + 1
        /\ WordsIn(qq) = WordsIn(q) + WordsFor(Len(All))
    <3>1. One(Len(All)) \in Seq(Nat) /\ Len(One(Len(All))) = 1
      BY <1>3, OneTyped
    <3>2. Cat(q, One(Len(All))) \in Seq(Nat) /\ Len(Cat(q, One(Len(All)))) = Len(q) + 1
      BY <1>5, <3>1, CatTyped
    <3>3. WordsIn(Cat(q, One(Len(All)))) = WordsIn(q) + WordsFor(Len(All))
      BY <1>3, <1>5, FramesNext
    <3> QED BY <1>8, <3>2, <3>3
  <2>2. \A k \in 1 .. Len(qq) : Fits(qq[k])
    <3>1. AllIn(One(Len(All)), {n \in Nat : Fits(n)}) /\ IsSeq(One(Len(All)))
      <4>1. Fits(Len(All))
        BY <1>8, FramesUnderWay
      <4> QED BY <1>3, <4>1, EmptyIs DEF AllIn
    <3>2. AllIn(q, {n \in Nat : Fits(n)}) /\ IsSeq(q)
      BY <1>5, SeqIs DEF AllIn
    <3>3. AllIn(Cat(q, One(Len(All))), {n \in Nat : Fits(n)})
      BY <3>1, <3>2, AllInCat
    <3> QED BY <2>1, <3>3 DEF AllIn
  <2> HIDE DEF qq
  <2>3. WordsIn(qq) <= Depth
    BY <1>5, <1>6, <1>8, <2>1, <2>2, Capacity
  <2>4. WordsIn(q) = (IF reading = 0 THEN 0 ELSE WordsFor(reading)) + WordsIn(rcounts)
    BY <1>5
  <2>5. WordsIn(q) + WordsFor(Len(All)) <= Depth
    BY <2>1, <2>3
  <2>6. Left(reading, words) + WordsIn(rcounts) + WordsFor(Len(All)) <= Depth
    <3>1. reading = 0 => Left(reading, words) = 0
      BY DEF Left
    <3> QED BY <1>1, <1>2, <1>4, <2>4, <2>5, <3>1, FifoAssumption
  <2>7. Left(reading, words) + WordsIn(rcounts) <= Depth
    BY <1>1, <1>2, <1>4, <2>6, FifoAssumption
  <2> QED BY <1>1, <1>2, <1>3, <1>4, <1>6, <1>8, <2>6, <2>7
<1> QED BY <1>7, <1>8

\* The frame being sent, those that wait and the one being pushed have room in the
\* transmitter's buffer.
LEMMA TxRoom ==
  ASSUME TypeInv, LinkInv
  PROVE  /\ WordsIn(Waiting) \in Nat /\ Current \in Nat
         /\ Current + WordsIn(Waiting) <= Depth
         /\ frame # <<>> => /\ WordsFor(Len(frame)) \in Nat /\ Len(frame) \in Nat
                            /\ Current + WordsIn(Waiting) + WordsFor(Len(frame)) <= Depth
<1> DEFINE n == BytePointer + SendCount
           c == IF SCNZ THEN One(n) ELSE <<>>
           q == Cat(c, Waiting)
           qq == Cat(q, One(Len(frame)))
<1>0. (wire = <<>> \/ wire = One(wire[1])) /\ LineInv /\ TxFlags
  BY DEF LinkInv, LineInv
<1>1. Waiting \in Seq(Nat) /\ WordsIn(Waiting) \in Nat /\ n \in Nat /\ Len(Waiting) \in Nat
  <2>1. Waiting \in Seq(Nat) /\ BytePointer \in Nat /\ SendCount \in Nat
    BY Kinds
  <2>2. WordsIn(Waiting) \in Nat
    BY <2>1, OffsetsAre
  <2> QED BY <2>1, <2>2
<1>2. SCNZ => Fits(n) /\ All # <<>>
  <2> SUFFICES ASSUME SCNZ PROVE Fits(n) /\ All # <<>>
    OBVIOUS
  <2>1. Fits(n)
    BY <1>0 DEF TxFlags
  <2>2. wire # <<>> \/ (RFDGo /\ RecvCount # 0)
    BY <1>0 DEF LineInv, LinkInv, RxFlags
  <2>3. Len(All) # 0
    <3>1. RecvCount \in Nat /\ SendCount \in Nat
      BY Kinds
    <3> QED BY <1>0, <2>2, <3>1, LineIs
  <2>4. All # <<>>
    BY <2>3, EmptyIs
  <2> QED BY <2>1, <2>4
<1>3. Current = (IF SCNZ THEN WordsFor(n) ELSE 0) /\ WordsFor(n) \in Nat
  BY <1>1, WordsForNat DEF Current
<1> HIDE DEF n
<1>4. /\ q \in Seq(Nat) /\ WordsIn(q) = Current + WordsIn(Waiting)
      /\ Len(q) = (IF SCNZ THEN 1 ELSE 0) + Len(Waiting)
      /\ \A k \in 1 .. Len(q) : Fits(q[k])
  <2>0. \A k \in 1 .. Len(Waiting) : Fits(Waiting[k])
    BY FramesUnderWay
  <2>1. CASE ~SCNZ
    <3>1. q = Waiting
      <4>1. Cat(<<>>, Waiting) = Waiting
        BY <1>1, SeqIs, ConcatIs
      <4> QED BY <2>1, <4>1
    <3> HIDE DEF q
    <3> QED BY <1>1, <1>3, <2>0, <2>1, <3>1
  <2>2. CASE SCNZ
    <3>1. q = Cat(One(n), Waiting)
      BY <2>2
    <3>2. Cat(One(n), Waiting) \in Seq(Nat) /\ Len(Cat(One(n), Waiting)) = 1 + Len(Waiting)
      <4>1. One(n) \in Seq(Nat) /\ Len(One(n)) = 1
        BY <1>1, OneTyped
      <4> QED BY <1>1, <4>1, CatTyped
    <3>3. WordsIn(Cat(One(n), Waiting)) = WordsFor(n) + WordsIn(Waiting)
      BY <1>1, FramesHead
    <3>4. \A k \in 1 .. Len(q) : Fits(q[k])
      <4>1. AllIn(One(n), {m \in Nat : Fits(m)}) /\ IsSeq(One(n))
        BY <1>1, <1>2, <2>2, EmptyIs DEF AllIn
      <4>2. AllIn(Waiting, {m \in Nat : Fits(m)}) /\ IsSeq(Waiting)
        BY <1>1, <2>0, SeqIs DEF AllIn
      <4>3. AllIn(Cat(One(n), Waiting), {m \in Nat : Fits(m)})
        BY <4>1, <4>2, AllInCat
      <4> QED BY <3>1, <4>3 DEF AllIn
    <3> QED BY <1>3, <2>2, <3>1, <3>2, <3>3, <3>4
  <2> QED BY <2>1, <2>2
<1> HIDE DEF q
<1> DEFINE x == IF reading = 0 THEN 0 ELSE 1
           y == IF All = <<>> THEN 0 ELSE 1
           z == IF frame = <<>> THEN 0 ELSE 1
           w == IF SCNZ THEN 1 ELSE 0
<1>5. Len(q) + z <= Unread
  <2>1. Len(rcounts) \in Nat
    BY Kinds
  <2>2. x + Len(rcounts) + y + Len(Waiting) + z <= Unread
    BY HowMany
  <2>3. Unread \in Nat
    BY LinkAssumption
  <2>4. w <= y
    BY <1>2
  <2>5. Len(q) = w + Len(Waiting)
    BY <1>4
  <2>6. x \in Nat /\ y \in Nat /\ z \in Nat /\ w \in Nat
    OBVIOUS
  <2> HIDE DEF x, y, z, w
  <2> QED BY <1>1, <2>1, <2>2, <2>3, <2>4, <2>5, <2>6
<1>6. CASE frame = <<>>
  <2>1. WordsIn(q) <= Depth
    BY <1>4, <1>5, <1>6, Capacity
  <2> QED BY <1>1, <1>3, <1>4, <1>6, <2>1
<1>7. CASE frame # <<>>
  <2>0. frame \in Frames
    BY <1>7 DEF TypeInv, Counts
  <2>1. Len(frame) \in Nat /\ WordsFor(Len(frame)) \in Nat /\ Fits(Len(frame))
    BY <2>0, FrameIs, WordsForNat
  <2>2. /\ qq \in Seq(Nat) /\ Len(qq) = Len(q) + 1
        /\ WordsIn(qq) = WordsIn(q) + WordsFor(Len(frame))
    <3>1. One(Len(frame)) \in Seq(Nat) /\ Len(One(Len(frame))) = 1
      BY <2>1, OneTyped
    <3>2. qq \in Seq(Nat) /\ Len(qq) = Len(q) + 1
      BY <1>4, <3>1, CatTyped
    <3>3. WordsIn(qq) = WordsIn(q) + WordsFor(Len(frame))
      BY <1>4, <2>1, FramesNext
    <3> QED BY <3>2, <3>3
  <2>3. \A k \in 1 .. Len(qq) : Fits(qq[k])
    <3>1. AllIn(One(Len(frame)), {m \in Nat : Fits(m)}) /\ IsSeq(One(Len(frame)))
      BY <2>1, EmptyIs DEF AllIn
    <3>2. AllIn(q, {m \in Nat : Fits(m)}) /\ IsSeq(q)
      BY <1>4, SeqIs DEF AllIn
    <3>3. AllIn(qq, {m \in Nat : Fits(m)})
      BY <3>1, <3>2, AllInCat
    <3> QED BY <3>3 DEF AllIn
  <2> HIDE DEF qq
  <2>4. WordsIn(qq) <= Depth
    BY <1>4, <1>5, <1>7, <2>2, <2>3, Capacity
  <2>5. Current + WordsIn(Waiting) + WordsFor(Len(frame)) <= Depth
    BY <1>4, <2>2, <2>4
  <2>6. Current \in Nat
    BY <1>3
  <2> QED BY <1>1, <1>7, <2>1, <2>5, <2>6, FifoAssumption
<1> QED BY <1>6, <1>7

-----------------------------------------------------------------------------
(***************************************************************************)
(* An edge of the receiver.                                                *)
(***************************************************************************)

\* An address after wrapping.
LEMMA SameMod ==
  ASSUME NEW a \in Nat
  PROVE  a % Depth \in 0 .. Depth - 1 /\ Same(a % Depth, a)
<1>1. Depth \in Nat \ {0}
  BY FifoAssumption
<1>2. Same(a, a)
  BY DEF Same
<1>3. 0 \in Nat
  OBVIOUS
<1> QED BY <1>1, <1>2, <1>3, DivIs, SameAdd, Zenon

LEMMA SameCancel ==
  ASSUME NEW a \in Nat, NEW b \in Nat, Same(a + 1, b + 1)
  PROVE  Same(a, b)
<1>0. Depth \in Nat \ {0} /\ Depth - 1 \in Nat /\ a + 1 \in Nat /\ b + 1 \in Nat
  BY FifoAssumption
<1>1. Same(a + 1 + (Depth - 1), b + 1 + (Depth - 1))
  BY <1>0, SameAdd
<1>2. a + 1 + (Depth - 1) = a + Depth /\ b + 1 + (Depth - 1) = b + Depth
  BY <1>0
<1>3. ASSUME NEW c \in Nat PROVE (c + Depth) % Depth = c % Depth
  <2>1. c \div Depth \in Nat /\ c % Depth \in 0 .. Depth - 1 /\ c = Depth * (c \div Depth) + (c % Depth)
    BY <1>0, DivIs
  <2>2. Depth * (c \div Depth + 1) = Depth * (c \div Depth) + Depth
    BY <1>0, <2>1
  <2>3. c + Depth = Depth * (c \div Depth + 1) + (c % Depth) /\ c \div Depth + 1 \in Int
        /\ c + Depth \in Nat
    BY <1>0, <2>1, <2>2
  <2> QED BY <1>0, <2>1, <2>3, DivUnique, Zenon
<1> QED BY <1>1, <1>2, <1>3 DEF Same

\* One byte more in words and bytes.
LEMMA NextByteIs ==
  ASSUME NEW n \in Nat
  PROVE  /\ (n + 1) \div W = n \div W + (IF n % W = W - 1 THEN 1 ELSE 0)
         /\ (n + 1) % W = ((n % W) + 1) % W
         /\ n % W = W - 1 <=> (n + 1) % W = 0
<1>0. n \div W \in Nat /\ n % W \in 0 .. W - 1 /\ n = W * (n \div W) + (n % W) /\ W \in Nat \ {0}
  BY WordIs, FifoAssumption
<1>1. (n + 1) % W = ((n % W) + 1) % W
  BY <1>0, ModAdd
<1>2. CASE n % W = W - 1
  <2>1. W * (n \div W + 1) = W * (n \div W) + W
    BY <1>0
  <2>2. n + 1 = W * (n \div W + 1) + 0 /\ n \div W + 1 \in Int /\ 0 \in 0 .. W - 1 /\ n + 1 \in Nat
    BY <1>0, <1>2, <2>1
  <2>3. (n + 1) \div W = n \div W + 1 /\ (n + 1) % W = 0
    BY <1>0, <2>2, DivUnique, Zenon
  <2> QED BY <1>1, <1>2, <2>3
<1>3. CASE n % W # W - 1
  <2>1. n + 1 = W * (n \div W) + ((n % W) + 1) /\ n \div W \in Int
        /\ (n % W) + 1 \in 0 .. W - 1 /\ n + 1 \in Nat
    BY <1>0, <1>3
  <2>2. (n + 1) \div W = n \div W /\ (n + 1) % W = (n % W) + 1
    BY <1>0, <2>1, DivUnique, Zenon
  <2> QED BY <1>0, <1>1, <1>3, <2>2
<1> QED BY <1>2, <1>3

Overlay ==
  IF RPushData \/ RBytePointer # 0 THEN [rbuffram EXCEPT ![RInAdd] = RDataLatch] ELSE rbuffram

LEMMA ReceivedIs ==
  Received = IF (RFDGo \/ RPushRC)
             THEN BytesAt(Overlay, FirstUnread + WordsIn(rcounts), 0, RecvCount) ELSE <<>>
  BY DEF Received, Overlay

LEMMA FirstUnreadIs ==
  ASSUME TypeInv, LinkInv
  PROVE  /\ FirstUnread = ROutAdd + Left(reading, words) /\ FirstUnread \in Nat
         /\ WordsIn(rcounts) \in Nat /\ LineWords \in Nat /\ RxNext \in Nat
<1>1. Left(reading, words) \in Nat /\ WordsIn(rcounts) \in Nat
  BY RxRoom
<1>2. ROutAdd \in Nat /\ RInAdd \in Nat /\ RecvCount \in Nat
  BY Kinds, FifoAssumption
<1>3. FirstUnread = ROutAdd + Left(reading, words)
  BY DEF FirstUnread, Left
<1>4. WordsFor(RecvCount) \in Nat /\ RecvCount \div W \in Nat
  BY <1>2, WordsForNat, WordIs
<1> QED BY <1>1, <1>2, <1>3, <1>4 DEF LineWords, RxNext

\* The words of what has been received are no more than those of the frame.
LEMMA LineFits ==
  ASSUME TypeInv, LinkInv, RFDGo \/ RPushRC
  PROVE  /\ All # <<>> /\ Len(All) \in Nat /\ RecvCount <= Len(All)
         /\ Left(reading, words) + WordsIn(rcounts) + WordsFor(RecvCount) <= Depth
         /\ LineWords <= WordsFor(RecvCount) /\ (RPushData => LineWords # 0)
         /\ RecvCount # 0
<1>0. RxFlags /\ LineInv /\ (wire = <<>> \/ wire = One(wire[1])) /\ RecvCount \in Nat /\ SendCount \in Nat
  BY Kinds DEF LinkInv, LineInv
<1>1. RecvCount # 0
  BY <1>0 DEF RxFlags
<1>2. Len(All) \in Nat /\ RecvCount <= Len(All)
  BY <1>0, LineIs
<1>3. All # <<>>
  BY <1>0, <1>1, <1>2, EmptyIs
<1>4. WordsFor(RecvCount) <= WordsFor(Len(All))
  BY <1>0, <1>2, WordsForFacts
<1>5. Left(reading, words) + WordsIn(rcounts) + WordsFor(RecvCount) <= Depth
  <2>1. WordsFor(RecvCount) \in Nat /\ WordsFor(Len(All)) \in Nat
    BY <1>0, <1>2, WordsForNat
  <2> QED BY <1>3, <1>4, <2>1, RxRoom, FifoAssumption
<1>6. WordsFor(RecvCount) = RecvCount \div W + (IF RecvCount % W = 0 THEN 0 ELSE 1)
      /\ RecvCount \div W \in Nat /\ (RecvCount # 0 => WordsFor(RecvCount) # 0)
  BY <1>0, WordsForFacts, WordIs
<1>7. LineWords <= WordsFor(RecvCount)
  BY <1>6 DEF LineWords
<1>8. RPushData => LineWords # 0
  <2>1. RPushRC => LineWords # 0
    BY <1>1, <1>6 DEF LineWords
  <2>2. ~RPushRC => RFDGo
    OBVIOUS
  <2>3. RPushData /\ RFDGo => RecvCount % W = 0
    BY <1>0 DEF RxFlags
  <2> QED BY <1>1, <1>6, <2>1, <2>2, <2>3 DEF LineWords
<1> QED BY <1>1, <1>2, <1>3, <1>5, <1>7, <1>8

\* The word that is written does not touch what has arrived.
LEMMA RxWrites ==
  ASSUME TypeInv, LinkInv, NEW popdata, NEW poprc, RBackground(popdata, poprc, FALSE)
  PROVE  /\ DOMAIN rbuffram' = 0 .. Depth - 1
         /\ Agree(rbuffram, ROutAdd, rbuffram', ROutAdd, Left(reading, words) + WordsIn(rcounts))
         /\ RInAdd' \in 0 .. Depth - 1
         /\ Same(RInAdd', FirstUnread + WordsIn(rcounts) + LineWords)
<1> DEFINE l == Left(reading, words)
           n == WordsIn(rcounts)
<1>0. /\ RxFlags /\ DOMAIN rbuffram = 0 .. Depth - 1 /\ RInAdd \in 0 .. Depth - 1
      /\ RInAdd \in Nat /\ ROutAdd \in Nat /\ l \in Nat /\ n \in Nat /\ Depth \in Nat \ {0}
      /\ FirstUnread = ROutAdd + l /\ LineWords \in Nat /\ RxNext \in Nat
  <2>1. RInAdd \in 0 .. Depth - 1 /\ ROutAdd \in 0 .. Depth - 1
    BY Kinds
  <2>2. RxFlags /\ DOMAIN rbuffram = 0 .. Depth - 1
    BY DEF LinkInv
  <2> QED BY <2>1, <2>2, RxRoom, FirstUnreadIs, FifoAssumption
<1>1. Same(RxNext, ROutAdd + l + n + LineWords)
  BY <1>0 DEF RxFlags
<1>2. /\ rbuffram' = IF RPushData THEN [rbuffram EXCEPT ![RInAdd] = RDataLatch] ELSE rbuffram
      /\ RInAdd' = RxNext % Depth
  BY DEF RBackground, RxNext
<1>3. RInAdd' \in 0 .. Depth - 1 /\ Same(RInAdd', RxNext)
  BY <1>0, <1>2, SameMod
<1>4. CASE RPushData
  <2>1. RFDGo \/ RPushRC
    BY <1>0, <1>4 DEF RxFlags
  <2>2. LineWords # 0 /\ l + n + LineWords <= Depth
    <3>1. l + n + WordsFor(RecvCount) <= Depth /\ LineWords <= WordsFor(RecvCount) /\ LineWords # 0
      BY <1>4, <2>1, LineFits
    <3>2. WordsFor(RecvCount) \in Nat
      BY Kinds, WordsForNat
    <3> QED BY <1>0, <3>1, <3>2
  <2> HIDE DEF l, n
  <2> DEFINE m == l + n + (LineWords - 1)
  <2>3. m \in Nat /\ m < Depth /\ l + n <= m /\ l + n \in Nat
        /\ ROutAdd + m + 1 = ROutAdd + l + n + LineWords /\ ROutAdd + m \in Nat
    BY <1>0, <2>2
  <2> HIDE DEF m
  <2>4. Same(RInAdd, ROutAdd + m)
    <3>1. Same(RInAdd + 1, ROutAdd + m + 1)
      BY <1>1, <1>4, <2>3 DEF RxNext
    <3> QED BY <1>0, <2>3, <3>1, SameCancel
  <2>5. Agree(rbuffram, ROutAdd, [rbuffram EXCEPT ![RInAdd] = RDataLatch], ROutAdd, l + n)
    <3>1. Same(ROutAdd, ROutAdd)
      BY DEF Same
    <3> QED BY <1>0, <2>3, <2>4, <3>1, AgreePut
  <2> QED BY <1>0, <1>1, <1>2, <1>3, <1>4, <2>5 DEF Same, l, n
<1>5. CASE ~RPushData
  <2>1. rbuffram' = rbuffram
    BY <1>2, <1>5
  <2>2. Agree(rbuffram, ROutAdd, rbuffram, ROutAdd, l + n)
    BY DEF Agree
  <2> QED BY <1>0, <1>1, <1>3, <2>1, <2>2 DEF Same
<1> QED BY <1>4, <1>5

\* An edge of the receiver before the reader has had its pop: what it has in
\* hand, and the invariant of its flags and of the line.
InHand == Cat(rcounts, Pending)

ReceivedNext ==
  IF RFDGo' \/ RPushRC'
  THEN BytesAt(Overlay', FirstUnread + WordsIn(InHand), 0, RecvCount') ELSE <<>>

FlagsNext ==
  /\ RFDGo' => RecvCount' # 0 /\ RBytePointer' = RecvCount' % W /\ (RPushData' => RBytePointer' = 0)
  /\ ~RFDGo' => RBytePointer' = 0
  /\ RPushRC' => RecvCount' # 0 /\ (RPushData' <=> RecvCount' % W # 0)
  /\ RPushData' => RFDGo' \/ RPushRC'
  /\ RFDGo' \/ RPushRC' => DOMAIN RDataLatch' = 1 .. W
  /\ Same(RxNext', FirstUnread + WordsIn(InHand) + LineWords')

LineKept ==
  /\ wire' = <<>> \/ (wire' = One(wire'[1]) /\ Go)
  /\ RFDGo' \/ RPushRC' => SCNZ \/ FDGo
  /\ RPushRC' => ~RFDGo' /\ FDGo
  /\ SCNZ => wire' # <<>> \/ RFDGo'

Arriving == Cat(Arrived(rbuffram, ROutAdd, reading, words, rcounts), Whole(All))

ArrivingNext ==
  Cat(Arrived(rbuffram', ROutAdd, reading, words, InHand),
      Whole(Cat(Cat(ReceivedNext, wire'), ToCome)))

LEMMA Gap == LinkInv => (FDGo => ~SCNZ) /\ (Go => SCNZ)
  BY DEF LinkInv, TxFlags

LEMMA InHandIs ==
  ASSUME TypeInv
  PROVE  /\ InHand \in Seq(Nat)
         /\ ~RPushRC => InHand = rcounts
         /\ RPushRC => InHand = Cat(rcounts, One(RecvCount))
                       /\ WordsIn(InHand) = WordsIn(rcounts) + WordsFor(RecvCount)
<1>1. rcounts \in Seq(Nat) /\ RecvCount \in Nat
  BY Kinds
<1>2. RPushRC => InHand = Cat(rcounts, One(RecvCount))
  BY DEF InHand, Pending, One
<1>3. ~RPushRC => InHand = rcounts
  <2>1. Cat(rcounts, <<>>) = rcounts
    BY <1>1, SeqIs, ConcatIs
  <2> QED BY <2>1 DEF InHand, Pending
<1>4. Cat(rcounts, One(RecvCount)) \in Seq(Nat)
  BY <1>1, OneTyped, CatTyped
<1>5. WordsIn(Cat(rcounts, One(RecvCount))) = WordsIn(rcounts) + WordsFor(RecvCount)
  BY <1>1, FramesNext
<1> QED BY <1>1, <1>2, <1>3, <1>4, <1>5

LEMMA ArrivedKept ==
  ASSUME TypeInv, LinkInv, NEW popdata, NEW poprc, RBackground(popdata, poprc, FALSE)
  PROVE  Arrived(rbuffram', ROutAdd, reading, words, rcounts)
           = Arrived(rbuffram, ROutAdd, reading, words, rcounts)
<1>1. ROutAdd \in Nat /\ rcounts \in Seq(Nat) /\ Reads(reading, words)
  BY Kinds DEF LinkInv
<1>2. Agree(rbuffram, ROutAdd, rbuffram', ROutAdd, Left(reading, words) + WordsIn(rcounts))
  BY RxWrites
<1> QED BY <1>1, <1>2, ArrivedAgree

\* Outside of a byte nothing arrives.
LEMMA ListenKeeps ==
  ASSUME TypeInv, LinkInv, NEW popdata, NEW poprc,
         RBackground(popdata, poprc, FALSE), Listen(wire # <<>>, FALSE), wire' = wire
  PROVE  FlagsNext /\ LineKept /\ ArrivingNext = Arriving
<1> DEFINE l == Left(reading, words)
           E == FirstUnread + WordsIn(rcounts)
<1>0. /\ RxFlags /\ LineInv /\ Reads(reading, words) /\ (wire = <<>> \/ wire = One(wire[1]))
      /\ RecvCount \in Nat /\ rcounts \in Seq(Nat) /\ ROutAdd \in Nat
      /\ l \in Nat /\ E \in Nat /\ LineWords \in Nat /\ E = ROutAdd + l + WordsIn(rcounts)
  <2>1. RxFlags /\ LineInv /\ Reads(reading, words)
    BY DEF LinkInv
  <2>2. RecvCount \in Nat /\ rcounts \in Seq(Nat) /\ ROutAdd \in Nat
    BY Kinds
  <2>3. l \in Nat /\ E \in Nat /\ LineWords \in Nat /\ E = ROutAdd + l + WordsIn(rcounts)
    BY RxRoom, FirstUnreadIs
  <2> QED BY <2>1, <2>2, <2>3 DEF LineInv
<1>1. /\ RFDGo' = RFDGo /\ RPushRC' = FALSE /\ RPushData' = FALSE /\ RBytePointer' = RBytePointer
      /\ RecvCount' = RecvCount /\ RDataLatch' = RDataLatch
  <2>1. RFDGo \in BOOLEAN
    BY DEF TypeInv, LinkTypeOK, RxTypeOK
  <2> QED BY <2>1 DEF Listen
<1>2. /\ rbuffram' = IF RPushData THEN [rbuffram EXCEPT ![RInAdd] = RDataLatch] ELSE rbuffram
      /\ (~RPushData => RInAdd' = RInAdd)
  <2>1. RInAdd \in 0 .. Depth - 1
    BY Kinds
  <2>2. (RInAdd + 0) % Depth = RInAdd
    BY <2>1, FifoAssumption
  <2> QED BY <2>2 DEF RBackground
<1>3. RPushData => RBytePointer = 0
  BY <1>0 DEF RxFlags
<1>4. Overlay' = Overlay
  BY <1>1, <1>2, <1>3 DEF Overlay
<1>5. LineKept
  BY <1>0, <1>1 DEF LineInv, LineKept
<1>6. WordsFor(RecvCount) \in Nat /\ RecvCount \div W \in Nat /\ WordsIn(rcounts) \in Nat
  BY <1>0, WordsForNat, WordIs, OffsetsAre
<1>7. Same(RxNext', FirstUnread + WordsIn(InHand) + LineWords')
  <2>1. Same(RInAdd', E + LineWords) /\ RInAdd' \in Nat
    <3>1. RInAdd' \in 0 .. Depth - 1 /\ Same(RInAdd', FirstUnread + WordsIn(rcounts) + LineWords)
      BY RxWrites
    <3> QED BY <3>1
  <2>2. RxNext' = RInAdd'
    <3>1. RxNext' = RInAdd' + IF RPushData' THEN 1 ELSE 0
      BY DEF RxNext
    <3>2. RPushData' = FALSE
      BY <1>1
    <3>3. ASSUME NEW x \in Nat PROVE x + 0 = x
      OBVIOUS
    <3>4. RxNext' = RInAdd' + 0
      BY <3>1, <3>2
    <3> QED BY <2>1, <3>3, <3>4, Zenon
  <2>3. FirstUnread + WordsIn(InHand) + LineWords' = E + LineWords
    <3>0. LineWords' = IF RFDGo THEN RecvCount \div W ELSE 0
      BY <1>1 DEF LineWords
    <3>1. CASE RPushRC
      <4>1. ~RFDGo /\ LineWords = WordsFor(RecvCount) /\ LineWords' = 0
        BY <1>0, <3>0, <3>1 DEF LineInv, LineWords
      <4>2. WordsIn(InHand) = WordsIn(rcounts) + WordsFor(RecvCount)
        BY <3>1, InHandIs
      <4> QED BY <1>6, <4>1, <4>2, FirstUnreadIs
    <3>2. CASE ~RPushRC
      <4>1. LineWords' = LineWords /\ InHand = rcounts
        BY <3>0, <3>2, InHandIs DEF LineWords
      <4> QED BY <4>1
    <3> QED BY <3>1, <3>2
  <2> QED BY <2>1, <2>2, <2>3
<1>8. FlagsNext
  BY <1>0, <1>1, <1>7 DEF RxFlags, FlagsNext
<1>9. Arrived(rbuffram', ROutAdd, reading, words, rcounts) = Arrived(rbuffram, ROutAdd, reading, words, rcounts)
  BY ArrivedKept
<1>10. IsSeq(Received) /\ IsSeq(wire) /\ IsSeq(ToCome)
  BY <1>0, LineIs
<1>11. CASE RPushRC
  <2>1. ~RFDGo /\ FDGo /\ ~SCNZ /\ ~Go /\ wire = <<>> /\ ToCome = <<>>
    BY <1>0, <1>11, Gap DEF LineInv, ToCome
  <2>2. Overlay = rbuffram'
    BY <1>0, <1>2, <2>1 DEF RxFlags, Overlay
  <2>3. Received = BytesAt(rbuffram', E, 0, RecvCount)
    BY <1>11, <2>2, ReceivedIs
  <2>4. All = Received
    <3>1. Cat(Received, <<>>) = Received
      BY <1>10, ConcatIs
    <3> QED BY <2>1, <3>1 DEF All
  <2>5. Received # <<>>
    BY <1>11, <2>4, LineFits
  <2>6. Arriving = Cat(Arrived(rbuffram', ROutAdd, reading, words, rcounts), One(BytesAt(rbuffram', E, 0, RecvCount)))
    BY <1>9, <2>3, <2>4, <2>5 DEF Arriving, Whole
  <2>7. InHand = Cat(rcounts, One(RecvCount))
    BY <1>11, InHandIs
  <2>8. Arrived(rbuffram', ROutAdd, reading, words, InHand) = Arriving
    BY <1>0, <2>6, <2>7, ArrivedNext
  <2>9. ReceivedNext = <<>> /\ wire' = <<>>
    BY <1>1, <2>1 DEF ReceivedNext
  <2>10. Whole(Cat(Cat(ReceivedNext, wire'), ToCome)) = <<>>
    <3>1. Cat(<<>>, <<>>) = <<>>
      BY EmptyIs, ConcatIs
    <3> QED BY <2>1, <2>9, <3>1 DEF Whole
  <2>11. Cat(Arrived(rbuffram', ROutAdd, reading, words, InHand), <<>>) = Arrived(rbuffram', ROutAdd, reading, words, InHand)
    <3> DEFINE s == Arrived(rbuffram', ROutAdd, reading, words, InHand)
    <3>1. IsSeq(s)
      BY InHandIs, ArrivedIs
    <3> HIDE DEF s
    <3>2. Cat(s, <<>>) = s
      BY <3>1, ConcatIs
    <3> QED BY <3>2 DEF s
  <2> QED BY <1>5, <1>8, <2>8, <2>10, <2>11 DEF ArrivingNext
<1>12. CASE ~RPushRC
  <2>1. InHand = rcounts
    BY <1>12, InHandIs
  <2>2. ReceivedNext = Received
    BY <1>1, <1>4, <1>12, <2>1, ReceivedIs DEF ReceivedNext
  <2> QED BY <1>5, <1>8, <1>9, <2>1, <2>2 DEF ArrivingNext, Arriving, All
<1> QED BY <1>11, <1>12

\* The end of the frame delay counts the frame.
LEMMA TimeoutKeeps ==
  ASSUME TypeInv, LinkInv, NEW popdata, NEW poprc,
         RBackground(popdata, poprc, FALSE), wire = <<>>, ~RPushData, FDGo \/ ~(Go \/ SCNZ),
         FrameTimeout(FALSE), wire' = wire
  PROVE  FlagsNext /\ LineKept /\ ArrivingNext = Arriving
<1> DEFINE E == FirstUnread + WordsIn(rcounts)
<1>0. /\ RxFlags /\ LineInv /\ RecvCount \in Nat /\ E \in Nat /\ LineWords \in Nat
  <2>1. RxFlags /\ LineInv
    BY DEF LinkInv
  <2>2. RecvCount \in Nat
    BY Kinds
  <2>3. FirstUnread \in Nat /\ WordsIn(rcounts) \in Nat /\ LineWords \in Nat
    BY FirstUnreadIs
  <2>4. E \in Nat
    BY <2>3
  <2> QED BY <2>1, <2>2, <2>3, <2>4
<1>1. RFDGo /\ ~RPushRC /\ FDGo /\ ~SCNZ /\ RecvCount # 0 /\ RBytePointer = RecvCount % W
  BY <1>0, Gap DEF FrameTimeout, LineInv, RxFlags
<1>2. /\ RFDGo' = FALSE /\ RPushRC' = TRUE /\ RPushData' = (RBytePointer # 0) /\ RBytePointer' = 0
      /\ RecvCount' = RecvCount /\ RDataLatch' = RDataLatch
  BY <1>1 DEF FrameTimeout
<1>3. rbuffram' = rbuffram /\ RInAdd' = RInAdd
  <2>1. RInAdd \in 0 .. Depth - 1
    BY Kinds
  <2>2. (RInAdd + 0) % Depth = RInAdd
    BY <2>1, FifoAssumption
  <2> QED BY <2>2 DEF RBackground
<1>4. Overlay' = Overlay
  BY <1>2, <1>3 DEF Overlay
<1>5. LineKept
  BY <1>1, <1>2 DEF LineKept
<1>6. InHand = rcounts
  BY <1>1, InHandIs
<1>7. Same(RxNext', E + LineWords')
  <2>1. Same(RInAdd', E + LineWords) /\ RInAdd' \in Nat
    <3>1. RInAdd' \in 0 .. Depth - 1 /\ Same(RInAdd', FirstUnread + WordsIn(rcounts) + LineWords)
      BY RxWrites
    <3> QED BY <3>1
  <2>2. LineWords = RecvCount \div W /\ LineWords' = WordsFor(RecvCount)
    BY <1>1, <1>2 DEF LineWords
  <2>3. LineWords' = LineWords + (IF RecvCount % W = 0 THEN 0 ELSE 1)
    BY <1>0, <2>2, WordsForFacts
  <2>4. RxNext' = RInAdd' + (IF RecvCount % W = 0 THEN 0 ELSE 1)
    BY <1>1, <1>2 DEF RxNext
  <2>5. CASE RecvCount % W = 0
    <3>1. RxNext' = RInAdd' /\ LineWords' = LineWords
      <4>1. ASSUME NEW x \in Nat PROVE x + 0 = x
        OBVIOUS
      <4>2. RxNext' = RInAdd' + 0 /\ LineWords' = LineWords + 0
        BY <2>3, <2>4, <2>5
      <4> QED BY <1>0, <2>1, <4>1, <4>2, Zenon
    <3> QED BY <2>1, <3>1
  <2>6. CASE RecvCount % W # 0
    <3>1. RxNext' = RInAdd' + 1 /\ E + LineWords' = E + LineWords + 1
      BY <1>0, <2>1, <2>3, <2>4, <2>6
    <3>2. E + LineWords \in Nat
      BY <1>0
    <3> QED BY <2>1, <3>1, <3>2, SameAdd
  <2> QED BY <2>5, <2>6
<1>8. FlagsNext
  BY <1>0, <1>1, <1>2, <1>6, <1>7 DEF RxFlags, FlagsNext
<1>9. ReceivedNext = Received
  BY <1>1, <1>2, <1>4, <1>6, ReceivedIs DEF ReceivedNext
<1> QED BY <1>3, <1>5, <1>6, <1>8, <1>9 DEF ArrivingNext, Arriving, All

\* The end of a byte adds it to what has been received.
LEMMA CharEndKeeps ==
  ASSUME TypeInv, LinkInv, NEW popdata, NEW poprc,
         RBackground(popdata, poprc, FALSE), wire # <<>>, ~RPushData, ~RPushRC,
         CharEnd(wire[1], FALSE), wire' = <<>>
  PROVE  FlagsNext /\ LineKept /\ ArrivingNext = Arriving
<1> DEFINE E == FirstUnread + WordsIn(rcounts)
           n == IF RFDGo THEN RecvCount ELSE 0
<1>0. /\ RxFlags /\ LineInv /\ RecvCount \in Nat /\ n \in Nat /\ E \in Nat /\ wire = One(wire[1])
      /\ DOMAIN rbuffram = 0 .. Depth - 1 /\ RInAdd \in 0 .. Depth - 1
  <2>1. RxFlags /\ LineInv /\ DOMAIN rbuffram = 0 .. Depth - 1
    BY DEF LinkInv
  <2>2. RecvCount \in Nat /\ RInAdd \in 0 .. Depth - 1
    BY Kinds
  <2>3. E \in Nat
    BY FirstUnreadIs
  <2> QED BY <2>1, <2>2, <2>3 DEF LineInv
<1>1. SCNZ /\ Go /\ ~FDGo
  BY <1>0, Gap DEF LineInv
<1>2. RBytePointer = n % W /\ LineWords = n \div W /\ (n # 0 => DOMAIN RDataLatch = 1 .. W)
  <2>1. CASE RFDGo
    BY <1>0, <2>1 DEF RxFlags, LineWords
  <2>2. CASE ~RFDGo
    <3>1. 0 % W = 0 /\ 0 \div W = 0
      BY FifoAssumption
    <3> QED BY <1>0, <2>2, <3>1 DEF RxFlags, LineWords
  <2> QED BY <2>1, <2>2
<1>3. /\ RFDGo' = TRUE /\ RPushRC' = FALSE /\ RPushData' = (n % W = W - 1)
      /\ RBytePointer' = ((n % W) + 1) % W /\ RecvCount' = n + 1
      /\ RDataLatch' = Latched(RDataLatch, n, wire[1])
  <2>1. RecvCount' = n + 1
    BY <1>0 DEF CharEnd
  <2> QED BY <1>2, <2>1 DEF CharEnd, Latched
<1>4. rbuffram' = rbuffram /\ RInAdd' = RInAdd
  <2>1. (RInAdd + 0) % Depth = RInAdd
    BY <1>0, FifoAssumption
  <2> QED BY <2>1 DEF RBackground
<1>5. RBytePointer' = (n + 1) % W /\ (RPushData' <=> RBytePointer' = 0)
      /\ (n + 1) \div W = n \div W + (IF n % W = W - 1 THEN 1 ELSE 0)
  BY <1>0, <1>3, NextByteIs
<1>6. Overlay' = [rbuffram EXCEPT ![RInAdd] = RDataLatch']
  BY <1>4, <1>5 DEF Overlay
<1>7. Overlay = IF n % W # 0 THEN [rbuffram EXCEPT ![RInAdd] = RDataLatch] ELSE rbuffram
  BY <1>2 DEF Overlay
<1>8. InHand = rcounts
  BY InHandIs
<1>9. Same(RInAdd, E + n \div W)
  <2>1. RxNext = RInAdd
    <3>1. RInAdd + 0 = RInAdd
      BY <1>0
    <3> QED BY <3>1 DEF RxNext
  <2> QED BY <1>0, <1>2, <2>1 DEF RxFlags
<1>10. n \div W < Depth /\ n \div W \in Nat
  <2>1. Len(All) \in Nat /\ n < Len(All)
    <3>1. /\ Len(Received) = (IF RFDGo THEN RecvCount ELSE 0) /\ Len(wire) = 1
          /\ Len(ToCome) \in Nat /\ Len(All) = Len(Received) + Len(wire) + Len(ToCome)
      <4>1. SendCount \in Nat
        BY Kinds
      <4> QED BY <1>0, <4>1, LineIs
    <3> QED BY <1>0, <3>1
  <2>2. All # <<>>
    BY <1>0, <2>1, EmptyIs
  <2>3. n \div W < WordsFor(Len(All)) /\ n \div W \in Nat
    BY <1>0, <2>1, WordsForFacts, WordIs
  <2>4. Left(reading, words) + WordsIn(rcounts) + WordsFor(Len(All)) <= Depth
        /\ WordsFor(Len(All)) \in Nat /\ Left(reading, words) \in Nat /\ WordsIn(rcounts) \in Nat
    BY <2>2, RxRoom
  <2> QED BY <2>3, <2>4, FifoAssumption
<1>11. Received = BytesAt(Overlay, E, 0, n)
  <2>1. CASE RFDGo
    BY <2>1, ReceivedIs
  <2>2. CASE ~RFDGo
    <3>1. BytesAt(Overlay, E, 0, 0) = <<>>
      BY BytesIs
    <3> QED BY <2>2, <3>1, ReceivedIs
  <2> QED BY <2>1, <2>2
<1> HIDE DEF n, E
<1>12. BytesAt(Overlay', E, 0, n + 1) = Cat(BytesAt(Overlay, E, 0, n), One(wire[1]))
  <2>1. BytesAt([rbuffram EXCEPT ![RInAdd] = Latched(RDataLatch, n, wire[1])], E, 0, n + 1) =
          Cat(BytesAt(IF n % W # 0 THEN [rbuffram EXCEPT ![RInAdd] = RDataLatch] ELSE rbuffram, E, 0, n),
              One(wire[1]))
    <3>1. DOMAIN rbuffram = 0 .. Depth - 1
      BY <1>0
    <3>2. RInAdd \in 0 .. Depth - 1
      BY <1>0
    <3>3. E \in Nat /\ n \in Nat
      BY <1>0
    <3>4. n # 0 => DOMAIN RDataLatch = 1 .. W
      BY <1>2
    <3>5. n \div W < Depth
      BY <1>10
    <3>6. Packs(rbuffram, RInAdd, E, n, RDataLatch, wire[1])
      BY <3>1, <3>2, <3>3, <3>4, <3>5, <1>9, LatchNext, Zenon
    <3> QED BY <3>6 DEF Packs
  <2> QED BY <1>3, <1>6, <1>7, <2>1
<1>13. ReceivedNext = Cat(Received, wire)
  <2>1. ReceivedNext = BytesAt(Overlay', E, 0, n + 1)
    BY <1>3, <1>8 DEF ReceivedNext, E
  <2> QED BY <1>0, <1>11, <1>12, <2>1
<1>14. ArrivingNext = Arriving
  <2>1. Cat(Cat(Received, wire), <<>>) = Cat(Received, wire)
    <3>1. IsSeq(Received) /\ IsSeq(wire)
      BY <1>0, LineIs
    <3> DEFINE s == Cat(Received, wire)
    <3>2. IsSeq(s)
      BY <3>1, ConcatIs
    <3> HIDE DEF s
    <3>3. Cat(s, <<>>) = s
      BY <3>2, ConcatIs
    <3> QED BY <3>3 DEF s
  <2> QED BY <1>4, <1>8, <1>13, <2>1 DEF ArrivingNext, Arriving, All
<1>15. LineKept
  BY <1>1, <1>3 DEF LineKept
<1>16. Same(RxNext', E + LineWords')
  <2> DEFINE d == IF n % W = W - 1 THEN 1 ELSE 0
  <2>1. LineWords' = (n + 1) \div W
    BY <1>3 DEF LineWords
  <2>2. RxNext' = RInAdd + d
    BY <1>3, <1>4 DEF RxNext
  <2>3. d \in Nat /\ LineWords' = n \div W + d
    BY <1>5, <2>1
  <2> HIDE DEF d
  <2>4. E + n \div W \in Nat /\ RInAdd \in Nat /\ E + n \div W + d = E + (n \div W + d)
    BY <1>0, <1>10, <2>3
  <2>5. Same(RInAdd + d, E + n \div W + d)
    BY <1>9, <2>3, <2>4, SameAdd
  <2> QED BY <2>2, <2>3, <2>4, <2>5
<1>17. FlagsNext
  <2>1. n + 1 # 0
    BY <1>0
  <2>2. DOMAIN RDataLatch' = 1 .. W
    BY <1>3 DEF Latched
  <2> QED BY <1>3, <1>5, <1>8, <1>16, <2>1, <2>2 DEF FlagsNext, E
<1> QED BY <1>14, <1>15, <1>17

\* An edge of the receiver neither loses nor makes up a byte.
LEMMA RxEdgeKeeps ==
  ASSUME TypeInv, LinkInv, NEW popdata, NEW poprc,
         RxStep(popdata, poprc, FALSE)
  PROVE  FlagsNext /\ LineKept /\ ArrivingNext = Arriving
<1>0. RBackground(popdata, poprc, FALSE)
  BY DEF RxStep
<1>1. CASE wire # <<>> /\ ~RPushData /\ ~RPushRC /\ CharEnd(wire[1], FALSE) /\ wire' = <<>>
  BY <1>0, <1>1, CharEndKeeps
<1>2. CASE wire = <<>> /\ ~RPushData /\ (FDGo \/ ~(Go \/ SCNZ)) /\ FrameTimeout(FALSE) /\ wire' = wire
  BY <1>0, <1>2, TimeoutKeeps
<1>3. CASE Listen(wire # <<>>, FALSE) /\ wire' = wire
  BY <1>0, <1>3, ListenKeeps
<1> QED BY <1>1, <1>2, <1>3 DEF RxStep

-----------------------------------------------------------------------------
(***************************************************************************)
(* The steps of the receiver.                                              *)
(***************************************************************************)

\* QueueIs as a formula, so that it can be used of the next state.
LEMMA QueueNow ==
  TypeInv /\ (wire = <<>> \/ wire = One(wire[1])) =>
    /\ Queue = Cat(Cat(Arrived(rbuffram, ROutAdd, reading, words, rcounts), Whole(All)), Unsent)
    /\ Unsent = FramesAt(buffram, NextByte + Current, Waiting)
    /\ IsSeq(Arrived(rbuffram, ROutAdd, reading, words, rcounts))
    /\ IsSeq(Whole(All)) /\ IsSeq(Unsent) /\ IsSeq(Queue)
    /\ Len(Unsent) = Len(Waiting)
    /\ Len(Queue) = (IF reading = 0 THEN 0 ELSE 1) + Len(rcounts)
                      + (IF All = <<>> THEN 0 ELSE 1) + Len(Waiting)
BY QueueIs

LEMMA SameBytes ==
  ASSUME NEW mem, NEW a \in Nat, NEW b \in Nat, Same(a, b), NEW n \in Nat
  PROVE  BytesAt(mem, a, 0, n) = BytesAt(mem, b, 0, n)
<1>1. WordsFor(n) \in Nat
  BY WordsForNat
<1>2. Agree(mem, a, mem, b, WordsFor(n))
  BY <1>1, AgreeShift
<1> QED BY <1>2, BytesAgreeAll

\* The frame on the line after an edge of the receiver.
LineNext == Whole(Cat(Cat(ReceivedNext, wire'), ToCome))

\* What the transmitter has does not change in an edge of the receiver.
LEMMA TxKept ==
  ASSUME UNCHANGED <<txVars, todo, frame>>
  PROVE  /\ buffram' = buffram /\ NextByte' = NextByte /\ Current' = Current /\ Waiting' = Waiting
         /\ ToCome' = ToCome /\ Unsent' = Unsent /\ Driver' = Driver /\ TxFlags' = TxFlags
         /\ Sender' = Sender
         /\ Go' = Go /\ FDGo' = FDGo /\ SCNZ' = SCNZ
<1>1. /\ UNCHANGED <<buffram, InAdd, OutAdd, counts, SCFIFOError, SendCount, BytePointer,
                     ReadData, PopSC, Go, FDGo, SCNZ, SReg, DriveDelayCount, mode, todo, frame>>
  BY DEF txVars
<1>2. NextByte' = NextByte /\ Current' = Current /\ Loaded' = Loaded /\ Queued' = Queued
  BY <1>1 DEF NextByte, Current, Loaded, Queued
<1>3. Waiting' = Waiting
  BY <1>2 DEF Waiting
<1>4. ToCome' = ToCome
  BY <1>1, <1>2 DEF ToCome
<1>5. Unsent' = Unsent
  BY <1>1, <1>2 DEF Unsent
<1>6. Driver' = Driver /\ TxFlags' = TxFlags
  BY <1>1 DEF Driver, TxFlags, Cleared
<1>7. Pushed' = Pushed /\ TxEnd' = TxEnd
  BY <1>1, <1>2, <1>3 DEF Pushed, TxEnd
<1>8. Sender' = Sender
  BY <1>1, <1>7 DEF Sender
<1> QED BY <1>1, <1>2, <1>3, <1>4, <1>5, <1>6, <1>8

\* An edge of the receiver, whatever the reader does in it.
LEMMA RxOutcome ==
  ASSUME TypeInv, LinkInv, TypeInv',
         NEW popdata, NEW poprc, RxStep(popdata, poprc, FALSE), Reads(reading', words'),
         FirstUnread' \in Nat,
         Same(FirstUnread' + WordsIn(rcounts'), FirstUnread + WordsIn(InHand))
  PROVE  /\ Queue = Cat(Cat(Arrived(rbuffram', ROutAdd, reading, words, InHand), LineNext), Unsent)
         /\ Queue' = Cat(Cat(Arrived(rbuffram', ROutAdd', reading', words', rcounts'), LineNext), Unsent)
         /\ IsSeq(LineNext) /\ IsSeq(Unsent)
         /\ Len(Queue') <= Len(Queue) /\ AllIn(Queue', Frames) => LinkInv'
<1> DEFINE a == FirstUnread' + WordsIn(rcounts')
           b == FirstUnread + WordsIn(InHand)
<1>0. /\ RBackground(popdata, poprc, FALSE) /\ UNCHANGED <<txVars, todo, frame>>
      /\ wire = <<>> \/ wire = One(wire[1])
  BY DEF RxStep, LinkInv, LineInv
<1>1. FlagsNext /\ LineKept /\ ArrivingNext = Arriving
  BY RxEdgeKeeps
<1>2. /\ buffram' = buffram /\ ToCome' = ToCome /\ Unsent' = Unsent /\ Driver' = Driver
      /\ TxFlags' = TxFlags /\ Sender' = Sender
      /\ Go' = Go /\ FDGo' = FDGo /\ SCNZ' = SCNZ
  BY <1>0, TxKept
<1>3. wire' = <<>> \/ wire' = One(wire'[1])
  BY <1>1 DEF LineKept
<1>4. a \in Nat /\ b \in Nat /\ Same(a, b) /\ RecvCount' \in Nat /\ WordsIn(rcounts') \in Nat
  <2>1. rcounts' \in Seq(Nat) /\ RecvCount' \in Nat
    BY DEF TypeInv, Counts, LinkTypeOK, RxTypeOK
  <2>2. WordsIn(rcounts') \in Nat /\ WordsIn(InHand) \in Nat
    BY <2>1, InHandIs, OffsetsAre
  <2> QED BY <2>1, <2>2, FirstUnreadIs
<1> HIDE DEF a, b
<1>5. Received' = ReceivedNext
  <2>1. BytesAt(Overlay', a, 0, RecvCount') = BytesAt(Overlay', b, 0, RecvCount')
    BY <1>4, SameBytes
  <2>2. Received' = IF RFDGo' \/ RPushRC' THEN BytesAt(Overlay', a, 0, RecvCount') ELSE <<>>
    BY DEF Received, Overlay, a
  <2> QED BY <2>1, <2>2 DEF ReceivedNext, b
<1>6. Whole(All') = LineNext
  BY <1>2, <1>5 DEF All, LineNext
<1>7. /\ Queue' = Cat(Cat(Arrived(rbuffram', ROutAdd', reading', words', rcounts'), Whole(All')), Unsent')
      /\ IsSeq(Whole(All')) /\ IsSeq(Unsent')
  <2>1. (TypeInv /\ (wire = <<>> \/ wire = One(wire[1])) =>
          /\ Queue = Cat(Cat(Arrived(rbuffram, ROutAdd, reading, words, rcounts), Whole(All)), Unsent)
          /\ Unsent = FramesAt(buffram, NextByte + Current, Waiting)
          /\ IsSeq(Arrived(rbuffram, ROutAdd, reading, words, rcounts))
          /\ IsSeq(Whole(All)) /\ IsSeq(Unsent) /\ IsSeq(Queue)
          /\ Len(Unsent) = Len(Waiting)
          /\ Len(Queue) = (IF reading = 0 THEN 0 ELSE 1) + Len(rcounts)
                            + (IF All = <<>> THEN 0 ELSE 1) + Len(Waiting))'
    BY QueueNow, PTL
  <2> QED BY <1>3, <2>1
<1>8. Queue = Cat(Cat(Arrived(rbuffram', ROutAdd, reading, words, InHand), LineNext), Unsent)
  BY <1>0, <1>1, QueueIs DEF Arriving, ArrivingNext, LineNext
<1>9. ASSUME Len(Queue') <= Len(Queue), AllIn(Queue', Frames) PROVE LinkInv'
  <2>1. DOMAIN buffram' = 0 .. Depth - 1 /\ DOMAIN rbuffram' = 0 .. Depth - 1
    BY <1>0, <1>2, RxWrites DEF LinkInv
  <2>2. Driver' /\ TxFlags' /\ Sender'
    BY <1>2 DEF LinkInv
  <2>3. LineInv'
    BY <1>1, <1>2 DEF LineInv, LineKept
  <2>4. Room'
    <3>1. frame' = frame /\ IsSeq(Queue)
      BY <1>0, QueueIs
    <3>2. Len(Queue') \in Nat
      <4>1. IsSeq(Queue')
        <5>1. IsSeq(Arrived(rbuffram', ROutAdd', reading', words', rcounts'))
          <6>1. rcounts' \in Seq(Nat)
            BY DEF TypeInv, Counts
          <6> QED BY <6>1, ArrivedIs
        <5>2. IsSeq(Cat(Arrived(rbuffram', ROutAdd', reading', words', rcounts'), Whole(All')))
          BY <1>7, <5>1, ConcatIs
        <5> QED BY <1>7, <5>2, ConcatIs
      <4> QED BY <4>1 DEF IsSeq
    <3>3. Len(Queue) + (IF frame = <<>> THEN 0 ELSE 1) <= Unread /\ Unread \in Nat /\ Len(Queue) \in Nat
      BY <3>1, LinkAssumption DEF LinkInv, Room, IsSeq
    <3>4. Len(Queue') + (IF frame = <<>> THEN 0 ELSE 1) <= Unread
      BY <1>9, <3>2, <3>3
    <3> QED BY <1>9, <3>1, <3>4 DEF Room
  <2>5. RxFlags'
    <3>1. Same(RxNext', b + LineWords')
      BY <1>1 DEF FlagsNext, b
    <3>2. LineWords' \in Nat
      <4>1. WordsFor(RecvCount') \in Nat /\ RecvCount' \div W \in Nat
        BY <1>4, WordsForNat, WordIs
      <4> QED BY <4>1 DEF LineWords
    <3>3. Same(b + LineWords', a + LineWords')
      <4>1. Same(b, a)
        BY <1>4 DEF Same
      <4> QED BY <1>4, <3>2, <4>1, SameAdd
    <3>4. Same(RxNext', FirstUnread' + WordsIn(rcounts') + LineWords')
      BY <3>1, <3>3 DEF Same, a
    <3> QED BY <1>1, <3>4 DEF FlagsNext, RxFlags
  <2> QED BY <2>1, <2>2, <2>3, <2>4, <2>5 DEF LinkInv
<1> QED BY <1>2, <1>6, <1>7, <1>8, <1>9

\* The FIFO of counts never loses one: there is a slot for the one that is pushed.
LEMMA CountsNext ==
  ASSUME TypeInv, LinkInv, NEW popdata, NEW poprc \in BOOLEAN,
         poprc => rcounts # <<>>, RBackground(popdata, poprc, FALSE)
  PROVE  /\ rcounts' = IF poprc THEN Tail(InHand) ELSE InHand
         /\ rcounts # <<>> => InHand = Cat(One(Head(rcounts)), Tail(InHand)) /\ Tail(InHand) \in Seq(Nat)
<1>0. rcounts \in Seq(Nat) /\ IsSeq(rcounts) /\ Len(rcounts) \in Nat /\ RecvCount \in Nat
      /\ InHand \in Seq(Nat)
  BY Kinds, SeqIs, InHandIs
<1>1. rcounts' = CountFifo(rcounts, Pending, poprc)
  BY DEF RBackground
<1>2. IsSeq(Pending)
  BY EmptyIs DEF Pending, One
<1>3. Pending # <<>> => Len(rcounts) # Slots
  <2> SUFFICES ASSUME Pending # <<>> PROVE Len(rcounts) # Slots
    OBVIOUS
  <2>1. RPushRC
    BY DEF Pending
  <2>2. All # <<>>
    BY <2>1, LineFits
  <2>3. Len(rcounts) + 1 <= Slots
    BY <2>2, RxRoom
  <2> QED BY <1>0, <2>3, FifoAssumption
<1>4. rcounts # <<>> => InHand = Cat(One(Head(rcounts)), Cat(Tail(rcounts), Pending))
                        /\ Tail(InHand) = Cat(Tail(rcounts), Pending)
  <2> SUFFICES ASSUME rcounts # <<>>
               PROVE  InHand = Cat(One(Head(rcounts)), Cat(Tail(rcounts), Pending))
                      /\ Tail(InHand) = Cat(Tail(rcounts), Pending)
    OBVIOUS
  <2> DEFINE h == One(Head(rcounts))
             t == Tail(rcounts)
  <2>1. IsSeq(h) /\ IsSeq(t) /\ rcounts = Cat(h, t)
    BY <1>0, LenIs, EmptyIs
  <2>2. IsSeq(Cat(t, Pending))
    BY <1>2, <2>1, ConcatIs
  <2> HIDE DEF h, t
  <2>3. InHand = Cat(h, Cat(t, Pending))
    BY <1>2, <2>1, ConcatAssoc DEF InHand
  <2>4. Tail(Cat(One(Head(rcounts)), Cat(t, Pending))) = Cat(t, Pending)
    BY <2>2, CatHead
  <2> QED BY <2>3, <2>4 DEF h, t
<1>5. ASSUME poprc PROVE rcounts' = Tail(InHand)
  <2>1. rcounts' = Cat(Tail(rcounts), Pending)
    BY <1>1, <1>5 DEF CountFifo, Cat
  <2> QED BY <1>0, <1>4, <1>5, <2>1
<1>6. ASSUME ~poprc PROVE rcounts' = InHand
  <2>1. rcounts' = InHand
    BY <1>1, <1>3, <1>6 DEF CountFifo, Cat, InHand
  <2> QED BY <1>0, <1>4, <1>6, <2>1
<1>7. rcounts # <<>> => Tail(InHand) \in Seq(Nat)
  <2> SUFFICES ASSUME rcounts # <<>> PROVE Tail(InHand) \in Seq(Nat)
    OBVIOUS
  <2>1. InHand # <<>>
    BY <1>0, <1>2, ConcatIs DEF InHand
  <2> QED BY <1>0, <2>1, HeadTailProperties
<1> QED BY <1>4, <1>5, <1>6, <1>7

\* A step of the receiver moves what is under way from the line to the buffer.
LEMMA RxQuietKeeps ==
  ASSUME TypeInv, LinkInv, TypeInv', RxQuiet
  PROVE  Queue' = Queue /\ LinkInv' /\ last' = last
<1>0. /\ RxStep(FALSE, FALSE, FALSE) /\ last' = last
      /\ RBackground(FALSE, FALSE, FALSE) /\ reading' = reading /\ words' = words
      /\ Reads(reading, words) /\ IsSeq(Queue) /\ AllIn(Queue, Frames)
  <2>1. IsSeq(Queue)
    BY QueueIs DEF LinkInv, LineInv
  <2> QED BY <2>1 DEF RxQuiet, RxStep, LinkInv, Room
<1>1. rcounts' = InHand
  BY <1>0, CountsNext
<1>2. ROutAdd' = ROutAdd
  <2>1. ROutAdd \in 0 .. Depth - 1
    BY Kinds
  <2>2. (ROutAdd + 0) % Depth = ROutAdd
    BY <2>1, FifoAssumption
  <2> QED BY <1>0, <2>2 DEF RBackground
<1>3. FirstUnread' = FirstUnread /\ FirstUnread \in Nat
  BY <1>0, <1>2, FirstUnreadIs DEF FirstUnread
<1>4. Same(FirstUnread' + WordsIn(rcounts'), FirstUnread + WordsIn(InHand))
  BY <1>1, <1>3 DEF Same
<1>5. /\ Queue = Cat(Cat(Arrived(rbuffram', ROutAdd, reading, words, InHand), LineNext), Unsent)
      /\ Queue' = Cat(Cat(Arrived(rbuffram', ROutAdd', reading', words', rcounts'), LineNext), Unsent)
      /\ Len(Queue') <= Len(Queue) /\ AllIn(Queue', Frames) => LinkInv'
  BY <1>0, <1>3, <1>4, RxOutcome
<1>6. Queue' = Queue
  BY <1>0, <1>1, <1>2, <1>5
<1>7. Len(Queue) <= Len(Queue)
  BY <1>0 DEF IsSeq
<1> QED BY <1>0, <1>5, <1>6, <1>7

\* The reader that pops a count begins the oldest frame.
LEMMA PopCountKeeps ==
  ASSUME TypeInv, LinkInv, TypeInv', PopCount
  PROVE  Queue' = Queue /\ LinkInv' /\ last' = last
<1> DEFINE n == Head(rcounts)
           q == Tail(InHand)
<1>0. /\ RxStep(FALSE, TRUE, FALSE) /\ last' = last
      /\ RBackground(FALSE, TRUE, FALSE) /\ reading = 0 /\ reading' = n /\ words' = words
      /\ rcounts # <<>> /\ Reads(reading, words) /\ IsSeq(Queue) /\ AllIn(Queue, Frames)
  <2>1. IsSeq(Queue)
    BY QueueIs DEF LinkInv, LineInv
  <2> QED BY <2>1 DEF PopCount, RxStep, LinkInv, Room
<1>1. rcounts' = q /\ InHand = Cat(One(n), q) /\ q \in Seq(Nat)
  BY <1>0, CountsNext
<1>2. n \in Nat \ {0} /\ words = <<>>
  <2>1. rcounts \in Seq(Nat)
    BY Kinds
  <2>2. rcounts[1] # 0 /\ n = rcounts[1] /\ n \in Nat
    <3>1. 1 \in 1 .. Len(rcounts)
      BY <1>0, <2>1
    <3>2. n = rcounts[1] /\ n \in Nat
      BY <1>0, <2>1
    <3> QED BY <3>1, <3>2, FramesUnderWay
  <2>3. words = <<>>
    BY <1>0 DEF Reads
  <2> QED BY <2>2, <2>3
<1>3. ROutAdd' = ROutAdd /\ ROutAdd \in Nat
  <2>1. ROutAdd \in 0 .. Depth - 1
    BY Kinds
  <2>2. (ROutAdd + 0) % Depth = ROutAdd
    BY <2>1, FifoAssumption
  <2> QED BY <1>0, <2>1, <2>2 DEF RBackground
<1> HIDE DEF n, q
<1>4. /\ Arrived(rbuffram', ROutAdd, 0, <<>>, Cat(One(n), q)) = Arrived(rbuffram', ROutAdd, n, <<>>, q)
      /\ Left(0, <<>>) + WordsIn(Cat(One(n), q)) = Left(n, <<>>) + WordsIn(q)
      /\ Reads(n, <<>>)
  BY <1>1, <1>2, <1>3, PopCountReads
<1>5. FirstUnread = ROutAdd + Left(0, <<>>) /\ FirstUnread' = ROutAdd + Left(n, <<>>)
  BY <1>0, <1>2, <1>3 DEF FirstUnread, Left
<1>6. Left(n, <<>>) \in Nat /\ Left(0, <<>>) \in Nat /\ WordsIn(q) \in Nat /\ WordsIn(InHand) \in Nat
  <2>1. Left(0, <<>>) = 0
    BY DEF Left
  <2> QED BY <1>1, <1>4, <2>1, LeftIs, OffsetsAre, InHandIs
<1>7. FirstUnread' \in Nat /\ FirstUnread' + WordsIn(rcounts') = FirstUnread + WordsIn(InHand)
  <2>1. FirstUnread' \in Nat
    BY <1>3, <1>5, <1>6
  <2>2. ASSUME NEW a \in Nat, NEW b \in Nat, NEW c \in Nat, NEW d \in Nat, NEW e \in Nat, b + c = d + e
        PROVE  a + d + e = a + b + c
    BY <2>2
  <2>3. WordsIn(rcounts') = WordsIn(q) /\ WordsIn(InHand) = WordsIn(Cat(One(n), q))
    BY <1>1
  <2>4. Left(0, <<>>) + WordsIn(InHand) = Left(n, <<>>) + WordsIn(q)
    BY <1>4, <2>3
  <2>5. ROutAdd + Left(n, <<>>) + WordsIn(q) = ROutAdd + Left(0, <<>>) + WordsIn(InHand)
    BY <1>3, <1>6, <2>2, <2>4
  <2> QED BY <1>5, <2>1, <2>3, <2>5
<1>8. Same(FirstUnread' + WordsIn(rcounts'), FirstUnread + WordsIn(InHand))
  BY <1>7 DEF Same
<1>9. /\ Queue = Cat(Cat(Arrived(rbuffram', ROutAdd, reading, words, InHand), LineNext), Unsent)
      /\ Queue' = Cat(Cat(Arrived(rbuffram', ROutAdd', reading', words', rcounts'), LineNext), Unsent)
      /\ Len(Queue') <= Len(Queue) /\ AllIn(Queue', Frames) => LinkInv'
  <2>1. Reads(reading', words')
    BY <1>0, <1>2, <1>4
  <2> QED BY <1>0, <1>7, <1>8, <2>1, RxOutcome
<1>10. Queue' = Queue
  BY <1>0, <1>1, <1>2, <1>3, <1>4, <1>9
<1>11. Len(Queue) <= Len(Queue)
  BY <1>0 DEF IsSeq
<1> QED BY <1>0, <1>9, <1>10, <1>11

LEMMA AllInTail ==
  ASSUME NEW x, NEW s, NEW S, IsSeq(s), AllIn(Cat(One(x), s), S)
  PROVE  AllIn(s, S) /\ Len(s) <= Len(Cat(One(x), s)) /\ Len(s) \in Nat
<1>1. IsSeq(One(x)) /\ Len(One(x)) = 1 /\ Len(s) \in Nat
  BY EmptyIs DEF IsSeq
<1>2. AllIn(s, S)
  BY <1>1, AllInCat
<1>3. Len(Cat(One(x), s)) = 1 + Len(s)
  <2>1. Len(Cat(One(x), s)) = Len(One(x)) + Len(s)
    BY <1>1, ConcatIs, Zenon
  <2> QED BY <1>1, <2>1
<1> QED BY <1>1, <1>2, <1>3

\* A word of the buffer that has not been read is the same after the edge.
LEMMA WordKept ==
  ASSUME TypeInv, LinkInv, reading # 0, NEW popdata, NEW poprc,
         RBackground(popdata, poprc, FALSE)
  PROVE  rbuffram'[ROutAdd] = rbuffram[ROutAdd]
<1>1. Agree(rbuffram, ROutAdd, rbuffram', ROutAdd, Left(reading, words) + WordsIn(rcounts))
  BY RxWrites
<1>2. Left(reading, words) \in Nat /\ Left(reading, words) # 0 /\ WordsIn(rcounts) \in Nat
  BY LeftIs, RxRoom DEF LinkInv
<1>3. 0 \in 0 .. (Left(reading, words) + WordsIn(rcounts)) - 1
  BY <1>2
<1>4. (ROutAdd + 0) % Depth = ROutAdd
  <2>1. ROutAdd \in 0 .. Depth - 1
    BY Kinds
  <2> QED BY <2>1, FifoAssumption
<1> QED BY <1>1, <1>3, <1>4 DEF Agree

\* The last word of a frame delivers it.
LEMMA PopWordStep ==
  ASSUME TypeInv, LinkInv, TypeInv', PopWord
  PROVE  LinkInv' /\ ((Queue' = Queue /\ last' = last) \/ Channel!Deliver)
<1> DEFINE now == Cat(words, One(rbuffram'[ROutAdd]))
           next == (ROutAdd + 1) % Depth
<1>0. /\ RxStep(TRUE, FALSE, FALSE)
      /\ RBackground(TRUE, FALSE, FALSE) /\ reading # 0
      /\ Reads(reading, words) /\ IsSeq(words) /\ IsSeq(Queue) /\ AllIn(Queue, Frames)
      /\ InHand \in Seq(Nat) /\ IsSeq(Queue') /\ reading \in Nat
  <2>1. IsSeq(Queue)
    BY QueueIs DEF LinkInv, LineInv
  <2>2. LineKept
    BY RxEdgeKeeps DEF PopWord
  <2>3. wire' = <<>> \/ wire' = One(wire'[1])
    BY <2>2 DEF LineKept
  <2>4. (TypeInv /\ (wire = <<>> \/ wire = One(wire[1])) =>
          /\ Queue = Cat(Cat(Arrived(rbuffram, ROutAdd, reading, words, rcounts), Whole(All)), Unsent)
          /\ Unsent = FramesAt(buffram, NextByte + Current, Waiting)
          /\ IsSeq(Arrived(rbuffram, ROutAdd, reading, words, rcounts))
          /\ IsSeq(Whole(All)) /\ IsSeq(Unsent) /\ IsSeq(Queue)
          /\ Len(Unsent) = Len(Waiting)
          /\ Len(Queue) = (IF reading = 0 THEN 0 ELSE 1) + Len(rcounts)
                            + (IF All = <<>> THEN 0 ELSE 1) + Len(Waiting))'
    BY QueueNow, PTL
  <2>5. IsSeq(Queue')
    BY <2>3, <2>4
  <2> QED BY <2>1, <2>5, InHandIs DEF PopWord, RxStep, LinkInv, Room, Reads
<1>1. rcounts' = InHand
  BY <1>0, CountsNext
<1>2. ROutAdd \in 0 .. Depth - 1 /\ ROutAdd' = next /\ next \in Nat
  <2>1. ROutAdd \in 0 .. Depth - 1
    BY Kinds
  <2>2. ROutAdd' = next
    BY <1>0 DEF RBackground
  <2>3. ROutAdd' \in Nat
    BY DEF TypeInv, LinkTypeOK, RxTypeOK
  <2> QED BY <2>1, <2>2, <2>3
<1>3. now = Append(words, rbuffram[ROutAdd])
  <2>1. rbuffram'[ROutAdd] = rbuffram[ROutAdd]
    BY <1>0, WordKept
  <2> QED BY <1>0, <2>1, AppendIs
<1>4. IF Len(now) * W >= reading
      THEN last' = ReadAll(reading, now) /\ words' = <<>> /\ reading' = 0
      ELSE words' = now /\ reading' = reading /\ last' = last
  BY <1>3 DEF PopWord, ReadAll
<1>5. PopKeeps(rbuffram', ROutAdd, next, reading, words, now, InHand)
  BY <1>0, <1>2, PopWordKeeps
<1>6. Len(now) * W \in Nat
  <2>1. Len(now) \in Nat
    BY <1>0, AppendIs DEF IsSeq
  <2> QED BY <2>1, FifoAssumption
<1>7. /\ FirstUnread = ROutAdd + Left(reading, words) /\ FirstUnread' = ROutAdd' + Left(reading', words')
      /\ WordsIn(InHand) \in Nat /\ FirstUnread \in Nat
  BY <1>0, FirstUnreadIs, OffsetsAre DEF FirstUnread, Left
<1> HIDE DEF now, next
<1>8. Reads(reading', words') /\ Left(reading', words') \in Nat
      /\ Same(FirstUnread', FirstUnread)
  <2>1. CASE Len(now) * W < reading
    <3>1. Reads(reading, now) /\ Same(next + Left(reading, now), ROutAdd + Left(reading, words))
      BY <1>5, <2>1 DEF PopKeeps
    <3>2. ~(Len(now) * W >= reading)
      BY <1>0, <1>6, <2>1
    <3>3. words' = now /\ reading' = reading
      BY <1>4, <3>2
    <3> QED BY <1>2, <1>7, <3>1, <3>3, LeftIs
  <2>2. CASE ~(Len(now) * W < reading)
    <3>1. Same(next + Left(0, <<>>), ROutAdd + Left(reading, words))
      BY <1>5, <2>2 DEF PopKeeps
    <3>2. Len(now) * W >= reading
      BY <1>0, <1>6, <2>2
    <3>3. words' = <<>> /\ reading' = 0
      BY <1>4, <3>2
    <3>4. Reads(0, <<>>)
      BY EmptyIs DEF Reads
    <3> QED BY <1>2, <1>7, <3>1, <3>3, <3>4, LeftIs
  <2> QED BY <2>1, <2>2
<1>9. FirstUnread' \in Nat
  BY <1>2, <1>7, <1>8
<1>10. Same(FirstUnread' + WordsIn(rcounts'), FirstUnread + WordsIn(InHand))
  BY <1>1, <1>7, <1>8, <1>9, SameAdd
<1>11. /\ Queue = Cat(Cat(Arrived(rbuffram', ROutAdd, reading, words, InHand), LineNext), Unsent)
       /\ Queue' = Cat(Cat(Arrived(rbuffram', ROutAdd', reading', words', rcounts'), LineNext), Unsent)
       /\ IsSeq(LineNext) /\ IsSeq(Unsent)
       /\ Len(Queue') <= Len(Queue) /\ AllIn(Queue', Frames) => LinkInv'
  BY <1>0, <1>8, <1>9, <1>10, RxOutcome
<1>12. CASE Len(now) * W < reading
  <2>1. ~(Len(now) * W >= reading)
    BY <1>0, <1>6, <1>12
  <2>2. words' = now /\ reading' = reading /\ last' = last
    BY <1>4, <2>1
  <2>3. Arrived(rbuffram', ROutAdd, reading, words, InHand) = Arrived(rbuffram', next, reading, now, InHand)
    BY <1>5, <1>12 DEF PopKeeps
  <2>4. Queue' = Queue
    BY <1>1, <1>2, <1>11, <2>2, <2>3
  <2>5. Len(Queue) <= Len(Queue)
    BY <1>0 DEF IsSeq
  <2> QED BY <1>0, <1>11, <2>2, <2>4, <2>5
<1>13. CASE ~(Len(now) * W < reading)
  <2> DEFINE g == ReadAll(reading, now)
             A == Arrived(rbuffram', next, 0, <<>>, InHand)
  <2>1. Len(now) * W >= reading
    BY <1>0, <1>6, <1>13
  <2>2. words' = <<>> /\ reading' = 0 /\ last' = g
    BY <1>4, <2>1
  <2>3. Arrived(rbuffram', ROutAdd, reading, words, InHand) = Cat(One(g), A)
    BY <1>5, <1>13 DEF PopKeeps
  <2>4. Queue' = Cat(Cat(A, LineNext), Unsent)
    BY <1>1, <1>2, <1>11, <2>2
  <2>5. IsSeq(A) /\ IsSeq(One(g))
    BY <1>0, ArrivedIs, EmptyIs
  <2> HIDE DEF g, A
  <2>6. Queue = Cat(One(g), Queue')
    <3>1. IsSeq(Cat(A, LineNext))
      BY <1>11, <2>5, ConcatIs
    <3>2. Cat(Cat(One(g), A), LineNext) = Cat(One(g), Cat(A, LineNext))
      BY <1>11, <2>5, ConcatAssoc
    <3>3. Cat(Cat(One(g), Cat(A, LineNext)), Unsent) = Cat(One(g), Cat(Cat(A, LineNext), Unsent))
      BY <1>11, <2>5, <3>1, ConcatAssoc
    <3> QED BY <1>11, <2>3, <2>4, <3>2, <3>3
  <2>7. Head(Queue) = g /\ Tail(Queue) = Queue' /\ Queue # <<>>
    BY <1>0, <2>6, CatHead
  <2>8. Channel!Deliver
    BY <2>2, <2>7 DEF Channel!Deliver, PopWord
  <2>9. AllIn(Queue', Frames) /\ Len(Queue') <= Len(Queue)
    BY <1>0, <2>6, AllInTail
  <2> QED BY <1>11, <2>8, <2>9
<1> QED BY <1>12, <1>13

\* The ends of a sequence that was put together from two.
LEMMA EndsAre ==
  ASSUME NEW s, NEW t, IsSeq(s), IsSeq(t)
  PROVE  SubSeq(Cat(s, t), 1, Len(s)) = s /\ SubSeq(Cat(s, t), Len(s) + 1, Len(s) + Len(t)) = t
<1> DEFINE c == Cat(s, t)
           S == {c[i] : i \in 1 .. Len(c)}
<1>1. /\ IsSeq(c) /\ Len(c) = Len(s) + Len(t) /\ Len(s) \in Nat /\ Len(t) \in Nat
      /\ c = [i \in 1 .. Len(s) + Len(t) |-> IF i <= Len(s) THEN s[i] ELSE t[i - Len(s)]]
  BY ConcatIs DEF IsSeq
<1>2. c \in Seq(S)
  BY <1>1 DEF IsSeq
<1> HIDE DEF c, S
<1>3. \A i \in 1 .. Len(s) : c[i] = s[i]
  BY <1>1
<1>4. \A i \in 1 .. Len(t) : c[Len(s) + i] = t[i]
  <2> SUFFICES ASSUME NEW i \in 1 .. Len(t) PROVE c[Len(s) + i] = t[i]
    OBVIOUS
  <2>1. Len(s) + i \in 1 .. Len(s) + Len(t) /\ ~(Len(s) + i <= Len(s)) /\ Len(s) + i - Len(s) = i
    BY <1>1
  <2> QED BY <1>1, <2>1
<1>5. \A m \in Nat, n \in Nat : SubSeq(c, m, n) = [i \in 1 .. (1 + n - m) |-> c[i + m - 1]]
  BY <1>2
<1>6. SubSeq(c, 1, Len(s)) = s
  <2>1. SubSeq(c, 1, Len(s)) = [i \in 1 .. (1 + Len(s) - 1) |-> c[i + 1 - 1]]
    BY <1>1, <1>5
  <2>2. 1 + Len(s) - 1 = Len(s) /\ \A i \in 1 .. Len(s) : i + 1 - 1 = i
    BY <1>1
  <2>3. SubSeq(c, 1, Len(s)) = [i \in 1 .. Len(s) |-> s[i]]
    BY <1>3, <2>1, <2>2
  <2> QED BY <2>3 DEF IsSeq
<1>7. SubSeq(c, Len(s) + 1, Len(s) + Len(t)) = t
  <2> DEFINE a == Len(s) + 1
             b == Len(s) + Len(t)
  <2>1. a \in Nat /\ b \in Nat /\ 1 + b - a = Len(t)
    BY <1>1
  <2>2. \A i \in 1 .. Len(t) : i + a - 1 = Len(s) + i
    BY <1>1
  <2> HIDE DEF a, b
  <2>3. SubSeq(c, a, b) = [i \in 1 .. (1 + b - a) |-> c[i + a - 1]]
    BY <1>5, <2>1
  <2>4. SubSeq(c, a, b) = [i \in 1 .. Len(t) |-> c[i + a - 1]]
    BY <2>1, <2>3
  <2>5. SubSeq(c, a, b) = [i \in 1 .. Len(t) |-> t[i]]
    BY <1>4, <2>2, <2>4
  <2> QED BY <2>5 DEF IsSeq, a, b
<1> QED BY <1>6, <1>7 DEF c

\* What is left at an end is something a clear may leave.
LEMMA Discards ==
  ASSUME NEW s, NEW t, IsSeq(s), IsSeq(t), Queue = Cat(s, t), Queue' \in {s, t},
         AllIn(Queue, Frames)
  PROVE  /\ Queue' = s => \E n \in 0 .. Len(Queue) : Queue' = SubSeq(Queue, 1, n)
         /\ Queue' = t =>
              \E n \in 0 .. Len(Queue) : Queue' = SubSeq(Queue, Len(Queue) - n + 1, Len(Queue))
         /\ Len(Queue') <= Len(Queue) /\ AllIn(Queue', Frames)
<1>1. Len(Queue) = Len(s) + Len(t) /\ Len(s) \in Nat /\ Len(t) \in Nat
  BY ConcatIs DEF IsSeq
<1>2. AllIn(s, Frames) /\ AllIn(t, Frames)
  BY AllInCat
<1>3. SubSeq(Queue, 1, Len(s)) = s /\ SubSeq(Queue, Len(s) + 1, Len(s) + Len(t)) = t
  BY EndsAre
<1>4. Len(s) \in 0 .. Len(Queue) /\ Len(t) \in 0 .. Len(Queue) /\ Len(Queue) - Len(t) + 1 = Len(s) + 1
  BY <1>1
<1>5. Len(s) <= Len(Queue) /\ Len(t) <= Len(Queue)
  BY <1>1
<1>6. SubSeq(Queue, Len(Queue) - Len(t) + 1, Len(Queue)) = t
  BY <1>1, <1>3, <1>4
<1> QED BY <1>2, <1>3, <1>4, <1>5, <1>6

LEMMA NothingArrived ==
  ASSUME NEW mem, NEW out
  PROVE  Arrived(mem, out, 0, <<>>, <<>>) = <<>> /\ WordsIn(<<>>) = 0
<1>1. <<>> \in Seq(Nat) /\ Len(<<>>) = 0
  OBVIOUS
<1>2. ASSUME NEW q \in Seq(Nat), Len(q) = 0
      PROVE  Arrived(mem, out, 0, <<>>, q) = <<>> /\ WordsIn(q) = 0
  <2> DEFINE s == Arrived(mem, out, 0, <<>>, q)
             r == 0
             w == <<>>
  <2>1. IsSeq(Arrived(mem, out, r, w, q)) /\ Len(Arrived(mem, out, r, w, q)) = (IF r = 0 THEN 0 ELSE 1) + Len(q)
    <3> HIDE DEF r, w
    <3> QED BY ArrivedIs
  <2>2. IsSeq(s) /\ Len(s) = (IF r = 0 THEN 0 ELSE 1) + Len(q)
    BY <2>1
  <2> HIDE DEF s
  <2>3. s = <<>>
    BY <1>2, <2>2, LenIs
  <2>4. WordsIn(q) = 0
    BY <1>2, OffsetsAre DEF WordsIn
  <2> QED BY <2>3, <2>4 DEF s
<1> QED BY <1>1, <1>2

\* QueueIs of the next state.
LEMMA QueueThen ==
  ASSUME TypeInv', wire' = <<>> \/ wire' = One(wire'[1])
  PROVE  /\ Queue' = Cat(Cat(Arrived(rbuffram', ROutAdd', reading', words', rcounts'), Whole(All')), Unsent')
         /\ Unsent' = FramesAt(buffram', NextByte' + Current', Waiting')
         /\ IsSeq(Arrived(rbuffram', ROutAdd', reading', words', rcounts'))
         /\ IsSeq(Whole(All')) /\ IsSeq(Unsent') /\ IsSeq(Queue')
         /\ Len(Unsent') = Len(Waiting')
<1>1. (TypeInv /\ (wire = <<>> \/ wire = One(wire[1])) =>
        /\ Queue = Cat(Cat(Arrived(rbuffram, ROutAdd, reading, words, rcounts), Whole(All)), Unsent)
        /\ Unsent = FramesAt(buffram, NextByte + Current, Waiting)
        /\ IsSeq(Arrived(rbuffram, ROutAdd, reading, words, rcounts))
        /\ IsSeq(Whole(All)) /\ IsSeq(Unsent) /\ IsSeq(Queue)
        /\ Len(Unsent) = Len(Waiting)
        /\ Len(Queue) = (IF reading = 0 THEN 0 ELSE 1) + Len(rcounts)
                          + (IF All = <<>> THEN 0 ELSE 1) + Len(Waiting))'
  BY QueueNow, PTL
<1> QED BY <1>1

\* What is under way does not grow except by a frame that was chosen.
LEMMA RoomKept ==
  ASSUME frame' = frame \/ frame' = <<>>, LinkInv, IsSeq(Queue), IsSeq(Queue'),
         Len(Queue') <= Len(Queue), AllIn(Queue', Frames)
  PROVE  Room'
<1> DEFINE x == IF frame = <<>> THEN 0 ELSE 1
           y == IF frame' = <<>> THEN 0 ELSE 1
<1>1. Len(Queue) + x <= Unread /\ Unread \in Nat /\ Len(Queue) \in Nat /\ Len(Queue') \in Nat
  BY LinkAssumption DEF LinkInv, Room, IsSeq
<1>2. x \in Nat /\ y \in Nat /\ y <= x
  OBVIOUS
<1> HIDE DEF x, y
<1>3. Len(Queue') + y <= Unread
  BY <1>1, <1>2
<1> QED BY <1>3 DEF Room, y

\* A clear of the receiver that leaves no count throws away what has arrived.
LEMMA ClearRxStep ==
  ASSUME TypeInv, LinkInv, TypeInv', ClearRx, ~spoiled'
  PROVE  LinkInv' /\ Channel!ClearReceiver
<1>0. /\ RBackground(FALSE, FALSE, TRUE) /\ UNCHANGED <<txVars, todo, frame>> /\ last' = last
      /\ reading' = 0 /\ words' = <<>> /\ RInAdd' = 0 /\ ROutAdd' = 0 /\ rcounts' = <<>>
      /\ LineInv /\ (wire = <<>> \/ wire = One(wire[1])) /\ AllIn(Queue, Frames)
  BY DEF ClearRx, RxStep, RBackground, LinkInv, LineInv, Room
<1>1. /\ buffram' = buffram /\ ToCome' = ToCome /\ Unsent' = Unsent /\ Driver' = Driver
      /\ TxFlags' = TxFlags /\ Sender' = Sender
      /\ Go' = Go /\ FDGo' = FDGo /\ SCNZ' = SCNZ
  BY <1>0, TxKept
<1>2. /\ Queue = Cat(Cat(Arrived(rbuffram, ROutAdd, reading, words, rcounts), Whole(All)), Unsent)
      /\ IsSeq(Arrived(rbuffram, ROutAdd, reading, words, rcounts))
      /\ IsSeq(Whole(All)) /\ IsSeq(Unsent) /\ IsSeq(Queue)
  BY <1>0, QueueIs
<1>3. DOMAIN buffram' = 0 .. Depth - 1 /\ DOMAIN rbuffram' = 0 .. Depth - 1
  BY <1>0, <1>1 DEF LinkInv, RBackground
<1>4. Reads(reading', words')
  BY <1>0, EmptyIs DEF Reads
<1>5. \A mem, out : Arrived(mem, out, 0, <<>>, <<>>) = <<>> /\ WordsIn(<<>>) = 0
  BY NothingArrived
<1>6. Arrived(rbuffram', ROutAdd', reading', words', rcounts') = <<>> /\ WordsIn(rcounts') = 0
  BY <1>0, <1>5
<1>7. \A s : IsSeq(s) => Cat(<<>>, s) = s
  BY ConcatIs, EmptyIs
<1>8. wire = <<>> /\ ~RGo /\ ~Go /\ ~SCNZ /\ RxStep(FALSE, FALSE, TRUE)
      /\ clears' = [clears EXCEPT !.rx = @ + 1] /\ spoiled' = (spoiled \/ RPushRC')
  BY DEF ClearRx
<1>9. /\ RFDGo' = FALSE /\ RBytePointer' = 0 /\ wire' = <<>>
      /\ RPushRC' = FALSE /\ RPushData' = FALSE
  <2>1. (FrameTimeout(TRUE) \/ Listen(wire # <<>>, TRUE)) /\ wire' = wire
    BY <1>8 DEF RxStep
  <2>2. ~FrameTimeout(TRUE)
    <3> SUFFICES ASSUME FrameTimeout(TRUE) PROVE FALSE
      OBVIOUS
    <3>1. ~RPushRC
      BY <1>0 DEF FrameTimeout, LineInv
    <3>2. RPushRC'
      BY <3>1 DEF FrameTimeout
    <3> QED BY <1>8, <3>2
  <2>3. Listen(wire # <<>>, TRUE)
    BY <2>1, <2>2
  <2> QED BY <1>8, <2>1, <2>3 DEF Listen
<1>10. Received' = <<>> /\ ToCome' = <<>>
  BY <1>1, <1>8, <1>9 DEF Received, ToCome
<1>11. Whole(All') = <<>>
  <2>1. Cat(Cat(<<>>, <<>>), <<>>) = <<>>
    BY <1>7, EmptyIs
  <2> QED BY <1>9, <1>10, <2>1 DEF Whole, All
<1>12. Queue' = Unsent /\ IsSeq(Queue')
  <2>1. Queue' = Cat(Cat(<<>>, <<>>), Unsent)
    BY <1>1, <1>6, <1>9, <1>11, QueueThen
  <2> QED BY <1>2, <1>7, <2>1, EmptyIs
<1>13. /\ \E n \in 0 .. Len(Queue) : Queue' = SubSeq(Queue, Len(Queue) - n + 1, Len(Queue))
       /\ Len(Queue') <= Len(Queue) /\ AllIn(Queue', Frames)
  <2> DEFINE s == Cat(Arrived(rbuffram, ROutAdd, reading, words, rcounts), Whole(All))
  <2>1. IsSeq(s) /\ Queue = Cat(s, Unsent)
    BY <1>2, ConcatIs
  <2> HIDE DEF s
  <2> QED BY <1>0, <1>2, <1>12, <2>1, Discards
<1>14. Channel!ClearReceiver
  BY <1>0, <1>8, <1>13 DEF Channel!ClearReceiver
<1>15. Room'
  BY <1>0, <1>2, <1>12, <1>13, RoomKept
<1>16. LineInv'
  BY <1>1, <1>8, <1>9 DEF LineInv
<1>17. RxFlags'
  <2>1. RxNext' = 0 /\ FirstUnread' = 0 /\ LineWords' = 0
    BY <1>0, <1>9 DEF RxNext, FirstUnread, LineWords
  <2>2. Same(RxNext', FirstUnread' + WordsIn(rcounts') + LineWords')
    BY <1>6, <2>1 DEF Same
  <2> QED BY <1>9, <2>2 DEF RxFlags
<1>18. TxFlags' /\ Sender' /\ Driver'
  BY <1>1 DEF LinkInv
<1> QED BY <1>3, <1>4, <1>14, <1>15, <1>16, <1>17, <1>18 DEF LinkInv

-----------------------------------------------------------------------------
(***************************************************************************)
(* An edge of the transmitter.                                             *)
(***************************************************************************)

\* An edge of the transmitter outside a clear, with at most one count pushed.
Edge(push, cnt, tick) ==
  /\ TypeInv /\ LinkInv /\ TypeInv'
  /\ TxStep(push, cnt, FALSE, tick) /\ cnt \in Seq(Nat)
  /\ cnt # <<>> => /\ Len(cnt) = 1 /\ Len(counts) < Slots /\ (mode.auto => ~Busy)
                   /\ (PopSC => counts # <<>>)

\* The bytes that are still to come, in the buffer as it was.
ToComeNext == IF SCNZ' THEN BytesAt(buffram, NextByte', BytePointer', SendCount') ELSE <<>>

\* No frame begins in the edge, or the first that waits does.
Kept(cnt) ==
  /\ Waiting' = Cat(Waiting, cnt)
  /\ Same(NextByte' + Current', NextByte + Current) /\ Current' <= Current
  /\ Cat(wire', ToComeNext) = Cat(wire, ToCome)

Begun(cnt) ==
  /\ All = <<>> /\ Received = <<>> /\ Current = 0 /\ SendCount # 0
  /\ Waiting = Cat(One(SendCount), Queued) /\ Waiting' = Cat(Queued, cnt)
  /\ NextByte' + Current' = NextByte + WordsFor(SendCount) /\ Current' <= WordsFor(SendCount)
  /\ Cat(wire', ToComeNext) = BytesAt(buffram, NextByte, 0, SendCount)

\* The parts of an edge, taken apart.
LEMMA EdgeIs ==
  ASSUME NEW push, NEW cnt, NEW tick, Edge(push, cnt, tick)
  PROVE  /\ TxFlags /\ LineInv /\ Driver /\ Background(push, cnt, FALSE)
         /\ ReadData \in BOOLEAN /\ PopSC \in BOOLEAN /\ Go \in BOOLEAN /\ FDGo \in BOOLEAN
         /\ SCNZ \in BOOLEAN /\ counts \in Seq(Nat) /\ SendCount \in Nat /\ BytePointer \in 0 .. W - 1
         /\ OutAdd \in 0 .. Depth - 1 /\ NextByte \in Nat /\ Current \in Nat /\ WordsFor(SendCount) \in Nat
         /\ Shifting(FALSE, tick) \/ StartByte(FALSE) \/ NextFrame(FALSE)
         /\ wire' = IF ~Go /\ Go' THEN One(SReg') ELSE wire
         /\ tick => ~ReadData /\ ~PopSC /\ (Go => wire = <<>>) /\ (FDGo => ~RFDGo /\ ~RPushRC)
         /\ UNCHANGED <<rxVars, reading, words, last>>
<1>1. TxFlags /\ LineInv /\ Driver
  BY DEF Edge, LinkInv
<1>2. Background(push, cnt, FALSE) /\ (Shifting(FALSE, tick) \/ StartByte(FALSE) \/ NextFrame(FALSE))
  BY DEF Edge, TxStep, TxEdge
<1>3. /\ ReadData \in BOOLEAN /\ PopSC \in BOOLEAN /\ Go \in BOOLEAN /\ FDGo \in BOOLEAN
      /\ SCNZ \in BOOLEAN
  BY DEF Edge, TypeInv, LinkTypeOK, TxTypeOK
<1>4. /\ counts \in Seq(Nat) /\ SendCount \in Nat /\ BytePointer \in 0 .. W - 1
      /\ OutAdd \in 0 .. Depth - 1 /\ NextByte \in Nat
  BY Kinds DEF Edge
<1>5. Current \in Nat /\ WordsFor(SendCount) \in Nat
  BY <1>4, TxRoom, WordsForNat DEF Edge
<1>6. wire' = IF ~Go /\ Go' THEN One(SReg') ELSE wire
  BY DEF Edge, TxStep, One
<1>7. /\ tick => ~ReadData /\ ~PopSC /\ (Go => wire = <<>>) /\ (FDGo => ~RFDGo /\ ~RPushRC)
      /\ UNCHANGED <<rxVars, reading, words, last>>
  BY DEF Edge, TxStep
<1> QED BY <1>1, <1>2, <1>3, <1>4, <1>5, <1>6, <1>7

\* The FIFO of counts never loses one.
LEMMA CountsSent ==
  ASSUME NEW push, NEW cnt, NEW tick, Edge(push, cnt, tick)
  PROVE  /\ counts' = Cat(Queued, cnt) /\ IsSeq(Queued) /\ IsSeq(Loaded) /\ IsSeq(cnt)
         /\ Cat(Loaded, Cat(Queued, cnt)) = Cat(Waiting, cnt)
         /\ Queued \in Seq(Nat) /\ Loaded \in Seq(Nat) /\ Waiting \in Seq(Nat)
<1>1. /\ counts' = CountFifo(counts, cnt, PopSC) /\ (cnt # <<>> => (PopSC => counts # <<>>))
      /\ (cnt # <<>> => Len(counts) < Slots) /\ counts \in Seq(Nat)
  BY EdgeIs DEF Background, Edge
<1>2. Len(counts) \in Nat
  BY <1>1
<1>3. counts' = Cat(Queued, cnt)
  <2>1. CASE PopSC /\ counts # <<>>
    BY <1>1, <2>1 DEF CountFifo, Queued, Cat
  <2>3. CASE PopSC /\ counts = <<>>
    <3>1. cnt = <<>> /\ Queued = <<>> /\ counts' = <<>>
      BY <1>1, <2>3 DEF CountFifo, Queued
    <3>2. Cat(<<>>, <<>>) = <<>>
      BY ConcatIs, EmptyIs
    <3> QED BY <3>1, <3>2
  <2>2. CASE ~PopSC
    <3>1. ~(cnt # <<>> /\ Len(counts) = Slots)
      BY <1>1, <1>2, FifoAssumption
    <3> QED BY <1>1, <2>2, <3>1 DEF CountFifo, Queued, Cat
  <2> QED BY <2>1, <2>2, <2>3
<1>4. Queued \in Seq(Nat) /\ Loaded \in Seq(Nat) /\ Waiting \in Seq(Nat) /\ cnt \in Seq(Nat)
  BY Kinds DEF Edge
<1>5. IsSeq(Queued) /\ IsSeq(Loaded) /\ IsSeq(cnt)
  BY <1>4, SeqIs
<1> QED BY <1>3, <1>4, <1>5, ConcatAssoc DEF Waiting

\* The address moves on by the edge after the one that says so.
LEMMA Address ==
  ASSUME NEW push, NEW cnt, NEW tick, Edge(push, cnt, tick)
  PROVE  /\ OutAdd' \in Nat /\ Same(OutAdd', NextByte)
         /\ ~ReadData => OutAdd' = OutAdd /\ NextByte = OutAdd
         /\ NextByte' = OutAdd' + (IF ReadData' THEN 1 ELSE 0)
         /\ ~ReadData' => NextByte' = OutAdd'
<1>1. OutAdd' = NextByte % Depth /\ NextByte \in Nat /\ OutAdd \in 0 .. Depth - 1
  BY EdgeIs DEF Background, NextByte
<1>2. OutAdd' \in 0 .. Depth - 1 /\ Same(OutAdd', NextByte)
  BY <1>1, SameMod
<1>3. ASSUME NEW x \in Nat PROVE x + 0 = x
  OBVIOUS
<1>4. ~ReadData => NextByte = OutAdd
  <2>1. ~ReadData => NextByte = OutAdd + 0
    BY DEF NextByte
  <2>2. OutAdd + 0 = OutAdd
    BY <1>1
  <2> QED BY <2>1, <2>2
<1>5. OutAdd % Depth = OutAdd
  BY <1>1, FifoAssumption
<1>6. NextByte' = OutAdd' + (IF ReadData' THEN 1 ELSE 0)
  BY DEF NextByte
<1>7. ~ReadData' => NextByte' = OutAdd'
  <2>1. OutAdd' \in Nat
    BY <1>2
  <2>2. OutAdd' + 0 = OutAdd'
    BY <1>3, <2>1
  <2> QED BY <1>6, <2>2
<1> QED BY <1>1, <1>2, <1>4, <1>5, <1>6, <1>7

\* While a byte is shifted out, or in the gap, nothing moves.
LEMMA ShiftMoves ==
  ASSUME NEW push, NEW cnt, NEW tick, Edge(push, cnt, tick), Shifting(FALSE, tick)
  PROVE  Kept(cnt)
<1>1. /\ SendCount' = SendCount /\ BytePointer' = BytePointer /\ SCNZ' = SCNZ
      /\ ReadData' = FALSE /\ PopSC' = FALSE /\ (Go' => Go)
  <2>1. SCNZ \in BOOLEAN
    BY EdgeIs
  <2> QED BY <2>1 DEF Shifting
<1>2. wire' = wire
  BY <1>1, EdgeIs
<1>3. Current' = Current /\ Loaded' = Loaded /\ Queued' = counts'
  BY <1>1 DEF Current, Loaded, Queued
<1>4. Waiting' = Cat(Waiting, cnt)
  BY <1>3, CountsSent DEF Waiting
<1>5. NextByte' \in Nat /\ Same(NextByte', NextByte) /\ NextByte \in Nat /\ Current \in Nat
      /\ BytePointer \in Nat /\ SendCount \in Nat
  <2>1. NextByte \in Nat /\ Current \in Nat /\ BytePointer \in 0 .. W - 1 /\ SendCount \in Nat
    BY EdgeIs
  <2>2. OutAdd' \in Nat /\ Same(OutAdd', NextByte) /\ NextByte' = OutAdd'
    BY <1>1, Address
  <2> QED BY <2>1, <2>2
<1>6. Same(NextByte' + Current', NextByte + Current)
  BY <1>3, <1>5, SameAdd
<1>7. BytesAt(buffram, NextByte', BytePointer, SendCount) = BytesAt(buffram, NextByte, BytePointer, SendCount)
  <2>1. BytePointer + SendCount \in Nat
    BY <1>5
  <2>2. WordsFor(BytePointer + SendCount) \in Nat
    BY <2>1, WordsForNat
  <2>3. Agree(buffram, NextByte', buffram, NextByte, WordsFor(BytePointer + SendCount))
    BY <1>5, <2>2, AgreeShift
  <2> QED BY <1>5, <2>3, BytesAgree
<1>8. ToComeNext = ToCome
  BY <1>1, <1>7 DEF ToComeNext, ToCome
<1>9. Current' <= Current
  BY <1>3, <1>5
<1> QED BY <1>2, <1>4, <1>6, <1>8, <1>9 DEF Kept

\* A byte less, in words.
LEMMA PieceIs ==
  ASSUME NEW b \in 0 .. W - 1, NEW n \in Nat \ {0}
  PROVE  /\ (b + 1) % W \in 0 .. W - 1 /\ ((b + 1) % W) + (n - 1) \in Nat
         /\ WordsFor(b + n) = WordsFor(((b + 1) % W) + (n - 1)) + (IF b = W - 1 THEN 1 ELSE 0)
         /\ WordsFor(((b + 1) % W) + (n - 1)) \in Nat /\ WordsFor(b + n) \in Nat
         /\ (((b + 1) % W) + (n - 1) = b + n \/ ((b + 1) % W) + (n - 1) + W = b + n)
<1>0. W \in Nat \ {0} /\ b + n \in Nat
  BY FifoAssumption
<1>1. CASE b = W - 1
  <2>1. (b + 1) % W = 0
    <3>1. 0 \in Nat /\ b + 1 = W * 1 + 0 /\ b + 1 \in Nat /\ 1 \in Int /\ 0 \in 0 .. W - 1
      BY <1>0, <1>1
    <3> QED BY <1>0, <3>1, DivUnique, Zenon
  <2>2. n - 1 \in Nat /\ 0 + (n - 1) = n - 1 /\ b + n = n - 1 + W
    BY <1>0, <1>1
  <2>3. WordsFor(n - 1 + W) = WordsFor(n - 1) + 1 /\ WordsFor(n - 1) \in Nat
    BY <2>2, WordsForFacts, WordsForNat
  <2>4. ((b + 1) % W) + (n - 1) = n - 1 /\ 0 \in 0 .. W - 1
    BY <1>0, <2>1, <2>2
  <2> QED BY <1>1, <2>1, <2>2, <2>3, <2>4
<1>2. CASE b # W - 1
  <2>1. (b + 1) % W = b + 1
    <3>1. b + 1 = W * 0 + (b + 1) /\ b + 1 \in Nat /\ 0 \in Int /\ b + 1 \in 0 .. W - 1
      BY <1>0, <1>2
    <3> QED BY <1>0, <3>1, DivUnique, Zenon
  <2>2. b + 1 + (n - 1) = b + n /\ b + 1 \in 0 .. W - 1
    BY <1>0, <1>2
  <2>3. WordsFor(b + n) \in Nat /\ WordsFor(b + n) = WordsFor(b + n) + 0
    <3>1. WordsFor(b + n) \in Nat
      BY <1>0, WordsForNat
    <3> QED BY <3>1
  <2>4. ((b + 1) % W) + (n - 1) = b + n
    BY <2>1, <2>2
  <2> QED BY <1>0, <1>2, <2>1, <2>2, <2>3, <2>4
<1> QED BY <1>1, <1>2

\* The byte that is put on the line, and those that are still to come.
LEMMA ByteLeaves ==
  ASSUME NEW push, NEW cnt, NEW tick, Edge(push, cnt, tick), StartByte(FALSE)
  PROVE  /\ ~ReadData /\ NextByte = OutAdd /\ wire = <<>> /\ SCNZ' /\ Go' /\ ~FDGo'
         /\ Cat(wire', ToComeNext) = BytesAt(buffram, NextByte, BytePointer, SendCount)
         /\ NextByte' + Current' = NextByte + WordsFor(BytePointer + SendCount)
         /\ Current' \in Nat /\ Current' <= WordsFor(BytePointer + SendCount)
         /\ Waiting' = Cat(Queued, cnt)
<1> DEFINE d == IF BytePointer = W - 1 THEN 1 ELSE 0
<1>0. SendCount \in Nat \ {0} /\ BytePointer \in 0 .. W - 1 /\ OutAdd \in 0 .. Depth - 1 /\ ~Go /\ ~FDGo
  BY EdgeIs DEF StartByte
<1>1. ~ReadData /\ wire = <<>>
  BY <1>0, EdgeIs DEF TxFlags, LineInv
<1>2. NextByte = OutAdd /\ OutAdd' = OutAdd
  BY <1>1, Address
<1>3. /\ SReg' = SendData /\ Go' = TRUE /\ SCNZ' = TRUE /\ FDGo' = FALSE /\ PopSC' = FALSE
      /\ BytePointer' = (BytePointer + 1) % W /\ SendCount' = SendCount - 1
      /\ ReadData' = (BytePointer = W - 1)
  BY <1>1 DEF StartByte
<1>4. NextByte' = OutAdd + d
  BY <1>2, <1>3, Address
<1>5. BytesAt(buffram, OutAdd, BytePointer, SendCount) =
        Cat(One(buffram[OutAdd][BytePointer + 1]),
            BytesAt(buffram, OutAdd + d, (BytePointer + 1) % W, SendCount - 1))
  <2>1. OutAdd \in Nat
    BY <1>0
  <2>2. OutAdd % Depth = OutAdd
    BY <1>0, FifoAssumption
  <2>3. BytesAt(buffram, OutAdd, BytePointer, SendCount) =
          Cat(One(buffram[OutAdd % Depth][BytePointer + 1]),
              BytesAt(buffram, OutAdd + d, (BytePointer + 1) % W, SendCount - 1))
    BY <1>0, <2>1, BytesHead
  <2> QED BY <2>2, <2>3
<1>6. ToComeNext = BytesAt(buffram, OutAdd + d, (BytePointer + 1) % W, SendCount - 1)
  BY <1>3, <1>4 DEF ToComeNext
<1>7. wire' = One(buffram[OutAdd][BytePointer + 1])
  BY <1>0, <1>3, EdgeIs DEF SendData
<1>8. Current' = WordsFor(((BytePointer + 1) % W) + (SendCount - 1))
  BY <1>3 DEF Current
<1>9. /\ WordsFor(BytePointer + SendCount) = Current' + d /\ Current' \in Nat
      /\ WordsFor(BytePointer + SendCount) \in Nat
  BY <1>0, <1>8, PieceIs
<1>10. Waiting' = Cat(Queued, cnt)
  <2>1. Loaded' = <<>> /\ Queued' = counts'
    BY <1>3 DEF Loaded, Queued
  <2>2. counts' = Cat(Queued, cnt) /\ IsSeq(Cat(Queued, cnt))
    BY CountsSent, ConcatIs
  <2>3. Cat(<<>>, counts') = counts'
    BY <2>2, ConcatIs
  <2> QED BY <2>1, <2>2, <2>3 DEF Waiting
<1>11. d \in Nat
  OBVIOUS
<1> HIDE DEF d
<1>12. Current' <= WordsFor(BytePointer + SendCount)
  BY <1>9, <1>11
<1>13. NextByte' + Current' = NextByte + WordsFor(BytePointer + SendCount)
  BY <1>0, <1>2, <1>4, <1>9, <1>11
<1> QED BY <1>1, <1>2, <1>3, <1>5, <1>6, <1>7, <1>9, <1>10, <1>12, <1>13

\* A byte that is started goes from the buffer to the line.
LEMMA ByteMoves ==
  ASSUME NEW push, NEW cnt, NEW tick, Edge(push, cnt, tick), StartByte(FALSE), SCNZ
  PROVE  Kept(cnt)
<1>1. /\ Cat(wire', ToComeNext) = BytesAt(buffram, NextByte, BytePointer, SendCount) /\ wire = <<>>
      /\ NextByte' + Current' = NextByte + WordsFor(BytePointer + SendCount)
      /\ Current' <= WordsFor(BytePointer + SendCount) /\ Waiting' = Cat(Queued, cnt)
  BY ByteLeaves
<1>2. ToCome = BytesAt(buffram, NextByte, BytePointer, SendCount)
      /\ Current = WordsFor(BytePointer + SendCount) /\ Loaded = <<>>
  BY DEF ToCome, Current, Loaded
<1>3. Cat(<<>>, ToCome) = ToCome
  <2>1. IsSeq(ToCome)
    BY <1>2, EdgeIs, BytesIs
  <2> QED BY <2>1, ConcatIs
<1>4. Waiting = Queued
  <2>1. Cat(<<>>, Queued) = Queued
    BY CountsSent, ConcatIs
  <2> QED BY <1>2, <2>1 DEF Waiting
<1>5. Same(NextByte' + Current', NextByte + Current)
  BY <1>1, <1>2 DEF Same
<1> QED BY <1>1, <1>2, <1>3, <1>4, <1>5 DEF Kept

\* The first byte of a frame begins it.
LEMMA FrameMoves ==
  ASSUME NEW push, NEW cnt, NEW tick, Edge(push, cnt, tick), StartByte(FALSE), ~SCNZ
  PROVE  Begun(cnt)
<1>1. /\ Cat(wire', ToComeNext) = BytesAt(buffram, NextByte, BytePointer, SendCount) /\ wire = <<>>
      /\ NextByte' + Current' = NextByte + WordsFor(BytePointer + SendCount)
      /\ Current' <= WordsFor(BytePointer + SendCount) /\ Waiting' = Cat(Queued, cnt)
  BY ByteLeaves
<1>2. BytePointer = 0 /\ 0 + SendCount = SendCount /\ SendCount # 0
  <2>1. TxFlags /\ SendCount \in Nat
    BY EdgeIs
  <2>2. 0 + SendCount = SendCount
    BY <2>1
  <2> QED BY <2>1, <2>2 DEF TxFlags, StartByte
<1>3. ToCome = <<>> /\ Current = 0 /\ Loaded = One(SendCount)
  BY <1>2 DEF ToCome, Current, Loaded, One
<1>4. ~RFDGo /\ ~RPushRC
  BY EdgeIs DEF LineInv, StartByte
<1>5. Received = <<>>
  BY <1>4 DEF Received
<1>6. All = <<>>
  <2>1. Cat(Cat(<<>>, <<>>), <<>>) = <<>>
    BY EmptyIs, ConcatIs
  <2> QED BY <1>1, <1>3, <1>5, <2>1 DEF All
<1> QED BY <1>1, <1>2, <1>3, <1>5, <1>6 DEF Begun, Waiting

\* While a frame is begun the driver is on.
LEMMA NotHeld ==
  ASSUME NEW push, NEW cnt, NEW tick, Edge(push, cnt, tick), SendCount # 0 \/ SCNZ
  PROVE  DriveEnable /\ ~WaitingForDrive /\ ~DriveEnHold
<1>1. Driver /\ (PopSC /\ SendCount # 0 => counts # <<>>) /\ (PopSC /\ SCNZ => counts # <<>>)
  BY EdgeIs DEF TxFlags, Cleared
<1>2. DriveDelayCount = 0 /\ DriveEnable
  BY <1>1 DEF Driver, DriveEnable
<1> QED BY <1>2 DEF WaitingForDrive, DriveEnHold

\* The edge in which the next count is popped, if there is one.
LEMMA NextFrameIs ==
  ASSUME NEW push, NEW cnt, NEW tick, Edge(push, cnt, tick), NextFrame(FALSE)
  PROVE  /\ ~Go /\ ~FDGo /\ SendCount = 0 /\ (PopSC => counts = <<>>) /\ ~ReadData
         /\ Waiting = counts /\ counts' = Cat(counts, cnt)
         /\ SendCount' = (IF counts # <<>> THEN Head(counts) ELSE 0)
         /\ PopSC' = (counts # <<>>) /\ FDGo' = SCNZ /\ Go' = FALSE /\ SCNZ' = FALSE
         /\ ReadData' = (SCNZ /\ BytePointer # 0) /\ BytePointer' = 0
         /\ counts # <<>> => Head(counts) \in Nat \ {0} /\ Head(counts') = Head(counts)
                             /\ Tail(counts') = Cat(Tail(counts), cnt) /\ counts' # <<>>
<1>0. /\ TxFlags /\ ~Go /\ ~FDGo /\ counts \in Seq(Nat) /\ IsSeq(cnt) /\ SCNZ \in BOOLEAN
      /\ SendCount = 0 \/ DriveEnHold
  BY EdgeIs, CountsSent DEF NextFrame
<1>1. SendCount = 0
  BY <1>0, NotHeld
<1>2. (PopSC => counts = <<>>) /\ ~ReadData
  BY <1>0, <1>1 DEF TxFlags
<1>3. Loaded = <<>> /\ Queued = counts
  BY <1>1, <1>2 DEF Loaded, Queued
<1>4. Waiting = counts
  <2>1. Cat(<<>>, counts) = counts
    BY <1>0, SeqIs, ConcatIs
  <2> QED BY <1>3, <2>1 DEF Waiting
<1>5. counts' = Cat(counts, cnt)
  BY <1>3, CountsSent
<1>6. /\ SendCount' = (IF counts # <<>> THEN Head(counts) ELSE 0)
      /\ PopSC' = (counts # <<>>) /\ FDGo' = SCNZ /\ Go' = FALSE /\ SCNZ' = FALSE
      /\ ReadData' = (SCNZ /\ BytePointer # 0) /\ BytePointer' = 0
  BY <1>0, <1>1, <1>2 DEF NextFrame, TxFlags
<1>7. ASSUME counts # <<>>
      PROVE  /\ Head(counts) \in Nat \ {0} /\ Head(counts') = Head(counts)
             /\ Tail(counts') = Cat(Tail(counts), cnt) /\ counts' # <<>>
  <2>1. IsSeq(counts) /\ 1 \in 1 .. Len(counts) /\ Head(counts) = counts[1] /\ Head(counts) \in Nat
    BY <1>0, <1>7, SeqIs
  <2>2. counts[1] # 0
    <3>1. \A k \in 1 .. Len(Waiting) : Waiting[k] # 0
      BY FramesUnderWay DEF Edge
    <3> QED BY <1>4, <2>1, <3>1
  <2> DEFINE h == Head(counts)
             t == Tail(counts)
  <2>3. IsSeq(t) /\ counts = Cat(One(h), t) /\ IsSeq(One(h))
    BY <1>7, <2>1, LenIs, EmptyIs
  <2> HIDE DEF h, t
  <2>4. counts' = Cat(One(h), Cat(t, cnt)) /\ IsSeq(Cat(t, cnt))
    <3>1. IsSeq(Cat(t, cnt))
      BY <1>0, <2>3, ConcatIs
    <3>2. Cat(Cat(One(h), t), cnt) = Cat(One(h), Cat(t, cnt))
      BY <1>0, <2>3, ConcatAssoc
    <3> QED BY <1>5, <2>3, <3>1, <3>2
  <2>5. Head(counts') = h /\ Tail(counts') = Cat(t, cnt) /\ counts' # <<>>
    BY <2>4, CatHead
  <2> QED BY <2>1, <2>2, <2>5 DEF h, t
<1> QED BY <1>0, <1>1, <1>2, <1>4, <1>5, <1>6, <1>7

\* The end of a frame leaves the address behind its last word.
LEMMA EndMoves ==
  ASSUME NEW push, NEW cnt, NEW tick, Edge(push, cnt, tick), NextFrame(FALSE)
  PROVE  Kept(cnt)
<1>1. /\ SendCount = 0 /\ ~ReadData /\ Waiting = counts /\ counts' = Cat(counts, cnt)
      /\ SendCount' = (IF counts # <<>> THEN Head(counts) ELSE 0)
      /\ PopSC' = (counts # <<>>) /\ Go' = FALSE /\ SCNZ' = FALSE
      /\ ReadData' = (SCNZ /\ BytePointer # 0)
      /\ counts # <<>> => Head(counts) \in Nat \ {0} /\ Head(counts') = Head(counts) /\ counts' # <<>>
  BY NextFrameIs
<1>2. IsSeq(counts') /\ IsSeq(cnt)
  BY <1>1, CountsSent, SeqIs, ConcatIs DEF Edge, TypeInv, Counts
<1>3. Waiting' = Cat(Waiting, cnt)
  <2>1. CASE counts = <<>>
    <3>1. Loaded' = <<>> /\ Queued' = counts'
      BY <1>1, <2>1 DEF Loaded, Queued
    <3>2. Cat(<<>>, counts') = counts'
      BY <1>2, ConcatIs
    <3> QED BY <1>1, <3>1, <3>2 DEF Waiting
  <2>2. CASE counts # <<>>
    <3>1. Loaded' = One(Head(counts')) /\ Queued' = Tail(counts')
      BY <1>1, <2>2 DEF Loaded, Queued, One
    <3>2. Cat(One(Head(counts')), Tail(counts')) = counts'
      BY <1>1, <1>2, <2>2, LenIs
    <3> QED BY <1>1, <3>1, <3>2 DEF Waiting
  <2> QED BY <2>1, <2>2
<1>4. BytePointer \in 0 .. W - 1 /\ OutAdd \in Nat /\ NextByte = OutAdd /\ OutAdd' = OutAdd
  <2>1. BytePointer \in 0 .. W - 1 /\ OutAdd \in 0 .. Depth - 1
    BY EdgeIs
  <2> QED BY <1>1, <2>1, Address
<1>5. NextByte' + Current' = NextByte + Current /\ Current' <= Current
  <2>1. Current' = 0
    BY <1>1 DEF Current
  <2>2. NextByte' = OutAdd + (IF ReadData' THEN 1 ELSE 0)
    BY <1>4, Address
  <2>3. CASE ~SCNZ
    <3>1. Current = 0 /\ ~ReadData'
      BY <1>1, <2>3 DEF Current
    <3> QED BY <1>4, <2>1, <2>2, <3>1
  <2>4. CASE SCNZ
    <3>1. Current = WordsFor(BytePointer)
      <4>1. BytePointer + 0 = BytePointer
        BY <1>4
      <4> QED BY <1>1, <2>4, <4>1 DEF Current
    <3>2. WordsFor(BytePointer) = IF BytePointer = 0 THEN 0 ELSE 1
      <4>1. BytePointer \in Nat /\ BytePointer = W * 0 + BytePointer /\ W \in Nat \ {0} /\ 0 \in Int
        BY <1>4, FifoAssumption
      <4>2. BytePointer \div W = 0 /\ BytePointer % W = BytePointer
        BY <1>4, <4>1, DivUnique, Zenon
      <4>3. WordsFor(BytePointer) = BytePointer \div W + (IF BytePointer % W = 0 THEN 0 ELSE 1)
        BY <4>1, WordsForFacts
      <4> QED BY <4>2, <4>3
    <3>3. CASE BytePointer = 0
      <4>1. ~ReadData' /\ Current = 0
        BY <1>1, <3>1, <3>2, <3>3
      <4> QED BY <1>4, <2>1, <2>2, <4>1
    <3>4. CASE BytePointer # 0
      <4>1. ReadData' /\ Current = 1
        BY <1>1, <2>4, <3>1, <3>2, <3>4
      <4> QED BY <1>4, <2>1, <2>2, <4>1
    <3> QED BY <3>3, <3>4
  <2> QED BY <2>3, <2>4
<1>6. ToComeNext = <<>> /\ ToCome = <<>>
  <2>1. ToComeNext = <<>>
    BY <1>1 DEF ToComeNext
  <2>2. BytesAt(buffram, NextByte, BytePointer, 0) = <<>>
    BY BytesIs
  <2> QED BY <1>1, <2>1, <2>2 DEF ToCome
<1>7. wire' = wire
  BY <1>1, EdgeIs
<1> QED BY <1>3, <1>5, <1>6, <1>7 DEF Kept, Same

\* Every edge does one of the two.
LEMMA Moves ==
  ASSUME NEW push, NEW cnt, NEW tick, Edge(push, cnt, tick)
  PROVE  Kept(cnt) \/ Begun(cnt)
<1>1. Shifting(FALSE, tick) \/ StartByte(FALSE) \/ NextFrame(FALSE)
  BY EdgeIs
<1> QED BY <1>1, ShiftMoves, ByteMoves, FrameMoves, EndMoves

LEMMA SameFrames ==
  ASSUME NEW mem, NEW a \in Nat, NEW b \in Nat, Same(a, b), NEW q \in Seq(Nat)
  PROVE  FramesAt(mem, a, q) = FramesAt(mem, b, q)
<1>1. WordsIn(q) \in Nat
  BY OffsetsAre
<1>2. Agree(mem, a, mem, b, WordsIn(q))
  BY <1>1, AgreeShift
<1> QED BY <1>2, FramesAgree

\* The frame on the line and those that wait, in the buffer as it was.
SendingNext ==
  Cat(Whole(Cat(Cat(Received, wire'), ToComeNext)), FramesAt(buffram, NextByte' + Current', Waiting'))

Sending(cnt) == Cat(Whole(All), FramesAt(buffram, NextByte + Current, Cat(Waiting, cnt)))

\* The types of what is in hand in an edge of the transmitter.
LEMMA EdgeKinds ==
  ASSUME NEW push, NEW cnt, NEW tick, Edge(push, cnt, tick)
  PROVE  /\ IsSeq(Received) /\ IsSeq(wire) /\ IsSeq(ToCome) /\ IsSeq(wire') /\ IsSeq(ToComeNext)
         /\ (wire' = <<>> \/ wire' = One(wire'[1])) /\ (wire = <<>> \/ wire = One(wire[1]))
         /\ Waiting' \in Seq(Nat) /\ NextByte' \in Nat /\ BytePointer' \in Nat /\ SendCount' \in Nat
         /\ Current' \in Nat /\ WordsIn(Waiting') \in Nat
         /\ Cat(Waiting, cnt) \in Seq(Nat) /\ WordsIn(Cat(Waiting, cnt)) \in Nat
<1>1. (wire = <<>> \/ wire = One(wire[1])) /\ (wire' = wire \/ wire' = One(SReg'))
  BY EdgeIs DEF LineInv
<1>2. wire' = <<>> \/ wire' = One(wire'[1])
  BY <1>1, EmptyIs
<1>3. IsSeq(Received) /\ IsSeq(wire) /\ IsSeq(ToCome)
  BY <1>1, LineIs DEF Edge
<1>4. IsSeq(wire')
  BY <1>1, <1>3, EmptyIs
<1>5. /\ counts' \in Seq(Nat) /\ SendCount' \in Nat /\ BytePointer' \in 0 .. W - 1
      /\ OutAdd' \in 0 .. Depth - 1
  BY DEF Edge, TypeInv, Counts, LinkTypeOK, TxTypeOK
<1>6. NextByte' \in Nat
  <2>1. OutAdd' \in Nat
    BY <1>5, FifoAssumption
  <2>2. (IF ReadData' THEN 1 ELSE 0) \in Nat
    OBVIOUS
  <2>3. NextByte' = OutAdd' + (IF ReadData' THEN 1 ELSE 0)
    BY DEF NextByte
  <2>4. OutAdd' + (IF ReadData' THEN 1 ELSE 0) \in Nat
    BY <2>1, <2>2, AddNat, Zenon
  <2> QED BY <2>3, <2>4, Zenon
<1>7. Waiting' \in Seq(Nat)
  <2>1. Loaded' \in Seq(Nat) /\ Queued' \in Seq(Nat)
    BY <1>5 DEF Loaded, Queued
  <2> QED BY <2>1, CatTyped DEF Waiting
<1>8. BytePointer' \in Nat /\ BytePointer' + SendCount' \in Nat
  <2>1. BytePointer' \in Nat
    BY <1>5, FifoAssumption
  <2> QED BY <1>5, <2>1, AddNat, Zenon
<1>9. Current' \in Nat
  BY <1>8, WordsForNat DEF Current
<1>10. IsSeq(ToComeNext)
  BY <1>5, BytesIs, EmptyIs DEF ToComeNext
<1>11. Cat(Waiting, cnt) \in Seq(Nat)
  BY CountsSent, CatTyped DEF Edge
<1> QED BY <1>1, <1>2, <1>3, <1>4, <1>5, <1>6, <1>7, <1>8, <1>9, <1>10, <1>11, OffsetsAre

\* In both cases the same frames are sent.
LEMMA KeptSends ==
  ASSUME NEW push, NEW cnt, NEW tick, Edge(push, cnt, tick), Kept(cnt)
  PROVE  /\ SendingNext = Sending(cnt)
         /\ Same(NextByte' + Current' + WordsIn(Waiting'), NextByte + Current + WordsIn(Cat(Waiting, cnt)))
         /\ Current' + WordsIn(Waiting') <= Current + WordsIn(Cat(Waiting, cnt))
<1> DEFINE a == NextByte' + Current'
           b == NextByte + Current
           q == Cat(Waiting, cnt)
<1>1. /\ Waiting' = q /\ Same(a, b) /\ Current' <= Current
      /\ Cat(wire', ToComeNext) = Cat(wire, ToCome)
  BY DEF Kept
<1>2. a \in Nat /\ b \in Nat /\ q \in Seq(Nat) /\ Current' \in Nat /\ Current \in Nat /\ WordsIn(q) \in Nat
  <2>1. NextByte' \in Nat /\ Current' \in Nat /\ q \in Seq(Nat) /\ WordsIn(q) \in Nat
    BY EdgeKinds
  <2>2. NextByte \in Nat /\ Current \in Nat
    BY EdgeIs
  <2>3. a \in Nat /\ b \in Nat
    BY <2>1, <2>2, AddNat, Zenon
  <2> QED BY <2>1, <2>2, <2>3, Zenon
<1>3. Cat(Cat(Received, wire'), ToComeNext) = All
  <2>1. /\ IsSeq(Received) /\ IsSeq(wire) /\ IsSeq(ToCome) /\ IsSeq(wire') /\ IsSeq(ToComeNext)
    BY EdgeKinds
  <2>2. Cat(Cat(Received, wire'), ToComeNext) = Cat(Received, Cat(wire', ToComeNext))
    BY <2>1, ConcatAssoc
  <2>3. Cat(Cat(Received, wire), ToCome) = Cat(Received, Cat(wire, ToCome))
    BY <2>1, ConcatAssoc
  <2> QED BY <1>1, <2>2, <2>3 DEF All
<1> HIDE DEF a, b, q
<1>4. FramesAt(buffram, a, q) = FramesAt(buffram, b, q)
  BY <1>1, <1>2, SameFrames
<1>5. SendingNext = Sending(cnt)
  BY <1>1, <1>3, <1>4 DEF SendingNext, Sending, a, b, q
<1>6. Same(a + WordsIn(q), b + WordsIn(q))
  BY <1>1, <1>2, SameAdd
<1>7. Current' + WordsIn(q) <= Current + WordsIn(q)
  BY <1>1, <1>2
<1> QED BY <1>1, <1>5, <1>6, <1>7 DEF a, b, q

LEMMA BegunSends ==
  ASSUME NEW push, NEW cnt, NEW tick, Edge(push, cnt, tick), Begun(cnt)
  PROVE  /\ SendingNext = Sending(cnt)
         /\ Same(NextByte' + Current' + WordsIn(Waiting'), NextByte + Current + WordsIn(Cat(Waiting, cnt)))
         /\ Current' + WordsIn(Waiting') <= Current + WordsIn(Cat(Waiting, cnt))
<1> DEFINE q == Cat(Queued, cnt)
           n == SendCount
           f == BytesAt(buffram, NextByte, 0, n)
           a == NextByte + WordsFor(n)
<1>1. /\ All = <<>> /\ Received = <<>> /\ Current = 0 /\ n # 0
      /\ Waiting = Cat(One(n), Queued) /\ Waiting' = q
      /\ NextByte' + Current' = a /\ Current' <= WordsFor(n)
      /\ Cat(wire', ToComeNext) = f
  BY DEF Begun
<1>2. n \in Nat /\ NextByte \in Nat /\ WordsFor(n) \in Nat /\ Current' \in Nat
  BY EdgeIs, EdgeKinds
<1>3. q \in Seq(Nat) /\ WordsIn(q) \in Nat
  BY <1>1, EdgeKinds
<1>4. Cat(Waiting, cnt) = Cat(One(n), q)
  <2>1. IsSeq(One(n)) /\ IsSeq(Queued) /\ IsSeq(cnt)
    BY CountsSent, EmptyIs
  <2> QED BY <1>1, <2>1, ConcatAssoc
<1>5. IsSeq(wire') /\ IsSeq(ToComeNext)
  BY EdgeKinds
<1> HIDE DEF q, n
<1>6. /\ FramesAt(buffram, NextByte, Cat(One(n), q)) = Cat(One(f), FramesAt(buffram, a, q))
      /\ WordsIn(Cat(One(n), q)) = WordsFor(n) + WordsIn(q)
  BY <1>2, <1>3, FramesHead
<1>7. f # <<>>
  BY <1>1, <1>2, BytesIs
<1>8. NextByte + Current = NextByte
  BY <1>1, <1>2
<1> HIDE DEF f, a
<1>9. Whole(Cat(Cat(Received, wire'), ToComeNext)) = One(f)
  <2>1. Cat(<<>>, wire') = wire'
    BY <1>5, ConcatIs
  <2> QED BY <1>1, <1>7, <2>1 DEF Whole
<1>10. SendingNext = Cat(One(f), FramesAt(buffram, a, q))
  BY <1>1, <1>9 DEF SendingNext
<1>11. Sending(cnt) = Cat(<<>>, Cat(One(f), FramesAt(buffram, a, q)))
  BY <1>1, <1>4, <1>6, <1>8 DEF Sending, Whole
<1>12. Cat(<<>>, Cat(One(f), FramesAt(buffram, a, q))) = Cat(One(f), FramesAt(buffram, a, q))
  <2> DEFINE s == FramesAt(buffram, a, q)
             t == Cat(One(f), s)
  <2>1. IsSeq(s) /\ IsSeq(One(f))
    BY <1>3, FramesIs, EmptyIs
  <2> HIDE DEF s
  <2>2. IsSeq(t)
    BY <2>1, ConcatIs
  <2> HIDE DEF t
  <2>3. Cat(<<>>, t) = t
    BY <2>2, ConcatIs
  <2> QED BY <2>3 DEF t, s
<1>13. NextByte' + Current' + WordsIn(Waiting') = NextByte + Current + WordsIn(Cat(Waiting, cnt))
  <2>1. a + WordsIn(q) = NextByte + (WordsFor(n) + WordsIn(q))
    BY <1>2, <1>3 DEF a
  <2> QED BY <1>1, <1>4, <1>6, <1>8, <2>1
<1>14. Current' + WordsIn(Waiting') <= Current + WordsIn(Cat(Waiting, cnt))
  BY <1>1, <1>2, <1>3, <1>4, <1>6
<1> QED BY <1>10, <1>11, <1>12, <1>13, <1>14 DEF Same

LEMMA AgreeLess ==
  ASSUME NEW mem, NEW mem2, NEW a, NEW b, NEW n \in Nat, NEW k \in Nat, k <= n,
         Agree(mem, a, mem2, b, n)
  PROVE  Agree(mem, a, mem2, b, k)
<1>1. \A j \in 0 .. k - 1 : j \in 0 .. n - 1
  OBVIOUS
<1> QED BY <1>1 DEF Agree

\* What has arrived does not change in an edge of the transmitter.
RxThere == Arrived(rbuffram, ROutAdd, reading, words, rcounts)

LEMMA RxKept ==
  ASSUME UNCHANGED <<rxVars, reading, words>>
  PROVE  /\ rbuffram' = rbuffram /\ RxThere' = RxThere /\ Received' = Received /\ RxFlags' = RxFlags
         /\ rcounts' = rcounts
         /\ RFDGo' = RFDGo /\ RPushRC' = RPushRC
<1>1. UNCHANGED <<rbuffram, RInAdd, ROutAdd, rcounts, RCFIFOError, RecvCount, RBytePointer,
                  RDataLatch, RPushData, RPushRC, RGo, RFDGo, reading, words>>
  BY DEF rxVars
<1>2. FirstUnread' = FirstUnread /\ LineWords' = LineWords /\ RxNext' = RxNext
  BY <1>1 DEF FirstUnread, LineWords, RxNext
<1>3. RxThere' = RxThere
  BY <1>1 DEF RxThere
<1>4. Received' = Received
  BY <1>1, <1>2 DEF Received
<1>5. RxFlags' = RxFlags
  BY <1>1, <1>2 DEF RxFlags
<1> QED BY <1>1, <1>3, <1>4, <1>5

\* An edge of the transmitter, whatever the host pushes in it.
LEMMA TxOutcome ==
  ASSUME NEW push, NEW cnt, NEW tick, Edge(push, cnt, tick),
         Agree(buffram, NextByte', buffram', NextByte', Current' + WordsIn(Waiting'))
  PROVE  /\ Queue' = Cat(RxThere, Sending(cnt)) /\ IsSeq(Queue')
         /\ Queue = Cat(RxThere, Cat(Whole(All), Unsent)) /\ IsSeq(RxThere) /\ IsSeq(Whole(All))
         /\ IsSeq(Unsent) /\ IsSeq(Queue)
         /\ Unsent = FramesAt(buffram, NextByte + Current, Waiting)
<1>1. /\ (wire' = <<>> \/ wire' = One(wire'[1])) /\ (wire = <<>> \/ wire = One(wire[1]))
      /\ Waiting' \in Seq(Nat) /\ NextByte' \in Nat /\ BytePointer' \in Nat /\ SendCount' \in Nat
      /\ Current' \in Nat /\ WordsIn(Waiting') \in Nat
  BY EdgeKinds
<1>2. TypeInv /\ TypeInv' /\ UNCHANGED <<rxVars, reading, words>>
  BY EdgeIs DEF Edge
<1>3. RxThere' = RxThere /\ Received' = Received
  BY <1>2, RxKept
<1>4. /\ Queue' = Cat(Cat(RxThere, Whole(All')), Unsent') /\ IsSeq(RxThere)
      /\ Unsent' = FramesAt(buffram', NextByte' + Current', Waiting')
      /\ IsSeq(Whole(All')) /\ IsSeq(Unsent') /\ IsSeq(Queue')
  BY <1>1, <1>2, <1>3, QueueThen DEF RxThere
<1>5. /\ Queue = Cat(Cat(RxThere, Whole(All)), Unsent)
      /\ IsSeq(Whole(All)) /\ IsSeq(Unsent) /\ IsSeq(Queue)
      /\ Unsent = FramesAt(buffram, NextByte + Current, Waiting)
  BY <1>1, <1>2, QueueIs DEF RxThere
<1>6. ToCome' = ToComeNext
  <2>1. CASE SCNZ'
    <3>1. Current' = WordsFor(BytePointer' + SendCount')
      BY <2>1 DEF Current
    <3>2. Current' + WordsIn(Waiting') \in Nat /\ Current' <= Current' + WordsIn(Waiting')
      BY <1>1
    <3>3. Agree(buffram, NextByte', buffram', NextByte', Current')
      BY <1>1, <3>2, AgreeLess
    <3>4. BytesAt(buffram, NextByte', BytePointer', SendCount') = BytesAt(buffram', NextByte', BytePointer', SendCount')
      BY <1>1, <3>1, <3>3, BytesAgree
    <3> QED BY <2>1, <3>4 DEF ToCome, ToComeNext
  <2>2. CASE ~SCNZ'
    BY <2>2 DEF ToCome, ToComeNext
  <2> QED BY <2>1, <2>2
<1>7. Unsent' = FramesAt(buffram, NextByte' + Current', Waiting')
  <2> DEFINE a == NextByte' + Current'
  <2>1. Current' + WordsIn(Waiting') \in Nat /\ a \in Nat
        /\ Current' + WordsIn(Waiting') <= Current' + WordsIn(Waiting')
    <3>1. Current' + WordsIn(Waiting') \in Nat /\ a \in Nat
      BY <1>1, AddNat, Zenon
    <3>2. ASSUME NEW x \in Nat PROVE x <= x
      OBVIOUS
    <3> QED BY <3>1, <3>2, Zenon
  <2>2. Agree(buffram, a, buffram', a, WordsIn(Waiting'))
    BY <1>1, <2>1, AgreePart
  <2> HIDE DEF a
  <2>3. FramesAt(buffram, a, Waiting') = FramesAt(buffram', a, Waiting')
    BY <1>1, <2>1, <2>2, FramesAgree
  <2> QED BY <1>4, <2>3 DEF a
<1>8. Whole(All') = Whole(Cat(Cat(Received, wire'), ToComeNext))
  BY <1>3, <1>6 DEF All
<1>9. Cat(Whole(All'), Unsent') = Sending(cnt)
  <2>1. Kept(cnt) \/ Begun(cnt)
    BY Moves
  <2>2. SendingNext = Sending(cnt)
    BY <2>1, KeptSends, BegunSends
  <2> QED BY <1>7, <1>8, <2>2 DEF SendingNext
<1>10. Queue' = Cat(RxThere, Sending(cnt))
  <2>1. Cat(Cat(RxThere, Whole(All')), Unsent') = Cat(RxThere, Cat(Whole(All'), Unsent'))
    BY <1>4, ConcatAssoc
  <2> QED BY <1>4, <1>9, <2>1
<1>11. Queue = Cat(RxThere, Cat(Whole(All), Unsent))
  BY <1>4, <1>5, ConcatAssoc
<1> QED BY <1>4, <1>5, <1>10, <1>11

LEMMA FitsLess ==
  ASSUME NEW m \in Nat, NEW n \in Nat, m <= n, Fits(n)
  PROVE  Fits(m)
<1>1. WordsFor(m) \in Nat /\ WordsFor(n) \in Nat /\ WordsFor(m) <= WordsFor(n)
  BY WordsForFacts, WordsForNat
<1>2. Unread \in Nat /\ Depth \in Nat
  BY LinkAssumption, FifoAssumption
<1>3. \A u \in Nat, a \in Nat, b \in Nat : a <= b => u * a <= u * b /\ u * a \in Nat /\ u * b \in Nat
  OBVIOUS
<1>4. Unread * WordsFor(m) <= Unread * WordsFor(n) /\ Unread * WordsFor(m) \in Nat
      /\ Unread * WordsFor(n) \in Nat
  BY <1>1, <1>2, <1>3
<1> QED BY <1>2, <1>4 DEF Fits

\* The flags of the transmitter.
LEMMA TxFlagsKept ==
  ASSUME NEW push, NEW cnt, NEW tick, Edge(push, cnt, tick)
  PROVE  TxFlags'
<1>0. /\ TxFlags
      /\ Shifting(FALSE, tick) \/ StartByte(FALSE) \/ NextFrame(FALSE)
      /\ SCNZ \in BOOLEAN /\ SendCount \in Nat /\ BytePointer \in 0 .. W - 1
  BY EdgeIs
<1>1. CASE Shifting(FALSE, tick)
  BY <1>0, <1>1 DEF TxFlags, Shifting
<1>2. CASE StartByte(FALSE)
  <2>1. /\ Go' = TRUE /\ SCNZ' = TRUE /\ FDGo' = FALSE /\ PopSC' = FALSE
        /\ BytePointer' = (BytePointer + 1) % W /\ SendCount' = SendCount - 1 /\ SendCount # 0
    BY <1>2 DEF StartByte
  <2>2. Fits(BytePointer + SendCount)
    <3>1. CASE SCNZ
      BY <1>0, <3>1 DEF TxFlags
    <3>2. CASE ~SCNZ
      <4>1. Waiting = Cat(One(SendCount), Queued) /\ IsSeq(Queued)
        BY <1>2, <3>2, FrameMoves, CountsSent DEF Begun
      <4>2. \A k \in 1 .. Len(Waiting) : Fits(Waiting[k])
        BY FramesUnderWay DEF Edge
      <4>3. IsSeq(Waiting) /\ Head(Waiting) = SendCount /\ Waiting # <<>>
        <5>1. IsSeq(Waiting)
          BY CountsSent, SeqIs
        <5> QED BY <4>1, <5>1, CatHead
      <4>4. Waiting[1] = SendCount /\ 1 \in 1 .. Len(Waiting)
        <5>1. Len(Waiting) # 0 /\ Head(Waiting) = Waiting[1] /\ Len(Waiting) \in Nat
          BY <4>3, LenIs DEF IsSeq
        <5> QED BY <4>3, <5>1
      <4>5. Fits(SendCount)
        BY <4>2, <4>4
      <4>6. BytePointer = 0 /\ 0 + SendCount = SendCount
        BY <1>0, <3>2 DEF TxFlags
      <4> QED BY <4>5, <4>6
    <3> QED BY <3>1, <3>2
  <2>3. Fits(BytePointer' + SendCount')
    <3> DEFINE m == ((BytePointer + 1) % W) + (SendCount - 1)
               n == BytePointer + SendCount
    <3>1. m \in Nat /\ (m = n \/ m + W = n)
      BY <1>0, <2>1, PieceIs
    <3>2. n \in Nat /\ W \in Nat
      BY <1>0, FifoAssumption
    <3> HIDE DEF m, n
    <3>3. m <= n
      BY <3>1, <3>2
    <3>4. Fits(n)
      BY <2>2 DEF n
    <3>5. Fits(m)
      BY <3>1, <3>2, <3>3, <3>4, FitsLess
    <3> QED BY <2>1, <3>5 DEF m
  <2> QED BY <2>1, <2>3 DEF TxFlags
<1>3. CASE NextFrame(FALSE)
  <2>1. /\ SendCount' = (IF counts # <<>> THEN Head(counts) ELSE 0)
        /\ PopSC' = (counts # <<>>) /\ FDGo' = SCNZ /\ Go' = FALSE /\ SCNZ' = FALSE
        /\ ReadData' = (SCNZ /\ BytePointer # 0) /\ BytePointer' = 0
        /\ counts # <<>> => Head(counts) \in Nat \ {0} /\ Head(counts') = Head(counts)
                            /\ counts' # <<>>
    BY <1>3, NextFrameIs
  <2> QED BY <2>1 DEF TxFlags
<1> QED BY <1>0, <1>1, <1>2, <1>3

\* The line.
LEMMA LineInvKept ==
  ASSUME NEW push, NEW cnt, NEW tick, Edge(push, cnt, tick)
  PROVE  LineInv'
<1>0. /\ TxFlags /\ LineInv
      /\ Shifting(FALSE, tick) \/ StartByte(FALSE) \/ NextFrame(FALSE)
      /\ SCNZ \in BOOLEAN /\ Go \in BOOLEAN /\ FDGo \in BOOLEAN
      /\ tick => ~ReadData /\ ~PopSC /\ (Go => wire = <<>>) /\ (FDGo => ~RFDGo /\ ~RPushRC)
      /\ wire' = IF ~Go /\ Go' THEN One(SReg') ELSE wire
  BY EdgeIs
<1>1. RFDGo' = RFDGo /\ RPushRC' = RPushRC
  BY EdgeIs, RxKept DEF Edge
<1>2. CASE Shifting(FALSE, tick)
  <2>1. SCNZ' = SCNZ /\ (Go' <=> Go /\ ~tick) /\ (FDGo' <=> FDGo /\ ~tick) /\ wire' = wire
    BY <1>0, <1>2 DEF Shifting
  <2> QED BY <1>0, <1>1, <2>1 DEF LineInv, TxFlags
<1>3. CASE StartByte(FALSE)
  <2>1. SCNZ' /\ Go' /\ ~FDGo' /\ ~Go /\ ~FDGo
    BY <1>3 DEF StartByte
  <2>2. wire' = One(SReg') /\ One(SReg')[1] = SReg' /\ One(SReg') # <<>>
    BY <1>0, <2>1, EmptyIs
  <2> QED BY <1>0, <1>1, <2>1, <2>2 DEF LineInv
<1>4. CASE NextFrame(FALSE)
  <2>1. ~Go /\ ~FDGo /\ FDGo' = SCNZ /\ Go' = FALSE /\ SCNZ' = FALSE
    BY <1>4, NextFrameIs
  <2>2. wire' = wire /\ wire = <<>>
    BY <1>0, <2>1 DEF LineInv
  <2> QED BY <1>0, <1>1, <2>1, <2>2 DEF LineInv
<1> QED BY <1>0, <1>2, <1>3, <1>4

\* The driver.
LEMMA DriverKept ==
  ASSUME NEW push, NEW cnt, NEW tick, Edge(push, cnt, tick)
  PROVE  Driver'
<1>0. /\ TxFlags /\ Driver
      /\ Shifting(FALSE, tick) \/ StartByte(FALSE) \/ NextFrame(FALSE)
      /\ SCNZ \in BOOLEAN /\ PopSC \in BOOLEAN /\ Background(push, cnt, FALSE)
  BY EdgeIs
<1>1. mode' = mode
  BY <1>0 DEF Background
<1>2. CASE ~mode.auto
  <2>1. mode.bit /\ DriveDelayCount = 0 /\ DriveEnable /\ ~WaitingForDrive
    BY <1>0, <1>2 DEF Driver, DriveEnable, WaitingForDrive
  <2>2. DriveDelayCount' = DriveDelayCount
    BY <1>0, <2>1 DEF Background
  <2> QED BY <1>1, <1>2, <2>1, <2>2 DEF Driver
<1>3. CASE mode.auto
  <2>0. /\ mode.delay <= 1
        /\ SendCount # 0 \/ SCNZ => DriveDelayCount = 0
        /\ counts # <<>> => Len(counts) = 1 /\ ~SCNZ /\ ~FDGo
        /\ SendCount # 0 => SCNZ \/ PopSC
        /\ counts # <<>> /\ SendCount # 0 => PopSC
    BY <1>0, <1>3 DEF Driver
  <2>1. counts' = Cat(Queued, cnt) /\ IsSeq(Queued) /\ IsSeq(cnt) /\ counts \in Seq(Nat)
    BY CountsSent, EdgeIs
  <2>2. cnt # <<>> => Len(cnt) = 1 /\ ~Go /\ ~FDGo /\ counts = <<>> /\ ~SCNZ
    BY <1>3 DEF Edge, Busy
  <2>3. Queued = IF PopSC THEN <<>> ELSE counts
    <3>0. CASE PopSC /\ counts = <<>>
      BY <3>0 DEF Queued
    <3>1. CASE PopSC /\ counts # <<>>
      <4>1. counts # <<>> /\ IsSeq(counts) /\ Len(counts) = 1
        BY <1>0, <2>0, <2>1, <3>1, SeqIs DEF TxFlags
      <4>2. IsSeq(Tail(counts)) /\ Len(Tail(counts)) = 0
        BY <4>1, LenIs
      <4>3. Tail(counts) = <<>>
        BY <4>2, LenIs
      <4> QED BY <3>1, <4>1, <4>3 DEF Queued
    <3>2. CASE ~PopSC
      BY <3>2 DEF Queued
    <3> QED BY <3>0, <3>1, <3>2
  <2>4. cnt = <<>> => counts' = IF PopSC THEN <<>> ELSE counts
    <3>1. Cat(Queued, <<>>) = Queued
      BY <2>1, ConcatIs
    <3> QED BY <2>1, <2>3, <3>1
  <2>5. cnt # <<>> => counts' = cnt
    <3>1. cnt # <<>> => Queued = <<>>
      BY <2>2, <2>3
    <3>2. Cat(<<>>, cnt) = cnt
      BY <2>1, ConcatIs
    <3> QED BY <2>1, <3>1, <3>2
  <2>6. SendCount' # 0 \/ SCNZ' => DriveDelayCount' = 0
    <3>1. CASE SendCount # 0 \/ SCNZ
      <4>1. DriveEnable /\ ~WaitingForDrive /\ DriveDelayCount = 0
        BY <2>0, <3>1, NotHeld
      <4> QED BY <1>0, <4>1 DEF Background
    <3>2. CASE ~(SendCount # 0 \/ SCNZ)
      <4>1. CASE Shifting(FALSE, tick)
        BY <3>2, <4>1 DEF Shifting
      <4>2. CASE StartByte(FALSE)
        BY <3>2, <4>2 DEF StartByte
      <4>3. CASE NextFrame(FALSE)
        <5>1. SendCount' = (IF counts # <<>> THEN Head(counts) ELSE 0) /\ SCNZ' = FALSE
          BY <4>3, NextFrameIs
        <5>2. CASE counts = <<>>
          BY <5>1, <5>2
        <5>3. CASE counts # <<>>
          <6>1. DriveEnable
            BY <1>3, <5>3 DEF DriveEnable
          <6>2. DriveDelayCount \in 0 .. 1
            <7>1. DriveDelayCount \in 0 .. mode.delay /\ mode.delay \in Nat
              BY DEF Edge, TypeInv, Counts, LinkTypeOK, TxTypeOK
            <7> QED BY <2>0, <7>1
          <6>3. DriveDelayCount' = IF DriveDelayCount # 0 THEN DriveDelayCount - 1 ELSE DriveDelayCount
            BY <1>0, <6>1 DEF Background, WaitingForDrive
          <6> QED BY <6>2, <6>3
        <5> QED BY <5>2, <5>3
      <4> QED BY <1>0, <4>1, <4>2, <4>3
    <3> QED BY <3>1, <3>2
  <2>7. /\ counts' # <<>> => Len(counts') = 1 /\ ~SCNZ' /\ ~FDGo'
        /\ SendCount' # 0 => SCNZ' \/ PopSC'
        /\ counts' # <<>> /\ SendCount' # 0 => PopSC'
    <3>1. CASE Shifting(FALSE, tick)
      <4>1. /\ SendCount' = SendCount /\ SCNZ' = SCNZ /\ (FDGo' => FDGo) /\ (Go \/ FDGo)
        BY <1>0, <3>1 DEF Shifting
      <4>2. cnt = <<>> /\ ~PopSC
        BY <1>0, <2>0, <2>2, <4>1 DEF TxFlags, Cleared
      <4>3. counts' = counts
        BY <2>4, <4>2
      <4> QED BY <2>0, <4>1, <4>2, <4>3
    <3>2. CASE StartByte(FALSE)
      <4>1. SCNZ' /\ ~FDGo' /\ SendCount # 0
        BY <3>2 DEF StartByte
      <4>2. cnt = <<>>
        BY <1>0, <2>0, <2>2, <4>1 DEF TxFlags, Cleared
      <4>3. counts' = <<>>
        BY <2>0, <2>4, <4>1, <4>2
      <4> QED BY <4>1, <4>3
    <3>3. CASE NextFrame(FALSE)
      <4>1. /\ SendCount' = (IF counts # <<>> THEN Head(counts) ELSE 0) /\ (PopSC => counts = <<>>)
            /\ PopSC' = (counts # <<>>) /\ FDGo' = SCNZ /\ SCNZ' = FALSE
        BY <3>3, NextFrameIs
      <4>2. CASE cnt = <<>>
        <5>1. counts' = counts
          BY <2>4, <4>1, <4>2
        <5> QED BY <2>0, <4>1, <5>1
      <4>3. CASE cnt # <<>>
        <5>1. counts' = cnt /\ Len(cnt) = 1 /\ counts = <<>> /\ ~SCNZ
          BY <2>2, <2>5, <4>3
        <5> QED BY <4>1, <5>1
      <4> QED BY <4>2, <4>3
    <3> QED BY <1>0, <3>1, <3>2, <3>3
  <2>8. Patient
    BY <1>0, <1>3 DEF Driver
  <2> QED BY <1>1, <1>3, <2>0, <2>6, <2>7, <2>8 DEF Driver
<1> QED BY <1>2, <1>3

-----------------------------------------------------------------------------
(***************************************************************************)
(* The steps of the transmitter.                                           *)
(***************************************************************************)

LEMMA SameAt ==
  ASSUME NEW a \in Nat, NEW b \in Nat, Same(a, b), NEW j \in Nat \ {0}
  PROVE  (a + j - 1) % Depth = (b + j - 1) % Depth
<1>1. j - 1 \in Nat /\ a + (j - 1) = a + j - 1 /\ b + (j - 1) = b + j - 1
  OBVIOUS
<1>2. Same(a + (j - 1), b + (j - 1))
  BY <1>1, SameAdd
<1> QED BY <1>1, <1>2 DEF Same

\* The part of the invariant that every edge of the transmitter keeps.
LEMMA EdgeKeeps ==
  ASSUME NEW push, NEW cnt, NEW tick, Edge(push, cnt, tick), Sender', Room'
  PROVE  LinkInv'
<1>1. TxFlags' /\ LineInv' /\ Driver'
  BY TxFlagsKept, LineInvKept, DriverKept
<1>2. UNCHANGED <<rxVars, reading, words>> /\ LinkInv
  BY EdgeIs DEF Edge
<1>3. rbuffram' = rbuffram /\ RxFlags' = RxFlags
  BY <1>2, RxKept
<1>4. Background(push, cnt, FALSE) /\ DOMAIN buffram = 0 .. Depth - 1
  BY <1>2, EdgeIs DEF LinkInv
<1>5. DOMAIN buffram' = 0 .. Depth - 1
  BY <1>4 DEF Background
<1>6. Reads(reading', words')
  BY <1>2 DEF LinkInv
<1> QED BY <1>1, <1>2, <1>3, <1>5, <1>6 DEF LinkInv

\* Where the next word goes, after the frames that have been counted.
LEMMA EndMoved ==
  ASSUME NEW push, NEW cnt, NEW tick, Edge(push, cnt, tick)
  PROVE  /\ TxEnd' = NextByte' + Current' + WordsIn(Waiting') /\ TxEnd' \in Nat /\ TxEnd \in Nat
         /\ TxEnd = NextByte + Current + WordsIn(Waiting)
         /\ NextByte + Current + WordsIn(Cat(Waiting, cnt)) \in Nat
         /\ Same(TxEnd', NextByte + Current + WordsIn(Cat(Waiting, cnt)))
         /\ Current' + WordsIn(Waiting') <= Current + WordsIn(Cat(Waiting, cnt))
<1>1. /\ Same(NextByte' + Current' + WordsIn(Waiting'), NextByte + Current + WordsIn(Cat(Waiting, cnt)))
      /\ Current' + WordsIn(Waiting') <= Current + WordsIn(Cat(Waiting, cnt))
  BY Moves, KeptSends, BegunSends
<1>2. /\ TxEnd' = NextByte' + Current' + WordsIn(Waiting') /\ TxEnd = NextByte + Current + WordsIn(Waiting)
  BY DEF TxEnd
<1>3. NextByte' \in Nat /\ Current' \in Nat /\ WordsIn(Waiting') \in Nat /\ WordsIn(Cat(Waiting, cnt)) \in Nat
  BY EdgeKinds
<1>4. NextByte \in Nat /\ Current \in Nat
  BY EdgeIs
<1>5. WordsIn(Waiting) \in Nat
  BY CountsSent, OffsetsAre
<1>6. NextByte' + Current' + WordsIn(Waiting') \in Nat
  BY <1>3, AddNat, Zenon
<1>7. NextByte + Current + WordsIn(Waiting) \in Nat /\ NextByte + Current + WordsIn(Cat(Waiting, cnt)) \in Nat
  BY <1>3, <1>4, <1>5, AddNat, Zenon
<1> QED BY <1>1, <1>2, <1>6, <1>7

\* With no count pushed the frames under way are the same.
LEMMA SendsSame ==
  ASSUME NEW push, NEW tick, Edge(push, <<>>, tick),
         Agree(buffram, NextByte', buffram', NextByte', Current' + WordsIn(Waiting'))
  PROVE  Queue' = Queue /\ IsSeq(Queue) /\ Cat(Waiting, <<>>) = Waiting
<1> DEFINE cnt == <<>>
<1>1. Edge(push, cnt, tick)
  OBVIOUS
<1>2. Cat(Waiting, <<>>) = Waiting
  <2>1. IsSeq(Waiting)
    <3>1. Waiting \in Seq(Nat)
      BY Kinds DEF Edge
    <3> QED BY <3>1, SeqIs
  <2> QED BY <2>1, ConcatIs
<1> HIDE DEF cnt
<1>3. /\ Queue' = Cat(RxThere, Sending(cnt))
      /\ Queue = Cat(RxThere, Cat(Whole(All), Unsent)) /\ IsSeq(Queue)
      /\ Unsent = FramesAt(buffram, NextByte + Current, Waiting)
  BY <1>1, TxOutcome
<1> QED BY <1>2, <1>3 DEF Sending, cnt

\* A step of the transmitter moves what is under way from the buffer to the line.
LEMMA TxQuietStep ==
  ASSUME TypeInv, LinkInv, TypeInv', NEW tick, TxQuiet(tick)
  PROVE  LinkInv' /\ Queue' = Queue /\ last' = last
<1> DEFINE cnt == <<>>
           push == <<>>
<1>0. Edge(push, cnt, tick) /\ UNCHANGED <<todo, frame>>
  <2>1. TxStep(<<>>, <<>>, FALSE, tick)
        /\ UNCHANGED <<todo, frame>>
    BY DEF TxQuiet
  <2>2. <<>> \in Seq(Nat)
    OBVIOUS
  <2>3. Edge(<<>>, <<>>, tick)
    BY <2>1, <2>2, Zenon DEF Edge
  <2> QED BY <2>1, <2>3
<1>1. buffram' = buffram /\ InAdd' = InAdd
  <2>1. Background(<<>>, <<>>, FALSE) /\ InAdd \in 0 .. Depth - 1
    BY <1>0, EdgeIs, Kinds DEF Edge
  <2>2. (InAdd + Len(<<>>)) % Depth = InAdd
    BY <2>1, FifoAssumption
  <2> QED BY <2>1, <2>2 DEF Background
<1>2. Agree(buffram, NextByte', buffram', NextByte', Current' + WordsIn(Waiting'))
  BY <1>1 DEF Agree
<1>3. Queue' = Queue /\ IsSeq(Queue) /\ Cat(Waiting, cnt) = Waiting
  BY <1>0, <1>2, SendsSame
<1> HIDE DEF cnt, push
<1>4. TxEnd' \in Nat /\ TxEnd \in Nat /\ Same(TxEnd', TxEnd)
  <2>1. Same(TxEnd', NextByte + Current + WordsIn(Cat(Waiting, cnt)))
        /\ TxEnd = NextByte + Current + WordsIn(Waiting) /\ TxEnd' \in Nat /\ TxEnd \in Nat
    BY <1>0, EndMoved
  <2> QED BY <1>3, <2>1
<1>5. Sender'
  <2>1. Sender
    BY DEF LinkInv, TxQuiet
  <2>2. Pushed' = Pushed /\ Pushed \in Nat
    BY <1>0, <2>1 DEF Pushed, Sender
  <2>3. \A j \in 1 .. Pushed : (TxEnd' + j - 1) % Depth = (TxEnd + j - 1) % Depth
    <3>1. \A j \in 1 .. Pushed : j \in Nat \ {0}
      BY <2>2
    <3> QED BY <1>4, <3>1, SameAt
  <2>4. Same(TxEnd' + Pushed, TxEnd + Pushed)
    BY <1>4, <2>2, SameAdd
  <2>5. Same(InAdd, TxEnd' + Pushed)
    BY <2>1, <2>4 DEF Sender, Same
  <2>6. \A j \in 1 .. Pushed : buffram'[(TxEnd' + j - 1) % Depth] = Packed(frame)[j]
    BY <1>1, <2>1, <2>3 DEF Sender
  <2> QED BY <1>0, <1>1, <2>1, <2>2, <2>5, <2>6 DEF Sender
<1>6. Room'
  <2>1. Len(Queue) <= Len(Queue) /\ AllIn(Queue, Frames)
    BY <1>3 DEF IsSeq, LinkInv, Room
  <2> QED BY <1>0, <1>3, <2>1, RoomKept
<1> QED BY <1>0, <1>3, <1>5, <1>6, EdgeKeeps, EdgeIs

LEMMA BelowIs ==
  ASSUME NEW a \in Nat, NEW p \in Nat, NEW c \in Nat, NEW d \in Nat, a <= c, c + p < d
  PROVE  a + p \in Nat /\ a + p < d /\ a <= a + p /\ p < d
  OBVIOUS

\* A word put behind p others.
PutBehind(mem, next, e, p, v) ==
  /\ \A j \in 1 .. p : next[(e + j - 1) % Depth] = mem[(e + j - 1) % Depth]
  /\ next[(e + (p + 1) - 1) % Depth] = v

LEMMA WordPut ==
  ASSUME NEW mem, DOMAIN mem = 0 .. Depth - 1, NEW e \in Nat, NEW p \in Nat, p < Depth,
         NEW x \in 0 .. Depth - 1, Same(x, e + p), NEW v
  PROVE  PutBehind(mem, [mem EXCEPT ![x] = v], e, p, v)
<1>1. x = (e + p) % Depth
  <2>1. x % Depth = x
    BY FifoAssumption
  <2> QED BY <2>1 DEF Same
<1>2. e + (p + 1) - 1 = e + p
  OBVIOUS
<1>3. [mem EXCEPT ![x] = v][(e + (p + 1) - 1) % Depth] = v
  BY <1>1, <1>2
<1>4. ASSUME NEW j \in 1 .. p PROVE (e + j - 1) % Depth \in 0 .. Depth - 1 /\ (e + j - 1) % Depth # x
  <2>1. e + j - 1 \in Nat /\ p + 1 - j \in 1 .. Depth - 1 /\ (e + j - 1) + (p + 1 - j) = e + p
    BY FifoAssumption
  <2>2. (e + j - 1) % Depth \in 0 .. Depth - 1
    BY <2>1, SameMod
  <2>3. ((e + j - 1) + (p + 1 - j)) % Depth # (e + j - 1) % Depth
    BY <2>1, FifoAssumption, ModDiffers
  <2> QED BY <1>1, <2>1, <2>2, <2>3
<1> QED BY <1>3, <1>4 DEF PutBehind

\* What the sender has pushed when nothing happens to the frames but the end moves round.
LEMMA SenderIs ==
  ASSUME TypeInv, LinkInv
  PROVE  /\ Sender /\ Pushed \in Nat /\ IsSeq(todo)
         /\ todo # <<>> => /\ frame # <<>> /\ Len(todo) \in Nat \ {0}
                           /\ Pushed = WordsFor(Len(frame)) - Len(todo)
                           /\ Pushed + 1 <= WordsFor(Len(frame)) /\ WordsFor(Len(frame)) \in Nat
         /\ Current + WordsIn(Waiting) + Pushed <= Depth
         /\ todo # <<>> => Current + WordsIn(Waiting) + Pushed < Depth
<1>1. Sender /\ Pushed \in Nat /\ IsSeq(todo) /\ (frame = <<>> => todo = <<>>)
  BY DEF LinkInv, Sender
<1>2. Len(todo) \in Nat /\ (todo = <<>> <=> Len(todo) = 0)
  BY <1>1, LenIs DEF IsSeq
<1>3. /\ WordsIn(Waiting) \in Nat /\ Current \in Nat
      /\ Current + WordsIn(Waiting) <= Depth
      /\ frame # <<>> => /\ WordsFor(Len(frame)) \in Nat /\ Len(frame) \in Nat
                         /\ Current + WordsIn(Waiting) + WordsFor(Len(frame)) <= Depth
  BY TxRoom
<1>4. CASE frame = <<>>
  <2>1. Pushed = 0 /\ todo = <<>>
    BY <1>1, <1>4 DEF Pushed
  <2> QED BY <1>1, <1>3, <2>1
<1>5. CASE frame # <<>>
  <2>1. Pushed = WordsFor(Len(frame)) - Len(todo)
    BY <1>5 DEF Pushed
  <2> QED BY <1>1, <1>2, <1>3, <1>5, <2>1, FifoAssumption
<1> QED BY <1>4, <1>5

\* A word that is pushed goes behind the frames that wait.
LEMMA PushWordStep ==
  ASSUME TypeInv, LinkInv, TypeInv', NEW tick, PushWord(tick)
  PROVE  LinkInv' /\ Queue' = Queue /\ last' = last
<1> DEFINE cnt == <<>>
           push == One(Head(todo))
           n == Current' + WordsIn(Waiting')
           w == Head(todo)
<1>0. Edge(push, cnt, tick) /\ frame' = frame /\ todo' = Tail(todo) /\ todo # <<>>
  <2>1. TxStep(push, <<>>, FALSE, tick)
        /\ frame' = frame /\ todo' = Tail(todo) /\ todo # <<>>
    BY DEF PushWord, One
  <2>2. <<>> \in Seq(Nat)
    OBVIOUS
  <2> HIDE DEF push
  <2>3. Edge(push, <<>>, tick)
    BY <2>1, <2>2, Zenon DEF Edge
  <2> QED BY <2>1, <2>3
<1>1. buffram' = [buffram EXCEPT ![InAdd] = w] /\ InAdd' = (InAdd + 1) % Depth
      /\ DOMAIN buffram = 0 .. Depth - 1 /\ InAdd \in 0 .. Depth - 1
  <2>1. Background(push, cnt, FALSE) /\ DOMAIN buffram = 0 .. Depth - 1 /\ InAdd \in 0 .. Depth - 1
    BY <1>0, EdgeIs, Kinds DEF Edge, LinkInv
  <2>2. push # <<>> /\ push[1] = w /\ Len(push) = 1
    BY EmptyIs
  <2> HIDE DEF push, w
  <2> QED BY <2>1, <2>2 DEF Background
<1>2. /\ TxEnd' = NextByte' + n /\ TxEnd' \in Nat /\ TxEnd \in Nat
      /\ NextByte' \in Nat /\ n \in Nat
      /\ Same(TxEnd', TxEnd) /\ n <= Current + WordsIn(Waiting)
      /\ Current + WordsIn(Waiting) \in Nat
  <2>1. Cat(Waiting, cnt) = Waiting
    <3>1. IsSeq(Waiting)
      BY <1>0, CountsSent, SeqIs
    <3> QED BY <3>1, ConcatIs
  <2>2. /\ NextByte' \in Nat /\ Current' \in Nat /\ WordsIn(Waiting') \in Nat
    BY <1>0, EdgeKinds
  <2>3. Current \in Nat /\ WordsIn(Waiting) \in Nat
    BY <1>0, TxRoom DEF Edge
  <2> HIDE DEF cnt, push
  <2>4. /\ TxEnd' = NextByte' + Current' + WordsIn(Waiting') /\ TxEnd' \in Nat /\ TxEnd \in Nat
        /\ TxEnd = NextByte + Current + WordsIn(Waiting)
        /\ Same(TxEnd', NextByte + Current + WordsIn(Waiting))
        /\ n <= Current + WordsIn(Waiting)
    BY <1>0, <2>1, EndMoved
  <2>5. n \in Nat /\ Current + WordsIn(Waiting) \in Nat
    BY <2>2, <2>3, AddNat, Zenon
  <2>6. NextByte' + Current' + WordsIn(Waiting') = NextByte' + n
    BY <2>2
  <2> HIDE DEF n
  <2> QED BY <2>2, <2>4, <2>5, <2>6
<1> HIDE DEF n, w
<1>3. /\ Sender /\ Pushed \in Nat /\ IsSeq(todo)
      /\ frame # <<>> /\ Len(todo) \in Nat \ {0}
      /\ Pushed = WordsFor(Len(frame)) - Len(todo)
      /\ WordsFor(Len(frame)) \in Nat
      /\ Current + WordsIn(Waiting) + Pushed < Depth
  BY <1>0, SenderIs DEF Edge
<1>4. Same(InAdd, TxEnd' + Pushed)
  <2>1. Same(TxEnd' + Pushed, TxEnd + Pushed)
    BY <1>2, <1>3, SameAdd
  <2> QED BY <1>3, <2>1 DEF Sender, Same
<1>5. n + Pushed \in Nat /\ n + Pushed < Depth /\ n <= n + Pushed /\ Pushed < Depth
      /\ TxEnd' + Pushed = NextByte' + (n + Pushed)
  <2>1. Depth \in Nat
    BY FifoAssumption
  <2>2. n + Pushed \in Nat /\ n + Pushed < Depth /\ n <= n + Pushed /\ Pushed < Depth
    BY <1>2, <1>3, <2>1, BelowIs, Zenon
  <2> DEFINE e == NextByte'
  <2>3. e \in Nat
    BY <1>2
  <2> HIDE DEF e
  <2>4. (e + n) + Pushed = e + (n + Pushed)
    BY <1>2, <1>3, <2>3, AddAssoc
  <2> QED BY <1>2, <2>2, <2>4, Zenon DEF e
<1>6. Agree(buffram, NextByte', buffram', NextByte', n)
  <2>1. Same(InAdd, NextByte' + (n + Pushed)) /\ Same(NextByte', NextByte')
    BY <1>4, <1>5 DEF Same
  <2> QED BY <1>1, <1>2, <1>5, <2>1, AgreePut
<1>7. Queue' = Queue /\ IsSeq(Queue)
  BY <1>0, <1>6, SendsSame DEF n
<1>8. Pushed' = Pushed + 1 /\ IsSeq(todo') /\ Len(todo') = Len(todo) - 1
      /\ w = todo[1] /\ \A i \in 1 .. Len(todo') : todo'[i] = todo[i + 1]
  <2>1. IsSeq(Tail(todo)) /\ Len(Tail(todo)) = Len(todo) - 1 /\ Head(todo) = todo[1]
        /\ \A i \in 1 .. Len(todo) - 1 : Tail(todo)[i] = todo[i + 1]
    BY <1>0, <1>3, LenIs
  <2>2. Pushed' = WordsFor(Len(frame)) - (Len(todo) - 1)
    BY <1>0, <1>3, <2>1 DEF Pushed
  <2>3. WordsFor(Len(frame)) - (Len(todo) - 1) = WordsFor(Len(frame)) - Len(todo) + 1
    BY <1>3
  <2> QED BY <1>0, <1>3, <2>1, <2>2, <2>3 DEF w
<1>9. Sender'
  <2>1. \A j \in 1 .. Len(todo') : todo'[j] = Packed(frame')[Pushed' + j]
    <3> SUFFICES ASSUME NEW j \in 1 .. Len(todo') PROVE todo'[j] = Packed(frame)[(Pushed + 1) + j]
      BY <1>0, <1>8
    <3>1. j + 1 \in 1 .. Len(todo) /\ Pushed + (j + 1) = (Pushed + 1) + j
      BY <1>3, <1>8
    <3>2. todo[j + 1] = Packed(frame)[Pushed + (j + 1)]
      BY <1>3, <3>1 DEF Sender
    <3> QED BY <1>8, <3>1, <3>2
  <2>2. w = Packed(frame)[Pushed + 1]
    <3>1. 1 \in 1 .. Len(todo)
      BY <1>3
    <3> QED BY <1>3, <1>8, <3>1 DEF Sender
  <2>3. /\ \A j \in 1 .. Pushed : buffram'[(TxEnd' + j - 1) % Depth] = buffram[(TxEnd' + j - 1) % Depth]
        /\ buffram'[(TxEnd' + (Pushed + 1) - 1) % Depth] = w
    <3> DEFINE e == TxEnd'
    <3>1. e \in Nat /\ Same(InAdd, e + Pushed)
      BY <1>2, <1>4
    <3> HIDE DEF e
    <3>2. PutBehind(buffram, [buffram EXCEPT ![InAdd] = w], e, Pushed, w)
      BY <1>1, <1>3, <1>5, <3>1, WordPut
    <3>3. PutBehind(buffram, buffram', e, Pushed, w)
      BY <1>1, <3>2
    <3> QED BY <3>3, Zenon DEF e, PutBehind
  <2>4. \A j \in 1 .. Pushed : (TxEnd' + j - 1) % Depth = (TxEnd + j - 1) % Depth
    <3>1. \A j \in 1 .. Pushed : j \in Nat \ {0}
      BY <1>3
    <3> QED BY <1>2, <3>1, SameAt
  <2>5. \A j \in 1 .. Pushed : buffram'[(TxEnd' + j - 1) % Depth] = Packed(frame)[j]
    BY <1>3, <2>3, <2>4 DEF Sender
  <2>6. \A j \in 1 .. Pushed' : buffram'[(TxEnd' + j - 1) % Depth] = Packed(frame')[j]
    <3>1. \A j \in 1 .. Pushed + 1 : j \in 1 .. Pushed \/ j = Pushed + 1
      BY <1>3
    <3> QED BY <1>0, <1>8, <2>2, <2>3, <2>5, <3>1
  <2>7. Same(InAdd', TxEnd' + Pushed')
    <3>1. InAdd \in Nat
      BY <1>1, FifoAssumption
    <3>2. Same(InAdd + 1, TxEnd' + Pushed + 1) /\ Same((InAdd + 1) % Depth, InAdd + 1)
      <4>1. TxEnd' + Pushed \in Nat
        BY <1>2, <1>3, AddNat, Zenon
      <4>2. InAdd + 1 \in Nat
        BY <3>1
      <4> QED BY <1>4, <3>1, <4>1, <4>2, SameAdd, SameMod
    <3>3. TxEnd' + Pushed + 1 = TxEnd' + (Pushed + 1)
      <4> DEFINE e == TxEnd'
      <4>1. e \in Nat
        BY <1>2
      <4> HIDE DEF e
      <4>2. e + Pushed + 1 = e + (Pushed + 1)
        BY <1>3, <4>1
      <4> QED BY <4>2, Zenon DEF e
    <3> QED BY <1>1, <1>8, <3>2, <3>3 DEF Same
  <2>8. Pushed' \in Nat /\ (frame' = <<>> => todo' = <<>>)
    BY <1>0, <1>3, <1>8
  <2> QED BY <1>8, <2>1, <2>6, <2>7, <2>8 DEF Sender
<1>10. Room'
  <2>1. Len(Queue) <= Len(Queue) /\ AllIn(Queue, Frames)
    BY <1>7 DEF IsSeq, LinkInv, Room
  <2> QED BY <1>0, <1>7, <2>1, RoomKept
<1> HIDE DEF cnt, push
<1> QED BY <1>0, <1>7, <1>9, <1>10, EdgeKeeps, EdgeIs

\* The words of a frame, and where its bytes are in them.
LEMMA PackedIs ==
  ASSUME NEW f \in Frames
  PROVE  /\ IsSeq(Packed(f)) /\ Len(Packed(f)) = WordsFor(Len(f)) /\ WordsFor(Len(f)) \in Nat \ {0}
         /\ \A i \in 1 .. Len(f) :
              /\ (i - 1) \div W + 1 \in 1 .. WordsFor(Len(f))
              /\ Packed(f)[(i - 1) \div W + 1][((i - 1) % W) + 1] = f[i]
<1> DEFINE n == Len(f)
<1>1. n \in Nat \ {0}
  BY FrameIs
<1> HIDE DEF n
<1>2. WordsFor(n) \in Nat \ {0} /\ \A i \in Nat : i < n => i \div W < WordsFor(n)
  BY <1>1, WordsForFacts, WordsForNat
<1>3. Packed(f) = [k \in 1 .. WordsFor(n) |->
        [i \in 1 .. W |-> IF (k - 1) * W + i <= n THEN f[(k - 1) * W + i] ELSE Pad]]
  BY DEF Packed, n
<1>4. IsSeq(Packed(f)) /\ Len(Packed(f)) = WordsFor(n)
  BY <1>2, <1>3 DEF IsSeq
<1>5. ASSUME NEW i \in 1 .. n
      PROVE  /\ (i - 1) \div W + 1 \in 1 .. WordsFor(n)
             /\ Packed(f)[(i - 1) \div W + 1][((i - 1) % W) + 1] = f[i]
  <2> DEFINE d == (i - 1) \div W
             r == (i - 1) % W
  <2>1. i - 1 \in Nat /\ i - 1 < n
    BY <1>1
  <2>2. d \in Nat /\ r \in 0 .. W - 1 /\ i - 1 = W * d + r /\ d < WordsFor(n)
    BY <1>2, <2>1, WordIs
  <2> HIDE DEF d, r
  <2>3. d + 1 \in 1 .. WordsFor(n) /\ r + 1 \in 1 .. W /\ (d + 1) - 1 = d
    BY <1>2, <2>2, FifoAssumption
  <2>4. d * W + (r + 1) = i
    <3>1. W \in Nat /\ d * W = W * d /\ W * d \in Nat
      BY <2>2, FifoAssumption
    <3> QED BY <2>2, <3>1
  <2>5. Packed(f)[d + 1][r + 1] = IF ((d + 1) - 1) * W + (r + 1) <= n THEN f[((d + 1) - 1) * W + (r + 1)] ELSE Pad
    BY <1>3, <2>3
  <2>6. i <= n
    BY <1>1
  <2>7. Packed(f)[d + 1][r + 1] = f[i]
    BY <2>3, <2>4, <2>5, <2>6
  <2> QED BY <2>3, <2>7 DEF d, r
<1> QED BY <1>2, <1>4, <1>5 DEF n

\* The words of a frame in a buffer are the frame.
LEMMA PackedBytes ==
  ASSUME NEW mem, NEW e \in Nat, NEW f \in Frames,
         \A j \in 1 .. WordsFor(Len(f)) : mem[(e + j - 1) % Depth] = Packed(f)[j]
  PROVE  BytesAt(mem, e, 0, Len(f)) = f
<1>1. IsSeq(f) /\ Len(f) \in Nat
  BY FrameIs
<1>2. ASSUME NEW i \in 1 .. Len(f)
      PROVE  mem[(e + (0 + i - 1) \div W) % Depth][((0 + i - 1) % W) + 1] = f[i]
  <2> DEFINE d == (i - 1) \div W
             r == (i - 1) % W
  <2>1. d + 1 \in 1 .. WordsFor(Len(f)) /\ Packed(f)[d + 1][r + 1] = f[i]
    BY PackedIs
  <2>2. d \in Nat
    <3>1. i - 1 \in Nat
      BY <1>1
    <3> QED BY <3>1, WordIs
  <2>3. 0 + i - 1 = i - 1
    BY <1>1
  <2> HIDE DEF d, r
  <2>4. e + (d + 1) - 1 = e + d
    BY <2>2
  <2>5. mem[(e + (d + 1) - 1) % Depth] = Packed(f)[d + 1]
    BY <2>1
  <2> QED BY <2>1, <2>3, <2>4, <2>5 DEF d, r
<1>3. BytesAt(mem, e, 0, Len(f)) = [i \in 1 .. Len(f) |-> f[i]]
  BY <1>2 DEF BytesAt
<1> QED BY <1>1, <1>3 DEF IsSeq

\* An edge without a word pushed.
LEMMA NoPush ==
  ASSUME NEW cnt, NEW tick, Edge(<<>>, cnt, tick)
  PROVE  /\ buffram' = buffram /\ InAdd' = InAdd
         /\ Agree(buffram, NextByte', buffram', NextByte', Current' + WordsIn(Waiting'))
<1>1. Background(<<>>, cnt, FALSE) /\ InAdd \in 0 .. Depth - 1
  BY EdgeIs, Kinds DEF Edge
<1>2. (InAdd + Len(<<>>)) % Depth = InAdd
  BY <1>1, FifoAssumption
<1>3. buffram' = buffram /\ InAdd' = InAdd
  BY <1>1, <1>2 DEF Background
<1> QED BY <1>3 DEF Agree

\* A frame that was chosen is not under way yet.
LEMMA ChooseFrameStep ==
  ASSUME TypeInv, LinkInv, TypeInv', NEW f \in Frames, ChooseFrame(f)
  PROVE  LinkInv' /\ Queue' = Queue /\ last' = last
<1>1. /\ frame = <<>> /\ Len(Queue) < Unread
      /\ frame' = f /\ todo' = Packed(f)
      /\ UNCHANGED <<txVars, rxVars, wire, reading, words, last>>
  BY DEF ChooseFrame
<1>2. UNCHANGED <<buffram, InAdd, OutAdd, counts, SCFIFOError, SendCount, BytePointer,
                  ReadData, PopSC, Go, FDGo, SCNZ, SReg, DriveDelayCount, mode>>
  BY <1>1 DEF txVars
<1>3. UNCHANGED <<rbuffram, RInAdd, ROutAdd, rcounts, RCFIFOError, RecvCount, RBytePointer,
                  RDataLatch, RPushData, RPushRC, RGo, RFDGo>>
  BY <1>1 DEF rxVars
<1>4. /\ rbuffram' = rbuffram /\ RxThere' = RxThere /\ Received' = Received /\ RxFlags' = RxFlags
  BY <1>1, RxKept
<1>5. NextByte' = NextByte /\ Current' = Current /\ Loaded' = Loaded /\ Queued' = Queued
  BY <1>2 DEF NextByte, Current, Loaded, Queued
<1>6. Waiting' = Waiting
  BY <1>5 DEF Waiting
<1>7. TxEnd' = TxEnd
  BY <1>5, <1>6 DEF TxEnd
<1>8. Queue' = Queue /\ IsSeq(Queue)
  <2>1. wire = <<>> \/ wire = One(wire[1])
    BY DEF LinkInv, LineInv
  <2>2. BeingRead' = BeingRead /\ FirstUnread' = FirstUnread
    BY <1>1, <1>3 DEF BeingRead, FirstUnread
  <2>3. ToCome' = ToCome /\ Unsent' = Unsent
    BY <1>2, <1>5 DEF ToCome, Unsent
  <2>4. OnTheLine' = OnTheLine
    BY <1>1, <1>4, <2>3 DEF OnTheLine
  <2>5. Queue' = Queue
    BY <1>3, <2>2, <2>3, <2>4 DEF Queue
  <2> QED BY <2>1, <2>5, QueueIs
<1>9. Driver' = Driver /\ TxFlags'
  <2>1. todo' # <<>>
    <3>1. IsSeq(Packed(f)) /\ Len(Packed(f)) = WordsFor(Len(f)) /\ WordsFor(Len(f)) \in Nat \ {0}
      BY PackedIs
    <3> QED BY <1>1, <3>1, LenIs
  <2>2. TxFlags
    BY DEF LinkInv
  <2> QED BY <1>2, <2>1, <2>2 DEF Driver, TxFlags, Cleared
<1>10. LineInv'
  BY <1>1, <1>2, <1>3 DEF LineInv, LinkInv
<1>11. Sender'
  <2>1. Sender /\ Pushed = 0
    BY <1>1 DEF LinkInv, Pushed
  <2>2. IsSeq(Packed(f)) /\ Len(Packed(f)) = WordsFor(Len(f)) /\ WordsFor(Len(f)) \in Nat \ {0} /\ f # <<>>
    BY PackedIs, FrameIs
  <2>3. Pushed' = 0
    <3>1. Pushed' = WordsFor(Len(f)) - Len(Packed(f))
      BY <1>1, <2>2 DEF Pushed
    <3> QED BY <2>2, <3>1
  <2>4. \A j \in 1 .. Len(Packed(f)) : 0 + j = j
    BY <2>2
  <2>5. Same(InAdd', TxEnd' + Pushed')
    BY <1>2, <1>7, <2>1, <2>3 DEF Sender, Same
  <2>6. \A j \in 1 .. 0 : FALSE
    OBVIOUS
  <2> QED BY <1>1, <2>2, <2>3, <2>4, <2>5, <2>6 DEF Sender
<1>12. Room'
  <2>1. Len(Queue) + 1 <= Unread
    BY <1>1, <1>8, LinkAssumption DEF IsSeq
  <2>2. AllIn(Queue, Frames)
    BY DEF LinkInv, Room
  <2>3. f # <<>>
    BY FrameIs
  <2> QED BY <1>1, <1>8, <2>1, <2>2, <2>3 DEF Room
<1> QED BY <1>1, <1>2, <1>4, <1>8, <1>9, <1>10, <1>11, <1>12 DEF LinkInv

\* The frame whose count is pushed is behind those that wait.
LEMMA PushCountStep ==
  ASSUME TypeInv, LinkInv, TypeInv', NEW tick, PushCount(tick)
  PROVE  LinkInv' /\ Channel!Send(frame) /\ frame \in Frames
<1> DEFINE n == Len(frame)
           cnt == One(n)
           b == NextByte + Current
           U == FramesAt(buffram, b, Waiting)
<1>0. /\ frame # <<>> /\ todo = <<>> /\ frame' = <<>> /\ todo' = todo
      /\ frame \in Frames /\ n \in Nat \ {0}
  <2>1. frame # <<>> /\ frame \in Frames
    BY DEF PushCount, TypeInv, Counts
  <2> QED BY <2>1, FrameIs DEF PushCount
<1> HIDE DEF n
<1>1. Edge(<<>>, cnt, tick)
  <2>1. /\ TxStep(<<>>, cnt, FALSE, tick)
        /\ Len(counts) < Slots /\ (mode.auto => ~Busy) /\ (PopSC => counts # <<>>)
    BY <1>0 DEF PushCount, One, n, LinkInv, Driver, TxFlags, Cleared
  <2>2. cnt \in Seq(Nat) /\ Len(cnt) = 1
    BY <1>0, OneTyped
  <2> HIDE DEF cnt
  <2> QED BY <2>1, <2>2, Zenon DEF Edge
<1>2. /\ buffram' = buffram /\ InAdd' = InAdd
      /\ Agree(buffram, NextByte', buffram', NextByte', Current' + WordsIn(Waiting'))
  <2> HIDE DEF cnt
  <2> QED BY <1>1, NoPush
<1>3. /\ Queue' = Cat(RxThere, Sending(cnt)) /\ IsSeq(Queue')
      /\ Queue = Cat(RxThere, Cat(Whole(All), U)) /\ IsSeq(RxThere) /\ IsSeq(Whole(All))
      /\ IsSeq(U) /\ IsSeq(Queue)
      /\ Sending(cnt) = Cat(Whole(All), FramesAt(buffram, b, Cat(Waiting, cnt)))
  <2> HIDE DEF cnt
  <2> QED BY <1>1, <1>2, TxOutcome DEF Sending
<1>4. b \in Nat /\ NextByte \in Nat /\ Current \in Nat /\ Waiting \in Seq(Nat) /\ WordsIn(Waiting) \in Nat
      /\ WordsFor(n) \in Nat /\ TxEnd = b + WordsIn(Waiting) /\ TxEnd \in Nat
  <2>1. NextByte \in Nat /\ Current \in Nat /\ Waiting \in Seq(Nat)
    BY <1>1, EdgeIs, CountsSent
  <2>2. WordsIn(Waiting) \in Nat /\ WordsFor(n) \in Nat
    BY <1>0, <2>1, OffsetsAre, WordsForNat
  <2>3. TxEnd = b + WordsIn(Waiting)
    BY DEF TxEnd
  <2>4. b \in Nat /\ b + WordsIn(Waiting) \in Nat
    BY <2>1, <2>2, AddNat, Zenon
  <2> QED BY <2>1, <2>2, <2>3, <2>4, Zenon
<1>5. Sender /\ Pushed = WordsFor(n)
  <2>1. Len(todo) = 0
    BY <1>0
  <2>2. WordsFor(n) - 0 = WordsFor(n)
    BY <1>4
  <2> QED BY <1>0, <2>1, <2>2 DEF LinkInv, Pushed, n
<1>6. BytesAt(buffram, TxEnd, 0, n) = frame
  <2>1. \A j \in 1 .. WordsFor(Len(frame)) : buffram[(TxEnd + j - 1) % Depth] = Packed(frame)[j]
    BY <1>5 DEF Sender, n
  <2>2. frame \in Frames /\ TxEnd \in Nat
    BY <1>0, <1>4
  <2>3. BytesAt(buffram, TxEnd, 0, Len(frame)) = frame
    BY <2>1, <2>2, PackedBytes, Zenon
  <2> QED BY <2>3 DEF n
<1> HIDE DEF b, U
<1>7. /\ FramesAt(buffram, b, Cat(Waiting, cnt)) = Cat(U, One(frame))
      /\ WordsIn(Cat(Waiting, cnt)) = WordsIn(Waiting) + WordsFor(n)
  <2>1. /\ FramesAt(buffram, b, Cat(Waiting, One(n))) =
             Cat(FramesAt(buffram, b, Waiting), One(BytesAt(buffram, b + WordsIn(Waiting), 0, n)))
        /\ WordsIn(Cat(Waiting, One(n))) = WordsIn(Waiting) + WordsFor(n)
    <3>1. n \in Nat /\ b \in Nat /\ Waiting \in Seq(Nat)
      BY <1>0, <1>4
    <3> QED BY <3>1, FramesNext
  <2> QED BY <1>4, <1>6, <2>1 DEF U
<1>8. Queue' = Cat(Queue, One(frame))
  <2>1. IsSeq(One(frame))
    BY EmptyIs
  <2>2. Cat(Whole(All), Cat(U, One(frame))) = Cat(Cat(Whole(All), U), One(frame))
    BY <1>3, <2>1, ConcatAssoc
  <2>3. IsSeq(Cat(Whole(All), U))
    BY <1>3, ConcatIs
  <2>4. Cat(RxThere, Cat(Cat(Whole(All), U), One(frame))) = Cat(Cat(RxThere, Cat(Whole(All), U)), One(frame))
    BY <1>3, <2>1, <2>3, ConcatAssoc
  <2> QED BY <1>3, <1>7, <2>2, <2>4
<1>9. Channel!Send(frame)
  <2>1. last' = last /\ clears' = clears
    BY <1>1, EdgeIs DEF PushCount
  <2>2. Queue' = Append(Queue, frame)
    BY <1>3, <1>8, AppendIs
  <2> QED BY <2>1, <2>2 DEF Channel!Send
<1>10. Room'
  <2>1. Len(Queue) + 1 <= Unread /\ AllIn(Queue, Frames)
    BY <1>0 DEF LinkInv, Room
  <2>2. IsSeq(One(frame)) /\ Len(One(frame)) = 1 /\ One(frame)[1] = frame
    BY EmptyIs
  <2>3. AllIn(One(frame), Frames)
    <3>1. \A k \in 1 .. 1 : k = 1
      OBVIOUS
    <3> QED BY <1>0, <2>2, <3>1 DEF AllIn
  <2>4. AllIn(Queue', Frames)
    BY <1>3, <1>8, <2>1, <2>2, <2>3, AllInCat
  <2>5. Len(Queue') = Len(Queue) + 1
    BY <1>3, <1>8, AppendIs
  <2>6. Len(Queue') + 0 <= Unread
    BY <1>3, <2>1, <2>5, LinkAssumption DEF IsSeq
  <2> QED BY <1>0, <2>4, <2>6 DEF Room
<1>11. Sender'
  <2>1. Pushed' = 0
    BY <1>0 DEF Pushed
  <2>2. /\ TxEnd' \in Nat
        /\ Same(TxEnd', NextByte + Current + WordsIn(Cat(Waiting, cnt)))
    <3> HIDE DEF cnt
    <3> QED BY <1>1, EndMoved
  <2>3. NextByte + Current + WordsIn(Cat(Waiting, cnt)) = TxEnd + WordsFor(n)
    <3>1. b + (WordsIn(Waiting) + WordsFor(n)) = (b + WordsIn(Waiting)) + WordsFor(n)
      BY <1>4, AddAssoc
    <3>2. NextByte + Current = b
      BY DEF b
    <3> HIDE DEF cnt
    <3> QED BY <1>4, <1>7, <3>1, <3>2
  <2>4. Same(InAdd, TxEnd + WordsFor(n))
    BY <1>5 DEF Sender
  <2>5. TxEnd' + 0 = TxEnd'
    <3>1. ASSUME NEW x \in Nat PROVE x + 0 = x
      OBVIOUS
    <3> QED BY <2>2, <3>1, Zenon
  <2>6. Same(InAdd', TxEnd' + Pushed')
    BY <1>2, <2>1, <2>2, <2>3, <2>4, <2>5 DEF Same
  <2>7. IsSeq(todo') /\ \A j \in 1 .. Len(todo') : FALSE
    BY <1>0, EmptyIs
  <2>8. \A j \in 1 .. 0 : FALSE
    OBVIOUS
  <2> QED BY <1>0, <2>1, <2>6, <2>7, <2>8 DEF Sender
<1> HIDE DEF cnt
<1> QED BY <1>0, <1>1, <1>9, <1>10, <1>11, EdgeKeeps

LEMMA NoneWaits ==
  ASSUME NEW mem, NEW a
  PROVE  Cat(<<>>, <<>>) = <<>> /\ FramesAt(mem, a, <<>>) = <<>>
<1>1. <<>> \in Seq(Nat) /\ Len(<<>>) = 0
  OBVIOUS
<1>2. ASSUME NEW q \in Seq(Nat), Len(q) = 0 PROVE FramesAt(mem, a, q) = <<>>
  <2>1. IsSeq(FramesAt(mem, a, q)) /\ Len(FramesAt(mem, a, q)) = 0
    BY <1>2, FramesIs
  <2> QED BY <2>1, LenIs
<1> QED BY <1>1, <1>2, ConcatIs, EmptyIs

\* A clear of the transmitter throws away what waits.
LEMMA ClearTxStep ==
  ASSUME TypeInv, LinkInv, TypeInv', ClearTx
  PROVE  LinkInv' /\ Channel!ClearSender
<1>0. /\ ~Go /\ ~FDGo /\ ~SCNZ /\ todo' = <<>> /\ frame' = <<>> /\ last' = last
      /\ Background(<<>>, <<>>, TRUE) /\ (StartByte(TRUE) \/ NextFrame(TRUE))
      /\ wire' = (IF ~Go /\ Go' THEN <<SReg'>> ELSE wire)
      /\ UNCHANGED <<rxVars, reading, words>>
      /\ LineInv /\ (wire = <<>> \/ wire = One(wire[1])) /\ AllIn(Queue, Frames)
  BY DEF ClearTx, TxStep, TxEdge, Shifting, LinkInv, LineInv, Room
<1>1. /\ Go' = FALSE /\ FDGo' = FALSE /\ SCNZ' = FALSE /\ SendCount' = 0 /\ BytePointer' = 0
  <2>1. CASE StartByte(TRUE)
    BY <2>1 DEF StartByte
  <2>2. CASE NextFrame(TRUE)
    BY <1>0, <2>2 DEF NextFrame
  <2> QED BY <1>0, <2>1, <2>2
<1>2. /\ buffram' = buffram /\ InAdd' = 0 /\ OutAdd' = 0 /\ counts' = <<>> /\ mode' = mode
      /\ wire = <<>> /\ wire' = <<>> /\ ~RFDGo /\ ~RPushRC
  <2>1. /\ buffram' = buffram /\ InAdd' = 0 /\ OutAdd' = 0 /\ counts' = <<>> /\ mode' = mode
    BY <1>0 DEF Background
  <2>2. wire = <<>> /\ ~RFDGo /\ ~RPushRC
    BY <1>0 DEF LineInv
  <2> QED BY <1>0, <1>1, <2>1, <2>2
<1>3. UNCHANGED <<rbuffram, RInAdd, ROutAdd, rcounts, RCFIFOError, RecvCount, RBytePointer,
                  RDataLatch, RPushData, RPushRC, RGo, RFDGo, reading, words>>
  BY <1>0 DEF rxVars
<1>4. RxThere' = RxThere /\ RxFlags' = RxFlags
  <2>1. FirstUnread' = FirstUnread /\ LineWords' = LineWords /\ RxNext' = RxNext
    BY <1>3 DEF FirstUnread, LineWords, RxNext
  <2> QED BY <1>3, <2>1 DEF RxThere, RxFlags
<1>5. All = <<>> /\ All' = <<>>
  <2>1. Received = <<>> /\ ToCome = <<>> /\ Received' = <<>> /\ ToCome' = <<>>
    BY <1>0, <1>1, <1>2, <1>3 DEF Received, ToCome
  <2>2. Cat(<<>>, <<>>) = <<>>
    BY NoneWaits
  <2> QED BY <1>2, <2>1, <2>2 DEF All
<1>6. /\ Queue = Cat(Cat(RxThere, Whole(All)), Unsent)
      /\ IsSeq(RxThere) /\ IsSeq(Unsent) /\ IsSeq(Queue)
  BY <1>0, QueueIs DEF RxThere
<1>7. /\ Queue' = Cat(Cat(RxThere', Whole(All')), Unsent')
      /\ Unsent' = FramesAt(buffram', NextByte' + Current', Waiting') /\ IsSeq(Queue')
  BY <1>2, QueueThen DEF RxThere
<1>8. Waiting' = <<>>
  <2>1. Loaded' = <<>> /\ Queued' = <<>>
    BY <1>1, <1>2 DEF Loaded, Queued
  <2>2. Cat(<<>>, <<>>) = <<>>
    BY NoneWaits
  <2> QED BY <2>1, <2>2 DEF Waiting
<1>9. Unsent' = <<>>
  BY <1>7, <1>8, NoneWaits
<1>10. Queue = Cat(RxThere, Unsent) /\ Queue' = RxThere
  <2>1. Cat(RxThere, <<>>) = RxThere
    BY <1>6, ConcatIs
  <2> QED BY <1>4, <1>5, <1>6, <1>7, <1>9, <2>1 DEF Whole
<1>11. /\ \E n \in 0 .. Len(Queue) : Queue' = SubSeq(Queue, 1, n)
       /\ Len(Queue') <= Len(Queue) /\ AllIn(Queue', Frames)
  BY <1>0, <1>6, <1>10, Discards
<1>12. Room'
  BY <1>0, <1>6, <1>7, <1>11, RoomKept
<1>13. LineInv'
  BY <1>1, <1>2, <1>3 DEF LineInv
<1>14. Driver'
  <2>1. CASE mode.auto
    BY <1>1, <1>2, <2>1 DEF Driver, LinkInv
  <2>2. CASE ~mode.auto
    <3>1. mode.bit /\ DriveDelayCount = 0
      BY <2>2 DEF Driver, LinkInv
    <3>2. DriveEnable /\ ~WaitingForDrive
      BY <2>2, <3>1 DEF DriveEnable, WaitingForDrive
    <3>3. DriveDelayCount' = 0
      BY <1>0, <3>1, <3>2 DEF Background
    <3> QED BY <1>2, <2>2, <3>1, <3>3 DEF Driver
  <2> QED BY <2>1, <2>2
<1>15. DOMAIN buffram' = 0 .. Depth - 1 /\ DOMAIN rbuffram' = 0 .. Depth - 1 /\ Reads(reading', words')
  BY <1>2, <1>3 DEF LinkInv
<1>16. Channel!ClearSender
  <2>1. clears' = [clears EXCEPT !.tx = @ + 1]
    BY DEF ClearTx
  <2> QED BY <1>0, <1>11, <2>1 DEF Channel!ClearSender
<1>17. ReadData' = FALSE
  <2>1. BytePointer = 0
    BY <1>0 DEF LinkInv, TxFlags
  <2>2. 0 # W - 1
    BY FifoAssumption
  <2>3. CASE StartByte(TRUE)
    BY <2>1, <2>2, <2>3 DEF StartByte
  <2>4. CASE NextFrame(TRUE)
    BY <1>0, <2>4 DEF NextFrame
  <2> QED BY <1>0, <2>3, <2>4
<1>18. TxFlags'
  BY <1>0, <1>1, <1>2, <1>17 DEF TxFlags, Cleared
<1>19. NextByte' = 0 /\ Current' = 0 /\ WordsIn(Waiting') = 0
  <2>1. WordsIn(<<>>) = 0
    BY NothingArrived
  <2> QED BY <1>1, <1>2, <1>8, <1>17, <2>1 DEF NextByte, Current
<1>20. Pushed' = 0 /\ TxEnd' = 0
  BY <1>0, <1>19 DEF Pushed, TxEnd
<1>21. Sender'
  <2>1. \A j \in 1 .. 0 : FALSE
    OBVIOUS
  <2>2. Same(0, 0 + 0) /\ Len(<<>>) = 0
    BY DEF Same
  <2> QED BY <1>0, <1>2, <1>20, <2>1, <2>2, EmptyIs DEF Sender
<1>22. RxFlags'
  BY <1>4 DEF LinkInv
<1> QED BY <1>12, <1>13, <1>14, <1>15, <1>16, <1>18, <1>21, <1>22 DEF LinkInv

-----------------------------------------------------------------------------
(***************************************************************************)
(* The two halves implement the channel.                                   *)
(***************************************************************************)

\* A clear leaves nothing under way.
LEMMA InitLinked ==
  ASSUME Usable, TypeInv, LinkInit
  PROVE  LinkInv /\ Channel!ChanInit
<1>1. /\ buffram = [a \in 0 .. Depth - 1 |-> Blank] /\ InAdd = 0 /\ OutAdd = 0
      /\ counts = <<>> /\ SendCount = 0 /\ BytePointer = 0 /\ ReadData = FALSE /\ PopSC = FALSE
      /\ Go = FALSE /\ FDGo = FALSE /\ SCNZ = FALSE
      /\ mode \in [auto : BOOLEAN, bit : {TRUE}, delay : Delays]
      /\ DriveDelayCount = IF mode.auto THEN mode.delay ELSE 0
  BY DEF LinkInit, TxInit
<1>2. /\ rbuffram = [a \in 0 .. Depth - 1 |-> Blank] /\ RInAdd = 0 /\ ROutAdd = 0
      /\ rcounts = <<>> /\ RecvCount = 0 /\ RBytePointer = 0
      /\ RPushData = FALSE /\ RPushRC = FALSE /\ RGo = FALSE /\ RFDGo = FALSE
  BY DEF LinkInit, RxInit
<1>3. wire = <<>> /\ todo = <<>> /\ frame = <<>> /\ reading = 0 /\ words = <<>>
      /\ last = <<>> /\ clears = [tx |-> 0, rx |-> 0]
  BY DEF LinkInit
<1>4. Cat(<<>>, <<>>) = <<>> /\ WordsIn(<<>>) = 0 /\ Len(<<>>) = 0 /\ Same(0, 0 + 0) /\ Same(0, 0 + 0 + 0)
      /\ \A j \in 1 .. 0 : FALSE
  BY NoneWaits, NothingArrived DEF Same
<1>5. Waiting = <<>> /\ Current = 0 /\ NextByte = 0 /\ Pushed = 0
  BY <1>1, <1>3, <1>4 DEF Waiting, Loaded, Queued, Current, NextByte, Pushed
<1>6. Queue = <<>>
  <2>1. Received = <<>> /\ ToCome = <<>>
    BY <1>1, <1>2 DEF Received, ToCome
  <2>2. Whole(All) = <<>>
    BY <1>3, <1>4, <2>1 DEF All, Whole
  <2>3. Unsent = <<>> /\ Queue = Cat(Cat(Arrived(rbuffram, ROutAdd, reading, words, rcounts), Whole(All)), Unsent)
    BY <1>3, <1>5, QueueIs, NoneWaits
  <2>4. Arrived(rbuffram, ROutAdd, reading, words, rcounts) = <<>>
    BY <1>2, <1>3, NothingArrived
  <2> QED BY <1>4, <2>2, <2>3, <2>4
<1>7. Driver
  BY <1>1 DEF Driver, Usable
<1>8. LineInv /\ TxFlags
  BY <1>1, <1>2, <1>3 DEF LineInv, TxFlags
<1>9. Reads(reading, words)
  BY <1>3, EmptyIs DEF Reads
<1>10. Room
  BY <1>3, <1>4, <1>6, LinkAssumption DEF Room, AllIn
<1>11. Sender
  <2>1. TxEnd = 0
    BY <1>4, <1>5 DEF TxEnd
  <2> QED BY <1>1, <1>3, <1>4, <1>5, <2>1, EmptyIs DEF Sender
<1>12. RxFlags
  <2>1. RxNext = 0 /\ FirstUnread = 0 /\ LineWords = 0 /\ WordsIn(rcounts) = 0
    BY <1>2, <1>3, <1>4 DEF RxNext, FirstUnread, LineWords
  <2> QED BY <1>2, <1>4, <2>1 DEF RxFlags
<1>13. LinkInv
  <2>1. DOMAIN buffram = 0 .. Depth - 1 /\ DOMAIN rbuffram = 0 .. Depth - 1
    BY <1>1, <1>2
  <2> QED BY <1>3, <1>7, <1>8, <1>9, <1>10, <1>11, <1>12, <2>1 DEF LinkInv
<1> QED BY <1>3, <1>6, <1>13 DEF Channel!ChanInit

\* What one step does to the frames under way.
LEMMA StepIsOfChannel ==
  ASSUME TypeInv, LinkInv, TypeInv', [LinkNext]_linkVars, ~spoiled'
  PROVE  LinkInv' /\ [Channel!ChanNext]_(Channel!chanVars)
<1>1. ASSUME Queue' = Queue, last' = last, clears' = clears PROVE UNCHANGED Channel!chanVars
  BY <1>1 DEF Channel!chanVars
<1>2. ASSUME NEW tick \in BOOLEAN, TxQuiet(tick) PROVE LinkInv' /\ UNCHANGED Channel!chanVars
  <2>1. clears' = clears
    BY <1>2 DEF TxQuiet
  <2> QED BY <1>1, <1>2, <2>1, TxQuietStep
<1>3. ASSUME NEW tick \in BOOLEAN, PushWord(tick) PROVE LinkInv' /\ UNCHANGED Channel!chanVars
  <2>1. clears' = clears
    BY <1>3 DEF PushWord
  <2> QED BY <1>1, <1>3, <2>1, PushWordStep
<1>4. ASSUME NEW tick \in BOOLEAN, PushCount(tick) PROVE LinkInv' /\ Channel!ChanNext
  <2>1. LinkInv' /\ Channel!Send(frame) /\ frame \in Frames
    BY <1>4, PushCountStep
  <2> QED BY <2>1 DEF Channel!ChanNext
<1>5. ASSUME NEW f \in Frames, ChooseFrame(f) PROVE LinkInv' /\ UNCHANGED Channel!chanVars
  <2>1. clears' = clears
    BY <1>5 DEF ChooseFrame
  <2> QED BY <1>1, <1>5, <2>1, ChooseFrameStep
<1>6. CASE ClearTx
  BY <1>6, ClearTxStep DEF Channel!ChanNext
<1>7. CASE RxQuiet
  <2>1. clears' = clears
    BY <1>7 DEF RxQuiet
  <2> QED BY <1>1, <1>7, <2>1, RxQuietKeeps
<1>8. CASE PopCount
  <2>1. clears' = clears
    BY <1>8 DEF PopCount
  <2> QED BY <1>1, <1>8, <2>1, PopCountKeeps
<1>9. CASE PopWord
  <2>1. clears' = clears
    BY <1>9 DEF PopWord
  <2> QED BY <1>1, <1>9, <2>1, PopWordStep DEF Channel!ChanNext
<1>10. CASE ClearRx
  BY <1>10, ClearRxStep DEF Channel!ChanNext
<1>11. CASE UNCHANGED linkVars
  <2>0. UNCHANGED <<buffram, InAdd, OutAdd, counts, SCFIFOError, SendCount, BytePointer,
                    ReadData, PopSC, Go, FDGo, SCNZ, SReg, DriveDelayCount, mode>>
        /\ UNCHANGED <<rbuffram, RInAdd, ROutAdd, rcounts, RCFIFOError, RecvCount, RBytePointer,
                       RDataLatch, RPushData, RPushRC, RGo, RFDGo>>
        /\ UNCHANGED <<txVars, rxVars, wire, todo, frame, reading, words, last, clears>>
    BY <1>11 DEF linkVars, hostVars, txVars, rxVars
  <2>1. /\ buffram' = buffram /\ ToCome' = ToCome /\ Unsent' = Unsent /\ Driver' = Driver
        /\ TxFlags' = TxFlags /\ Sender' = Sender
    BY <2>0, TxKept
  <2>2. /\ rbuffram' = rbuffram /\ Received' = Received /\ RxFlags' = RxFlags
        /\ rcounts' = rcounts
    BY <2>0, RxKept
  <2>3. Queue' = Queue
    <3>1. BeingRead' = BeingRead /\ FirstUnread' = FirstUnread
      BY <2>0 DEF BeingRead, FirstUnread
    <3>2. OnTheLine' = OnTheLine
      BY <2>0, <2>1, <2>2 DEF OnTheLine
    <3> QED BY <2>1, <2>2, <3>1, <3>2 DEF Queue
  <2>4. LineInv' /\ Room' /\ Reads(reading', words')
    BY <2>0, <2>3 DEF LinkInv, LineInv, Room
  <2>5. LinkInv'
    BY <2>0, <2>1, <2>2, <2>4 DEF LinkInv
  <2> QED BY <1>1, <2>0, <2>3, <2>5
<1> QED BY <1>2, <1>3, <1>4, <1>5, <1>6, <1>7, <1>8, <1>9, <1>10, <1>11 DEF LinkNext

\* Once a clear has met the end of a frame the halves need not agree any more.
LEMMA SpoiledKept == [LinkNext]_linkVars /\ spoiled => spoiled'
<1> SUFFICES ASSUME [LinkNext]_linkVars, spoiled PROVE spoiled'
  OBVIOUS
<1>1. ASSUME NEW tick \in BOOLEAN, TxQuiet(tick) \/ PushWord(tick) \/ PushCount(tick) PROVE spoiled'
  BY <1>1 DEF TxQuiet, PushWord, PushCount, TxStep
<1>2. ASSUME NEW f \in Frames, ChooseFrame(f) PROVE spoiled'
  BY <1>2 DEF ChooseFrame
<1>3. CASE ClearTx
  BY <1>3 DEF ClearTx, TxStep
<1>4. CASE RxQuiet \/ PopCount \/ PopWord \/ ClearRx
  BY <1>4 DEF RxQuiet, PopCount, PopWord, ClearRx
<1>5. CASE UNCHANGED linkVars
  BY <1>5 DEF linkVars, hostVars
<1> QED BY <1>1, <1>2, <1>3, <1>4, <1>5 DEF LinkNext

(***************************************************************************)
(* In automatic mode with a driver-enable delay of at most a clock and a   *)
(* host that waits for a UART that is not busy, and in manual mode with any*)
(* delay and host, the halves, the line and the hosts agree in every edge  *)
(* as long as no clear of the receiver meets the end of a frame: flags,    *)
(* addresses, buffers and counts (pktuartx.vhd, pktuartr.vhd).             *)
(***************************************************************************)
THEOREM LinkAgrees == Usable /\ LinkSpec => []HalvesAgree
<1> DEFINE Inv == TypeInv /\ (~spoiled => LinkInv)
<1>1. Usable /\ LinkInit => Inv
  BY InitTyped, InitLinked
<1>2. Inv /\ [LinkNext]_linkVars => Inv'
  BY TypeKept, SpoiledKept, StepIsOfChannel
<1>3. Inv => HalvesAgree
  BY DEF TypeInv, HalvesAgree
<1> HIDE DEF Inv
<1> QED BY <1>1, <1>2, <1>3, PTL DEF LinkSpec

(***************************************************************************)
(* Under the same conditions the packet UARTs are the channel: whatever is *)
(* pushed while others are sent, received and read, frames are delivered   *)
(* whole, in order and once; a clear of the transmitter loses the newest,  *)
(* one of the receiver the oldest, until one meets the end of a frame.     *)
(***************************************************************************)
THEOREM LinkImplements == Usable /\ LinkSpec => FramesArrive
<1> DEFINE Inv == TypeInv /\ (~spoiled => LinkInv)
<1>1. Usable /\ LinkInit => Inv /\ Channel!ChanInit
  BY InitTyped, InitLinked
<1>2. Inv /\ [LinkNext]_linkVars =>
        Inv' /\ [spoiled' \/ Channel!ChanNext]_(Channel!chanVars)
  BY TypeKept, SpoiledKept, StepIsOfChannel
<1> HIDE DEF Inv
<1> QED BY <1>1, <1>2, PTL DEF LinkSpec, FramesArrive
=============================================================================
