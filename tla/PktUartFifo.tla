---------------------------- MODULE PktUartFifo -----------------------------
\* What the halves of the packet UART share: dimensions and the FIFO of counts.
EXTENDS Naturals, Sequences

CONSTANTS W,      \* bytes in a word: 4
          Depth,  \* words in the buffer: MaxFrameSize / 4
          Slots,  \* frames in the FIFO of counts: 16
          Pad     \* a byte that nobody has written, or that fills the last word
ASSUME FifoAssumption ==
  W \in Nat \ {0, 1} /\ Depth \in Nat \ {0} /\ Slots \in Nat \ {0}

\* A word of a buffer at power-up.
Blank == [i \in 1 .. W |-> Pad]

\* Oldest count first.  It is made of SRL16s: a push shifts, whether or not
\* the counter of entries moves.
CountFifo(q, push, pop) ==
  CASE pop /\ q = <<>> -> <<>>
    [] q # <<>> /\ (pop \/ (push # <<>> /\ Len(q) = Slots)) -> Tail(q) \o push
    [] OTHER -> q \o push
=============================================================================
