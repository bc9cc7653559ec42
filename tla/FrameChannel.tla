---------------------------- MODULE FrameChannel ----------------------------
(***************************************************************************)
(* What a pair of packet UARTs promises the hosts on both sides: frames    *)
(* arrive whole, in order and once.  Only a clear loses any: the sender's, *)
(* of those it has queued last; the receiver's, of those that came first.  *)
(***************************************************************************)
EXTENDS Sequences, Naturals

CONSTANT Frames
VARIABLES queue, last,  \* frames under way; the frame delivered last
          clears        \* clears of either end so far

chanVars == <<queue, last, clears>>

ChanInit == queue = <<>> /\ last = <<>> /\ clears = [tx |-> 0, rx |-> 0]

Send(f) == queue' = Append(queue, f) /\ UNCHANGED <<last, clears>>

Deliver == queue # <<>> /\ last' = Head(queue) /\ queue' = Tail(queue) /\ UNCHANGED clears

\* The first n frames stay.
ClearSender ==
  /\ \E n \in 0 .. Len(queue) : queue' = SubSeq(queue, 1, n)
  /\ clears' = [clears EXCEPT !.tx = @ + 1] /\ UNCHANGED last

\* The last n frames stay.
ClearReceiver ==
  /\ \E n \in 0 .. Len(queue) : queue' = SubSeq(queue, Len(queue) - n + 1, Len(queue))
  /\ clears' = [clears EXCEPT !.rx = @ + 1] /\ UNCHANGED last

ChanNext == Deliver \/ ClearSender \/ ClearReceiver \/ \E f \in Frames : Send(f)

ChanSpec == ChanInit /\ [][ChanNext]_chanVars
=============================================================================
