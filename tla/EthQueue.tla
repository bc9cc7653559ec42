------------------------------ MODULE EthQueue ------------------------------
(***************************************************************************)
(* The Ethernet transport of hm2-export.c (hm2_eth): one thread of the     *)
(* host issues reads and writes of board registers, each directly or       *)
(* through a queue that a call with size -1 sends as one packet.  A read   *)
(* sends its request and polls the socket for 200 ms; whatever datagram is *)
(* there is the answer.  A write sends and returns.  rtapi_app_exit, on    *)
(* another thread, clears comm_active and closes the socket at any moment; *)
(* calls after that return 1, as success, and do nothing at all.           *)
(*                                                                         *)
(* Registers are words 0 .. Words-1; a command names an address and a      *)
(* number of words.  The network is external: it delivers in order, loses  *)
(* datagrams, and may be slower than the 200 ms.  What recv does not fill  *)
(* of the caller's stack buffer is Junk.                                   *)
(***************************************************************************)
EXTENDS Integers, SequencesExt

CONSTANTS Words, Vals, Junk,
          MaxQueue,  \* bound: queued reads and writes together
          MaxWire    \* bound: packets on their way to the board

Regs == 0 .. Words - 1
Reads  == {c \in [addr : Regs, size : 1 .. Words] : c.addr + c.size <= Words}
Writes == [addr : Regs, val : Vals]

VARIABLES comm_active,
          regs,     \* the board's registers
          wire,     \* packets sent and not yet at the board
          inbox,    \* replies at the host's socket
          queue,    \* queue_reads: commands with the offset of their data
          queue_buff_size,
          wqueue,   \* write_packet
          call,     \* the read the thread is polling for, or <<>>
          issued,   \* history: the registers once every packet sent is applied
          asked,    \* history: the last value queued for each register, if any
          stale,    \* history: the kinds of call that returned 1 and filled a
                    \* buffer with something else than the register's value,
                    \* "closed" for those that found the driver exited
          missed    \* history: a read has timed out or a write was lost

vars == <<comm_active, regs, wire, inbox, queue, queue_buff_size, wqueue, call,
          issued, asked, stale, missed>>

Init ==
  /\ comm_active = TRUE
  /\ regs \in [Regs -> Vals] /\ issued = regs
  /\ wire = <<>> /\ inbox = <<>>
  /\ queue = <<>> /\ queue_buff_size = 0 /\ wqueue = <<>>
  /\ call = <<>> /\ asked = [a \in Regs |-> <<>>] /\ stale = {} /\ missed = FALSE

Idle == comm_active /\ call = <<>>

\* The words a command reads from the registers r, and a write's effect on them.
Fetch(r, c) == [i \in 1 .. c.size |-> r[c.addr + i - 1]]
Put(r, w) == [r EXCEPT ![w.addr] = w.val]
PutAll(r, ws) ==
  LET after[k \in 0 .. Len(ws)] == IF k = 0 THEN r ELSE Put(after[k - 1], ws[k])
  IN  after[Len(ws)]

\* The first n words of a datagram received into an uninitialized buffer.
Received(d, n) == [i \in 1 .. n |-> IF i <= Len(d) THEN d[i] ELSE Junk]

-----------------------------------------------------------------------------
\* hm2_eth_read: the request goes out; hm2_eth_enqueue_read with size -1 sends
\* the queue the same way.  call.cmds is what the answer is cut up by.
Request(cmds, n, kind) ==
  /\ Idle /\ Len(wire) < MaxWire
  /\ wire' = Append(wire, [op |-> "read", cmds |-> cmds])
  /\ call' = <<[cmds |-> cmds, size |-> n, kind |-> kind]>>
  /\ UNCHANGED <<comm_active, regs, inbox, wqueue, issued, asked, stale, missed>>

Read(c) ==
  /\ Request(<<[addr |-> c.addr, size |-> c.size, from |-> 0]>>, c.size, "read")
  /\ UNCHANGED <<queue, queue_buff_size>>

\* Mutant: the offset of a queued read counts reads and not words.
EnqueueReadByIndex(c) ==
  /\ Idle /\ Len(queue) + Len(wqueue) < MaxQueue
  /\ queue' = Append(queue, [addr |-> c.addr, size |-> c.size, from |-> Len(queue)])
  /\ queue_buff_size' = queue_buff_size + c.size
  /\ UNCHANGED <<comm_active, regs, wire, inbox, wqueue, call, issued, asked, stale, missed>>

EnqueueRead(c) ==
  /\ Idle /\ Len(queue) + Len(wqueue) < MaxQueue
  /\ queue' = Append(queue, [addr |-> c.addr, size |-> c.size, from |-> queue_buff_size])
  /\ queue_buff_size' = queue_buff_size + c.size
  /\ UNCHANGED <<comm_active, regs, wire, inbox, wqueue, call, issued, asked, stale, missed>>

FlushReads ==
  /\ Request(queue, queue_buff_size, "flush")
  /\ queue' = <<>> /\ queue_buff_size' = 0

\* The words `from` on of the receive buffer d go to each read's own buffer.
Scatter(cmds, d) ==
  [k \in 1 .. Len(cmds) |-> [i \in 1 .. cmds[k].size |-> d[cmds[k].from + i]]]
Fill(d) ==
  stale' = IF Scatter(call[1].cmds, d) = [k \in 1 .. Len(call[1].cmds) |-> Fetch(issued, call[1].cmds[k])]
           THEN stale ELSE stale \cup {call[1].kind}

\* The poll finds a datagram: the call returns 1.
Answer ==
  /\ call # <<>> /\ inbox # <<>>
  /\ Fill(Received(Head(inbox), call[1].size))
  /\ inbox' = Tail(inbox) /\ call' = <<>>
  /\ UNCHANGED <<comm_active, regs, wire, queue, queue_buff_size, wqueue, issued, asked, missed>>

\* 200 ms without one: a read returns 0; a flush copies the buffer and returns 1.
Timeout ==
  /\ call # <<>> /\ inbox = <<>>
  /\ call' = <<>>
  /\ IF call[1].kind = "flush"
     THEN Fill(Received(<<>>, call[1].size))
     ELSE UNCHANGED stale
  /\ missed' = TRUE
  /\ UNCHANGED <<comm_active, regs, wire, inbox, queue, queue_buff_size, wqueue, issued, asked>>

\* Either read function with comm_active clear: 1, and no buffer is touched.  (A
\* write then returns 1 and changes nothing either, as a call of size 0 always does.)
ReadClosed ==
  /\ ~comm_active /\ call = <<>>
  /\ stale' = stale \cup {"closed"}
  /\ UNCHANGED <<comm_active, regs, wire, inbox, queue, queue_buff_size, wqueue, call,
                 issued, asked, missed>>

-----------------------------------------------------------------------------
\* hm2_eth_write, hm2_eth_enqueue_write.
Send(ws) ==
  /\ Idle /\ Len(wire) < MaxWire
  /\ wire' = Append(wire, [op |-> "write", cmds |-> ws])
  /\ UNCHANGED <<comm_active, regs, inbox, queue, queue_buff_size, call, stale, missed>>

Write(w) ==
  Send(<<w>>) /\ issued' = Put(issued, w) /\ UNCHANGED <<wqueue, asked>>

\* Mutant: write_packet_ptr does not move past the earlier commands.
EnqueueWriteFirst(w) ==
  /\ Idle /\ Len(queue) + Len(wqueue) < MaxQueue
  /\ wqueue' = <<w>> \o wqueue
  /\ asked' = [asked EXCEPT ![w.addr] = <<w.val>>]
  /\ UNCHANGED <<comm_active, regs, wire, inbox, queue, queue_buff_size, call,
                 issued, stale, missed>>

EnqueueWrite(w) ==
  /\ Idle /\ Len(queue) + Len(wqueue) < MaxQueue
  /\ wqueue' = Append(wqueue, w)
  /\ asked' = [asked EXCEPT ![w.addr] = <<w.val>>]
  /\ UNCHANGED <<comm_active, regs, wire, inbox, queue, queue_buff_size, call,
                 issued, stale, missed>>

FlushWrites ==
  /\ Send(wqueue) /\ wqueue' = <<>>
  /\ issued' = [a \in Regs |-> IF asked[a] = <<>> THEN issued[a] ELSE asked[a][1]]
  /\ asked' = [a \in Regs |-> <<>>]

\* rtapi_app_exit: the socket is closed, and what was in it is gone; a call that polls
\* it goes on to its timeout, and every later call returns at once.
Exit ==
  /\ comm_active
  /\ comm_active' = FALSE /\ inbox' = <<>>
  /\ UNCHANGED <<regs, wire, queue, queue_buff_size, wqueue, call, issued,
                 asked, stale, missed>>

\* rtapi_app_main: a new module and a new socket, when the network is quiet.
Load ==
  /\ ~comm_active /\ call = <<>> /\ wire = <<>>
  /\ comm_active' = TRUE /\ inbox' = <<>>
  /\ queue' = <<>> /\ queue_buff_size' = 0 /\ wqueue' = <<>>
  /\ issued' = regs /\ asked' = [a \in Regs |-> <<>>]
  /\ UNCHANGED <<regs, wire, call, stale, missed>>

-----------------------------------------------------------------------------
\* The board serves the packets in order; an empty one has no answer, and the answer
\* to a closed socket is dropped.
Serve ==
  /\ wire # <<>> /\ wire' = Tail(wire)
  /\ LET p == Head(wire) IN
     IF p.op = "write"
     THEN regs' = PutAll(regs, p.cmds) /\ UNCHANGED inbox
     ELSE /\ inbox' = IF p.cmds = <<>> \/ ~comm_active THEN inbox
                      ELSE Append(inbox, FlattenSeq([k \in 1 .. Len(p.cmds) |-> Fetch(regs, p.cmds[k])]))
          /\ UNCHANGED regs
  /\ UNCHANGED <<comm_active, queue, queue_buff_size, wqueue, call, issued, asked, stale, missed>>

LoseRequest ==
  /\ wire # <<>> /\ wire' = Tail(wire)
  /\ missed' = (missed \/ Head(wire).op = "write")
  /\ UNCHANGED <<comm_active, regs, inbox, queue, queue_buff_size, wqueue, call, issued, asked, stale>>

LoseReply ==
  /\ inbox # <<>> /\ inbox' = Tail(inbox)
  /\ UNCHANGED <<comm_active, regs, wire, queue, queue_buff_size, wqueue, call,
                 issued, asked, stale, missed>>

Next ==
  \/ \E c \in Reads : Read(c) \/ EnqueueRead(c)
  \/ FlushReads \/ Answer \/ Timeout \/ ReadClosed
  \/ \E w \in Writes : Write(w) \/ EnqueueWrite(w)
  \/ FlushWrites \/ Exit \/ Load
  \/ Serve \/ LoseRequest \/ LoseReply

Spec == Init /\ [][Next]_vars
-----------------------------------------------------------------------------
Cmds == UNION {[1 .. n -> [addr : Regs, size : 1 .. Words, from : 0 .. MaxQueue * Words]]
               : n \in 0 .. MaxQueue}

TypeOK ==
  /\ comm_active \in BOOLEAN /\ missed \in BOOLEAN
  /\ stale \subseteq {"read", "flush", "closed"}
  /\ regs \in [Regs -> Vals] /\ issued \in [Regs -> Vals]
  /\ Len(wire) <= MaxWire /\ Len(inbox) <= MaxWire + 1
  /\ queue \in Cmds /\ queue_buff_size \in 0 .. MaxQueue * Words
  /\ \A k \in 1 .. Len(wqueue) : wqueue[k] \in Writes
  /\ call # <<>> => call[1].cmds \in Cmds

(***************************************************************************)
(* As long as no read has timed out and no write was lost, the only reads  *)
(* that return 1 ("success", hm2-export.c:433) without the registers'      *)
(* values are those that find the driver exited (406, 437): a read or a    *)
(* flush that sent a request put into the buffers the values of the        *)
(* registers it named, after every write sent before it.  Requests and     *)
(* replies pair up by their order alone, so it takes the offsets of the    *)
(* queued reads, the order of the writes and the number of outstanding     *)
(* answers to be right, with the socket closed at any moment.              *)
(***************************************************************************)
CurrentUntilTimeout == ~missed => stale \subseteq {"closed"}

(***************************************************************************)
(* Once every packet sent has arrived the board holds exactly what the     *)
(* packets sent say, in the order the host asked for it, whether or not the*)
(* driver has exited meanwhile; what it was asked to write after that, or  *)
(* had queued and not sent, it has dropped (481, 498; 1592).               *)
(***************************************************************************)
WritesApplied == ~missed /\ wire = <<>> => regs = issued
=============================================================================
