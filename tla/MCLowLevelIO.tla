---------------------------- MODULE MCLowLevelIO ----------------------------
\* Parallel port: two boards on two ports, one of which may be another driver's;
\* two data cycles in a read or a write, three calls of the core to each board.
\* Network: two words, each 0 or 1; two queued commands; two packets in flight.
EXTENDS LowLevelIO

\* The claims about the network are about what comes before the first miss, so
\* nothing behind it is explored.
InStep == ~ethmissed
=============================================================================
