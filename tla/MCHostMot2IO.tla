---------------------------- MODULE MCHostMot2IO ----------------------------
(* Two ports of one pin each and 2-bit bus words: every register of every  *)
(* port, every order of writes, and the timer's whole range.               *)
EXTENDS HostMot2IO
=============================================================================
