---------------------------- MODULE FastRequest -----------------------------
(***************************************************************************)
(* The handshake by which a strobe on the bus clock asks for something on  *)
(* the fast clock: loadpwmreq, oldloadpwmreq and olderloadpwmreq of        *)
(* pwmpdmgenh.vhd, PopReq, PopReq1 and PopReq2 of biss.vhd.  The fast side *)
(* clears req asynchronously for as long as two is up, so that a strobe in *)
(* that time leaves no request.                                            *)
(***************************************************************************)
VARIABLES req, one, two

Init == req = FALSE /\ one = FALSE /\ two = FALSE

\* The fast clock acts on the request.
Taking == one /\ two

\* An edge of the bus clock, with the strobe up or not.
BusEdge(asked) ==
  /\ req' = ((req \/ asked) /\ ~two)
  /\ UNCHANGED <<one, two>>

\* Mutant: the request that was taken is not taken away.
FastEdgeKeeps(go) ==
  /\ one' = (one \/ (req /\ go))
  /\ two' = one
  /\ req' = (req /\ ~two')

\* An edge of the fast clock; go: it may pass the request on.
FastEdge(go) ==
  /\ one' = IF Taking THEN FALSE ELSE one \/ (req /\ go)
  /\ two' = one
  /\ req' = (req /\ ~two')

AtRest == ~req /\ ~one /\ ~two
=============================================================================
