-------------------------- MODULE MCBlockRequests ---------------------------
\* Two registers, two words and the declared 4/2/2/2 clock timing; one fast
\* edge per bus clock at least: the slowest fast clock, in any phase.
EXTENDS BlockRequests
=============================================================================
