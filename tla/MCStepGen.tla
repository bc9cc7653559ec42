----------------------------- MODULE MCStepGen ------------------------------
\* A 3-bit rate on a 4-bit accumulator: two positions of eight.
EXTENDS StepGen

MCRates == {-3, -1, 2, 3}
=============================================================================
