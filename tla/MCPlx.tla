-------------------------------- MODULE MCPlx -------------------------------
\* Both bridges; two polls, two reads of delay, a bitfile of two bytes, the
\* board found twice.
EXTENDS Plx
=============================================================================
