---------------------------- MODULE MCUioDriver -----------------------------
\* The bridge, a device with platform data and a misconfigured one; two open
\* files of each; two tasks that mask and unmask the interrupt of the bridge.
EXTENDS UioDriver
=============================================================================
