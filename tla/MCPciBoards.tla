---------------------------- MODULE MCPciBoards -----------------------------
\* Two slots; a board with each bridge, and one with an unknown subsystem id.
\* A device with an unknown device id always fails early, as any may.
EXTENDS PciBoards

CONSTANTS a, b, c

MCBridge == [x \in {a, b, c} |-> CASE x = a -> "9030" [] x = b -> "9054" [] OTHER -> "none"]
=============================================================================
