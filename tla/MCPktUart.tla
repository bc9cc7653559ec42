----------------------------- MODULE MCPktUart ------------------------------
\* Frames of less than a word, a word, and more than a word.
EXTENDS PktUartInv
MCFrames == {<<"a">>, <<"b", "c">>, <<"d", "e", "f">>}
=============================================================================
