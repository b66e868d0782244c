---------------------------- MODULE MCSwitchNode ----------------------------
(* Small instances of SwitchNode for TLC. *)
EXTENDS SwitchNode

MCHeadroomOne == [p \in Ports |-> 1]
MCPfcDivisor == [p \in Ports |-> 2]
MCPfcDivisorOne == [p \in Ports |-> 1]
MCKmin == [p \in Ports |-> 1]
MCKmax == [p \in Ports |-> 2]

\* Port 1 sends data to port 2, which answers; packets that find the link of port 2
\* down may be sent back.
Forward == {<<1, 2>>}
BackAgain == {<<1, 1>>}
ForwardOrBack == Forward \cup BackAgain
Back == {<<2, 1>>}
=============================================================================
