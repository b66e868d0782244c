--------------------------- MODULE MCRdmaTransport ---------------------------
(* Small instances of RdmaTransport for TLC. *)
EXTENDS RdmaTransport

MCSizeTwo == [f \in Flows |-> 2]
\* Three packets, the last one short, and one packet, for an MTU of 2.
MCSizeUneven == [f \in Flows |-> IF f = 1 THEN 5 ELSE 2]
\* Three packets and one packet, for an MTU of 1.
MCSizeThree == [f \in Flows |-> IF f = 1 THEN 3 ELSE 1]
MCPgSame == [f \in Flows |-> 3]
MCPgByFlow == [f \in Flows |-> f]
MCWinOne == [f \in Flows |-> 1]
\* One and a half packets, for an MTU of 2.
MCWinUneven == [f \in Flows |-> 3]
MCWinThree == [f \in Flows |-> 3]
=============================================================================
