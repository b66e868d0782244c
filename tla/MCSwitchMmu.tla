----------------------------- MODULE MCSwitchMmu -----------------------------
(* Small instances of SwitchMmu for TLC. *)
EXTENDS SwitchMmu

\* Two ports that differ in headroom and in the share of the pool they may use.
MCHeadroom == [p \in Ports |-> IF p = 1 THEN 3 ELSE 2]
MCPfcDivisor == [p \in Ports |-> IF p = 1 THEN 1 ELSE 2]
=============================================================================
