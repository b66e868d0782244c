---------------------------- MODULE MCFlowMonitor ----------------------------
(* Three flows: the first two start together and share a slot; the second is *)
(* small, but its chunks reach the threshold.                                *)
EXTENDS FlowMonitor

MCSize == <<2, 1, 1>>
MCStart == <<1, 1, 2>>
MCSlot == <<1, 1, 2>>

=============================================================================
