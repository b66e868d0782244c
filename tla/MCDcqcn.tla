------------------------------- MODULE MCDcqcn -------------------------------
(* Small instances of Dcqcn for TLC. *)
EXTENDS Dcqcn

\* Flow 1 varies its rate.  The senders of flows 2 and 3 ignore CNPs.
MCPg == [f \in Flows |-> IF f = 1 THEN 3 ELSE 1]
\* Flows meet in the table of the receiver only, which does not look at rates: flow
\* 1 has data alone, or, with DCQCN+, flows 2 and 3 together.
MCStarted == [p \in BOOLEAN |-> IF p THEN {{1}, {2, 3}} ELSE {{1}}]
\* Minimum rates that a rate may be below, and steps of either size.
MCParameterSets == {[minRate |-> 1, rai |-> 1, rhai |-> 2],
                    [minRate |-> 2, rai |-> 2, rhai |-> 4],
                    [minRate |-> 4, rai |-> 1, rhai |-> 3]}
=============================================================================
