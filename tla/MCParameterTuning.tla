-------------------------- MODULE MCParameterTuning --------------------------
(* Small instances of ParameterTuning for TLC. *)
EXTENDS ParameterTuning, TLC

\* Large and small flows, or small flows only.
MCRatios == {[large |-> l, small |-> 1] : l \in {0, 1}}

\* The slots for threads are interchangeable.
Slots == Permutations(Threads)
=============================================================================
