--------------------------- MODULE MCPfcAccounting ---------------------------
(* Two links, two windows of two instants and an instant after them. *)
EXTENDS PfcAccounting, TLC

CONSTANTS l1, l2
Symmetry == Permutations(Links)

=============================================================================
