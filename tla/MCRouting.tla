------------------------------ MODULE MCRouting ------------------------------
(* Hosts 1 and 2 have two NICs each, switches 3, 4 and 5 may be linked in a *)
(* triangle: every topology with some of these seven links.                 *)
EXTENDS Routing

MCLinks == {{1, 3}, {1, 4}, {2, 4}, {2, 5}, {3, 4}, {4, 5}, {3, 5}}

=============================================================================
