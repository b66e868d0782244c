------------------------------ MODULE Counting ------------------------------
(***************************************************************************)
(* The members of a finite set of numbers in increasing order: what is     *)
(* left of an array, and what a loop over the used slots of a table        *)
(* visits, in terms of positions.  And the sum of the values of a          *)
(* function, which a loop over a table of counters adds up.                *)
(***************************************************************************)
EXTENDS Integers, FiniteSets

\* The members of S up to i.
UpTo(S, i) == {j \in S : j <= i}
\* How many members of S there are up to i: the new position of i if only the
\* positions of S are kept.
Rank(S, i) == Cardinality(UpTo(S, i))
\* The k-th member of S.
Nth(S, k) == CHOOSE i \in S : Rank(S, i) = k

\* Each value of f in units, and the number of units of all of them.
Units(f) == UNION {{x} \X (1 .. f[x]) : x \in DOMAIN f}
SumOf(f) == Cardinality(Units(f))

=============================================================================
