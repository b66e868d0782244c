--------------------------- MODULE CountingProofs ---------------------------
(***************************************************************************)
(* Rank and Nth are inverse bijections between a finite set of numbers and *)
(* the positions 1 .. Cardinality(S); SumOf adds up as a sum does.         *)
(***************************************************************************)
EXTENDS Counting, FiniteSetsExt, FiniteSetTheorems, WellFoundedInduction, TLAPS

\* The least number principle, on sets: the form of induction that the proofs
\* use, applied to a set of counterexamples.
LEMMA LeastElement ==
    ASSUME NEW T \in SUBSET Nat, T # {}
    PROVE  \E x \in T : \A y \in T : x <= y
<1> DEFINE R == OpToRel(<, Nat)
<1>1. IsWellFoundedOn(R, Nat)
  BY NatLessThanWellFounded
<1>2. \A x, y \in Nat : x < y => <<x, y>> \in R
  BY DEF OpToRel
<1> HIDE DEF R
<1>3. PICK x \in T : \A y \in T : ~ (<<y, x>> \in R)
  BY <1>1, WFMin
<1>4. \A y \in T : ~(y < x)
  BY <1>2, <1>3
<1>5. x \in Nat /\ \A y \in T : y \in Nat
  OBVIOUS
<1>6. \A y \in T : x <= y
  BY <1>4, <1>5
<1> QED
  BY <1>6

\* Min of a set of natural numbers is its least member.
LEMMA MinIsLeast ==
    ASSUME NEW T \in SUBSET Nat, T # {}
    PROVE  Min(T) \in T /\ \A y \in T : Min(T) <= y
BY LeastElement DEF Min

\* Ranks are bounded by the size of the set, and grow with the member.
LEMMA RankBounds ==
    ASSUME NEW S \in SUBSET Nat, IsFiniteSet(S), NEW i \in Nat
    PROVE  /\ Rank(S, i) \in 0 .. Cardinality(S)
           /\ i \in S => Rank(S, i) \in 1 .. Cardinality(S)
           /\ \A j \in S : i < j => Rank(S, i) < Rank(S, j)
<1>1. UpTo(S, i) \subseteq S
  BY DEF UpTo
<1>2. Rank(S, i) \in Nat /\ Cardinality(S) \in Nat /\ Rank(S, i) <= Cardinality(S)
  BY <1>1, FS_Subset, FS_CardinalityType DEF Rank
<1>3. ASSUME i \in S PROVE Rank(S, i) # 0
  <2>1. i \in UpTo(S, i)
    BY <1>3 DEF UpTo
  <2> QED
    BY <1>1, <2>1, FS_Subset, FS_EmptySet DEF Rank
<1>4. ASSUME NEW j \in S, i < j PROVE Rank(S, i) < Rank(S, j)
  <2>0. ASSUME NEW x \in S, x <= i PROVE x <= j
    BY <1>4, <2>0, x \in Nat, j \in Nat
  <2>1. UpTo(S, i) \subseteq UpTo(S, j) /\ UpTo(S, j) \subseteq S
    BY <2>0 DEF UpTo
  <2>2. j \in UpTo(S, j) /\ j \notin UpTo(S, i)
    BY <1>4 DEF UpTo
  <2>3. IsFiniteSet(UpTo(S, j)) /\ IsFiniteSet(UpTo(S, i))
    BY <2>1, FS_Subset
  <2>4. /\ Cardinality(UpTo(S, i)) \in Nat /\ Cardinality(UpTo(S, j)) \in Nat
        /\ Cardinality(UpTo(S, i)) <= Cardinality(UpTo(S, j))
        /\ Cardinality(UpTo(S, i)) # Cardinality(UpTo(S, j))
    BY <2>1, <2>2, <2>3, FS_Subset, FS_CardinalityType
  <2> QED
    BY <2>4 DEF Rank
<1> QED
  BY <1>2, <1>3, <1>4

\* Each position is the rank of a member, for an injection of S into as many
\* positions as it has members is onto.
LEMMA RankOnto ==
    ASSUME NEW S \in SUBSET Nat, IsFiniteSet(S), NEW k \in 1 .. Cardinality(S)
    PROVE  \E i \in S : Rank(S, i) = k
<1> DEFINE N == Cardinality(S)
           f == [i \in S |-> Rank(S, i)]
<1>1. N \in Nat
  BY FS_CardinalityType
<1>2. IsFiniteSet(1 .. N) /\ Cardinality(1 .. N) = N
  BY <1>1, FS_Interval
<1>3. f \in [S -> 1 .. N]
  BY RankBounds
<1>4. ASSUME NEW i \in S, NEW j \in S, i # j PROVE f[i] # f[j]
  <2>1. i \in Nat /\ j \in Nat
    OBVIOUS
  <2>2. Rank(S, i) \in 1 .. N /\ Rank(S, j) \in 1 .. N
    BY <2>1, RankBounds
  <2>3. CASE i < j
    BY <2>1, <2>2, <2>3, RankBounds
  <2>4. CASE j < i
    BY <2>1, <2>2, <2>4, RankBounds
  <2> QED
    BY <1>4, <2>1, <2>3, <2>4
<1>5. f \in Injection(S, 1 .. N)
  BY <1>3, <1>4 DEF Injection, IsInjective
<1>6. f \in Surjection(S, 1 .. N)
  BY <1>2, <1>5, FS_Injection
<1> QED
  BY <1>6 DEF Surjection

\* Nth lists the members: the k-th is a member of rank k, ...
LEMMA NthIsMember ==
    ASSUME NEW S \in SUBSET Nat, IsFiniteSet(S), NEW k \in 1 .. Cardinality(S)
    PROVE  Nth(S, k) \in S /\ Rank(S, Nth(S, k)) = k
BY RankOnto DEF Nth

\* ... and a member is found at its rank.
LEMMA NthOfRank ==
    ASSUME NEW S \in SUBSET Nat, IsFiniteSet(S), NEW i \in S
    PROVE  Rank(S, i) \in 1 .. Cardinality(S) /\ Nth(S, Rank(S, i)) = i
<1> DEFINE j == Nth(S, Rank(S, i))
<1>1. i \in Nat /\ Rank(S, i) \in 1 .. Cardinality(S)
  BY RankBounds
<1>2. j \in S /\ Rank(S, j) = Rank(S, i) /\ j \in Nat
  BY <1>1, NthIsMember
<1>3. Rank(S, i) \in Nat
  BY <1>1, FS_CardinalityType
<1> HIDE DEF j
<1>4. ~(i < j)
  BY <1>1, <1>2, <1>3, RankBounds
<1>5. ~(j < i)
  BY <1>1, <1>2, <1>3, RankBounds
<1> QED
  BY <1>1, <1>2, <1>4, <1>5 DEF j

-----------------------------------------------------------------------------
(* Sums *)

\* The units of a column.
LEMMA Column ==
    ASSUME NEW x, NEW n \in Nat
    PROVE  IsFiniteSet({x} \X (1 .. n)) /\ Cardinality({x} \X (1 .. n)) = n
<1>1. IsFiniteSet(1 .. n) /\ Cardinality(1 .. n) = n
  BY FS_Interval
<1>2. IsFiniteSet({x}) /\ Cardinality({x}) = 1
  BY FS_Singleton
<1>3. /\ IsFiniteSet({x} \X (1 .. n))
      /\ Cardinality({x} \X (1 .. n)) = Cardinality({x}) * Cardinality(1 .. n)
  BY <1>1, <1>2, FS_Product
<1> QED BY <1>1, <1>2, <1>3

\* A unit is a place and a number up to the value there.
LEMMA UnitsAre ==
    ASSUME NEW S, NEW f \in [S -> Nat]
    PROVE  /\ \A x \in S : \A i \in 1 .. f[x] : <<x, i>> \in Units(f)
           /\ \A u \in Units(f) : u = <<u[1], u[2]>> /\ u[1] \in S /\ u[2] \in 1 .. f[u[1]]
BY DEF Units

\* A function with a finite domain has finitely many units, and a sum.
LEMMA SumType ==
    ASSUME NEW S, IsFiniteSet(S), NEW f \in [S -> Nat]
    PROVE  IsFiniteSet(Units(f)) /\ SumOf(f) \in Nat
<1> DEFINE col == [x \in S |-> {x} \X (1 .. f[x])]
           cols == {{x} \X (1 .. f[x]) : x \in S}
<1>1. col \in Surjection(S, cols)
  BY DEF Surjection
<1>2. IsFiniteSet(cols)
  BY <1>1, FS_Surjection
<1>3. ASSUME NEW c \in cols PROVE IsFiniteSet(c)
  <2>1. PICK x \in S : c = {x} \X (1 .. f[x])
    OBVIOUS
  <2>2. f[x] \in Nat
    OBVIOUS
  <2> QED BY <2>1, <2>2, Column
<1>4. IsFiniteSet(UNION cols)
  BY <1>2, <1>3, FS_UNION
<1>5. Units(f) = UNION cols
  BY DEF Units
<1> QED BY <1>4, <1>5, FS_CardinalityType DEF SumOf

\* When one value changes, the sum changes by as much.
LEMMA SumUpdate ==
    ASSUME NEW S, IsFiniteSet(S), NEW f \in [S -> Nat], NEW x \in S, NEW v \in Nat
    PROVE  /\ SumOf([f EXCEPT ![x] = v]) = SumOf(f) - f[x] + v
           /\ f[x] <= SumOf(f)
<1> DEFINE rest == {u \in Units(f) : u[1] # x}
           g == [f EXCEPT ![x] = v]
<1>1. ASSUME NEW h \in [S -> Nat], \A y \in S \ {x} : h[y] = f[y]
      PROVE  SumOf(h) = Cardinality(rest) + h[x] /\ Cardinality(rest) \in Nat
  <2> DEFINE col == {x} \X (1 .. h[x])
  <2>1. Units(h) = rest \cup col /\ rest \cap col = {}
    BY <1>1 DEF Units
  <2>2. IsFiniteSet(rest) /\ Cardinality(rest) \in Nat
    BY SumType, FS_Subset, FS_CardinalityType
  <2>3. IsFiniteSet(col) /\ Cardinality(col) = h[x] /\ h[x] \in Nat
    BY Column
  <2> HIDE DEF rest, col
  <2>4. Cardinality(rest \cup col) =
          Cardinality(rest) + Cardinality(col) - Cardinality(rest \cap col)
    BY <2>2, <2>3, FS_Union
  <2>5. Cardinality(rest \cap col) = 0
    BY <2>1, FS_EmptySet
  <2> QED BY <2>1, <2>2, <2>3, <2>4, <2>5 DEF SumOf
<1>2. g \in [S -> Nat] /\ g[x] = v /\ \A y \in S \ {x} : g[y] = f[y]
  OBVIOUS
<1> HIDE DEF g, rest
<1>3. SumOf(g) = Cardinality(rest) + v /\ Cardinality(rest) \in Nat
  BY <1>1, <1>2
<1>4. SumOf(f) = Cardinality(rest) + f[x] /\ f[x] \in Nat
  BY <1>1
<1>5. SumOf(g) = SumOf(f) - f[x] + v /\ f[x] <= SumOf(f)
  BY <1>3, <1>4
<1> QED BY <1>5 DEF g

\* Larger values have a larger sum.
LEMMA SumMonotone ==
    ASSUME NEW S, IsFiniteSet(S), NEW f \in [S -> Nat], NEW g \in [S -> Nat],
           \A x \in S : f[x] <= g[x]
    PROVE  SumOf(f) <= SumOf(g)
<1>1. Units(f) \subseteq Units(g)
  <2> SUFFICES ASSUME NEW u \in Units(f) PROVE u \in Units(g)
    OBVIOUS
  <2>1. u = <<u[1], u[2]>> /\ u[1] \in S /\ u[2] \in 1 .. f[u[1]]
    BY UnitsAre
  <2>2. u[2] \in 1 .. g[u[1]]
    BY <2>1
  <2> QED BY <2>1, <2>2, UnitsAre
<1> QED BY <1>1, SumType, FS_Subset DEF SumOf

\* The sum of equal values.
LEMMA SumConstant ==
    ASSUME NEW S, IsFiniteSet(S), NEW n \in Nat
    PROVE  SumOf([x \in S |-> n]) = Cardinality(S) * n
<1> DEFINE f == [x \in S |-> n]
<1>1. f \in [S -> Nat]
  OBVIOUS
<1>2. Units(f) = S \X (1 .. n)
  BY DEF Units
<1>3. IsFiniteSet(1 .. n) /\ Cardinality(1 .. n) = n
  BY FS_Interval
<1>4. Cardinality(S \X (1 .. n)) = Cardinality(S) * Cardinality(1 .. n)
  BY <1>3, FS_Product
<1> QED BY <1>2, <1>3, <1>4 DEF SumOf

\* Values are added before or after they are summed up.
LEMMA SumAdd ==
    ASSUME NEW S, IsFiniteSet(S), NEW f \in [S -> Nat], NEW g \in [S -> Nat]
    PROVE  SumOf([x \in S |-> f[x] + g[x]]) = SumOf(f) + SumOf(g)
<1> DEFINE h == [x \in S |-> f[x] + g[x]]
           above == {u \in Units(h) : u[2] > f[u[1]]}
           shift == [u \in Units(g) |-> <<u[1], f[u[1]] + u[2]>>]
<1>1. h \in [S -> Nat] /\ \A x \in S : h[x] = f[x] + g[x]
  OBVIOUS
<1> HIDE DEF h
<1>2. \A u \in Units(f) : u = <<u[1], u[2]>> /\ u[1] \in S /\ u[2] \in 1 .. f[u[1]]
  BY UnitsAre
<1>3. \A u \in Units(g) : u = <<u[1], u[2]>> /\ u[1] \in S /\ u[2] \in 1 .. g[u[1]]
  BY UnitsAre
<1>4. /\ \A u \in Units(h) : u = <<u[1], u[2]>> /\ u[1] \in S /\ u[2] \in 1 .. h[u[1]]
      /\ \A x \in S : \A i \in 1 .. h[x] : <<x, i>> \in Units(h)
  BY <1>1, UnitsAre
<1>5. Units(h) = Units(f) \cup above
  <2>1. ASSUME NEW u \in Units(f) PROVE u \in Units(h)
    <3>1. u = <<u[1], u[2]>> /\ u[1] \in S /\ u[2] \in 1 .. f[u[1]]
      BY <1>2
    <3>2. u[2] \in 1 .. h[u[1]]
      BY <3>1, <1>1
    <3> QED BY <3>1, <3>2, <1>4
  <2>2. ASSUME NEW u \in Units(h), u \notin above PROVE u \in Units(f)
    <3>1. u = <<u[1], u[2]>> /\ u[1] \in S /\ u[2] \in 1 .. h[u[1]]
      BY <1>4
    <3>2. u[2] \in 1 .. f[u[1]]
      BY <3>1, <2>2, <1>1
    <3> QED BY <3>1, <3>2, UnitsAre
  <2> QED BY <2>1, <2>2
<1>6. Units(f) \cap above = {}
  BY <1>2
<1>7. IsFiniteSet(Units(f)) /\ IsFiniteSet(Units(g)) /\ IsFiniteSet(above)
  <2>1. IsFiniteSet(Units(h))
    BY <1>1, SumType
  <2> QED BY <2>1, SumType, FS_Subset
<1>8. shift \in Bijection(Units(g), above)
  <2>1. ASSUME NEW u \in Units(g) PROVE shift[u] \in above
    <3>1. u[1] \in S /\ u[2] \in 1 .. g[u[1]]
      BY <1>3
    <3>2. f[u[1]] + u[2] \in 1 .. h[u[1]] /\ f[u[1]] + u[2] > f[u[1]]
      BY <3>1, <1>1
    <3> QED BY <3>1, <3>2, <1>4
  <2>2. ASSUME NEW u \in Units(g), NEW w \in Units(g), shift[u] = shift[w] PROVE u = w
    <3>1. /\ u = <<u[1], u[2]>> /\ u[1] \in S /\ u[2] \in 1 .. g[u[1]]
          /\ w = <<w[1], w[2]>> /\ w[1] \in S /\ w[2] \in 1 .. g[w[1]]
      BY <1>3
    <3>2. u[1] = w[1] /\ f[u[1]] + u[2] = f[w[1]] + w[2]
      BY <2>2
    <3>3. u[2] = w[2]
      BY <3>1, <3>2
    <3> QED BY <3>1, <3>2, <3>3
  <2>3. ASSUME NEW a \in above PROVE \E u \in Units(g) : shift[u] = a
    <3>1. a = <<a[1], a[2]>> /\ a[1] \in S /\ a[2] \in 1 .. h[a[1]] /\ a[2] > f[a[1]]
      BY <1>4
    <3> DEFINE u == <<a[1], a[2] - f[a[1]]>>
    <3>2. a[2] - f[a[1]] \in 1 .. g[a[1]]
      BY <3>1, <1>1
    <3>3. u \in Units(g)
      BY <3>1, <3>2, UnitsAre
    <3>4. f[a[1]] + (a[2] - f[a[1]]) = a[2]
      BY <3>1
    <3>5. shift[u] = a
      BY <3>1, <3>3, <3>4
    <3> QED BY <3>3, <3>5
  <2>4. shift \in [Units(g) -> above]
    BY <2>1
  <2>5. shift \in Injection(Units(g), above)
    BY <2>2, <2>4 DEF Injection, IsInjective
  <2>6. shift \in Surjection(Units(g), above)
    <3> HIDE DEF shift, above
    <3> QED BY <2>3, <2>4 DEF Surjection
  <2> QED BY <2>5, <2>6 DEF Bijection
<1> HIDE DEF above, shift
<1>9. Cardinality(above) = Cardinality(Units(g))
  BY <1>7, <1>8, FS_Bijection DEF ExistsBijection
<1>10. Cardinality(Units(f) \cup above) =
         Cardinality(Units(f)) + Cardinality(above) - Cardinality(Units(f) \cap above)
  BY <1>7, FS_Union
<1>11. Cardinality(Units(f) \cap above) = 0
  BY <1>6, FS_EmptySet
<1>12. Cardinality(Units(f)) \in Nat /\ Cardinality(Units(g)) \in Nat
  BY <1>7, FS_CardinalityType
<1>13. SumOf(h) = SumOf(f) + SumOf(g)
  BY <1>5, <1>9, <1>10, <1>11, <1>12 DEF SumOf
<1> QED BY <1>13 DEF h

\* S has at most one member.
Single(S) == \A x, y \in S : x = y

\* The sum over one row of a table is a part of the sum over the table, and all
\* of it if there is no other row.
LEMMA SumRow ==
    ASSUME NEW A, NEW B, IsFiniteSet(A), IsFiniteSet(B),
           NEW f \in [A \X B -> Nat], NEW b \in B
    PROVE  /\ SumOf([a \in A |-> f[<<a, b>>]]) <= SumOf(f)
           /\ Single(B) => SumOf(f) <= SumOf([a \in A |-> f[<<a, b>>]])
<1> DEFINE g == [a \in A |-> f[<<a, b>>]]
           place == [u \in Units(g) |-> <<<<u[1], b>>, u[2]>>]
<1>1. g \in [A -> Nat] /\ \A a \in A : g[a] = f[<<a, b>>]
  OBVIOUS
<1> HIDE DEF g
<1>2. \A u \in Units(g) : u = <<u[1], u[2]>> /\ u[1] \in A /\ u[2] \in 1 .. g[u[1]]
  BY <1>1, UnitsAre
<1>3. /\ \A u \in Units(f) : u = <<u[1], u[2]>> /\ u[1] \in A \X B /\ u[2] \in 1 .. f[u[1]]
      /\ \A x \in A \X B : \A i \in 1 .. f[x] : <<x, i>> \in Units(f)
  BY UnitsAre
<1>4. IsFiniteSet(A \X B)
  BY FS_Product
<1>5. /\ IsFiniteSet(Units(f)) /\ IsFiniteSet(Units(g))
      /\ SumOf(f) \in Nat /\ SumOf(g) \in Nat
  BY <1>1, <1>4, SumType
<1>6. place \in Injection(Units(g), Units(f))
  <2>1. ASSUME NEW u \in Units(g) PROVE place[u] \in Units(f)
    <3>1. u[1] \in A /\ u[2] \in 1 .. f[<<u[1], b>>] /\ <<u[1], b>> \in A \X B
      BY <1>1, <1>2
    <3> QED BY <3>1, <1>3
  <2>2. ASSUME NEW u \in Units(g), NEW w \in Units(g), place[u] = place[w] PROVE u = w
    <3>1. u[1] = w[1] /\ u[2] = w[2]
      BY <2>2
    <3> QED BY <3>1, <1>2
  <2>3. place \in [Units(g) -> Units(f)]
    BY <2>1
  <2> QED BY <2>2, <2>3 DEF Injection, IsInjective
<1>7. SumOf(g) <= SumOf(f)
  BY <1>5, <1>6, FS_Injection DEF SumOf
<1>8. ASSUME Single(B) PROVE SumOf(f) <= SumOf(g)
  <2>1. ASSUME NEW w \in Units(f) PROVE \E u \in Units(g) : place[u] = w
    <3>1. w = <<w[1], w[2]>> /\ w[1] \in A \X B /\ w[2] \in 1 .. f[w[1]]
      BY <1>3
    <3>2. PICK a \in A : w[1] = <<a, b>>
      BY <3>1, <1>8 DEF Single
    <3> DEFINE u == <<a, w[2]>>
    <3>3. w[2] \in 1 .. g[a]
      BY <3>1, <3>2, <1>1
    <3>4. u \in Units(g)
      BY <3>3, <1>1, UnitsAre
    <3>5. place[u] = <<<<a, b>>, w[2]>>
      BY <3>4
    <3> QED BY <3>1, <3>2, <3>4, <3>5
  <2>2. place \in Bijection(Units(g), Units(f))
    <3> HIDE DEF place
    <3> QED BY <2>1, <1>6 DEF Bijection, Injection, Surjection
  <2> QED BY <2>2, <1>5, FS_Bijection DEF SumOf, ExistsBijection
<1> QED BY <1>7, <1>8 DEF g

\* A further value adds to the sum.
LEMMA SumExtend ==
    ASSUME NEW S, IsFiniteSet(S), NEW x, x \notin S, NEW R, R = S \cup {x},
           NEW f \in [S -> Nat], NEW g \in [R -> Nat], \A y \in S : g[y] = f[y]
    PROVE  SumOf(g) = SumOf(f) + g[x]
<1> DEFINE col == {x} \X (1 .. g[x])
<1>1. Units(g) = Units(f) \cup col /\ Units(f) \cap col = {}
  <2>1. \A u \in Units(f) : u = <<u[1], u[2]>> /\ u[1] \in S /\ u[2] \in 1 .. f[u[1]]
    BY UnitsAre
  <2>2. \A u \in Units(g) : /\ u = <<u[1], u[2]>> /\ u[1] \in S \cup {x}
                            /\ u[2] \in 1 .. g[u[1]]
    BY UnitsAre
  <2>3. \A y \in S \cup {x} : \A i \in 1 .. g[y] : <<y, i>> \in Units(g)
    BY UnitsAre
  <2>4. \A y \in S : \A i \in 1 .. f[y] : <<y, i>> \in Units(f)
    BY UnitsAre
  <2>5. ASSUME NEW u \in Units(f) PROVE u \in Units(g) /\ u \notin col
    BY <2>1, <2>3
  <2>6. ASSUME NEW u \in col PROVE u \in Units(g)
    BY <2>3
  <2>7. ASSUME NEW u \in Units(g), u \notin Units(f) PROVE u \in col
    <3>1. u = <<u[1], u[2]>> /\ u[1] \in S \cup {x} /\ u[2] \in 1 .. g[u[1]]
      BY <2>2
    <3>2. u[1] = x
      BY <3>1, <2>4, <2>7
    <3> QED BY <3>1, <3>2
  <2> QED BY <2>5, <2>6, <2>7
<1>2. IsFiniteSet(Units(f)) /\ SumOf(f) \in Nat
  BY SumType
<1>3. IsFiniteSet(col) /\ Cardinality(col) = g[x] /\ g[x] \in Nat
  BY Column
<1> HIDE DEF col
<1>4. Cardinality(Units(f) \cup col) =
        Cardinality(Units(f)) + Cardinality(col) - Cardinality(Units(f) \cap col)
  BY <1>2, <1>3, FS_Union
<1>5. Cardinality(Units(f) \cap col) = 0
  BY <1>1, FS_EmptySet
<1> QED BY <1>1, <1>2, <1>3, <1>4, <1>5 DEF SumOf

\* The sum does not depend on what the values are called.
LEMMA SumRename ==
    ASSUME NEW S, NEW T, IsFiniteSet(S), NEW k \in Bijection(S, T),
           NEW f \in [S -> Nat], NEW g \in [T -> Nat], \A x \in S : g[k[x]] = f[x]
    PROVE  SumOf(g) = SumOf(f)
<1> DEFINE move == [u \in Units(f) |-> <<k[u[1]], u[2]>>]
<1>1. /\ k \in [S -> T] /\ (\A x, y \in S : k[x] = k[y] => x = y)
      /\ \A t \in T : \E x \in S : k[x] = t
  BY DEF Bijection, Injection, IsInjective, Surjection
<1>2. \A u \in Units(f) : u = <<u[1], u[2]>> /\ u[1] \in S /\ u[2] \in 1 .. f[u[1]]
  BY UnitsAre
<1>3. \A u \in Units(g) : u = <<u[1], u[2]>> /\ u[1] \in T /\ u[2] \in 1 .. g[u[1]]
  BY UnitsAre
<1>4. \A x \in S : \A i \in 1 .. f[x] : <<x, i>> \in Units(f)
  BY UnitsAre
<1>5. \A t \in T : \A i \in 1 .. g[t] : <<t, i>> \in Units(g)
  BY UnitsAre
<1>6. move \in [Units(f) -> Units(g)]
  <2> SUFFICES ASSUME NEW u \in Units(f) PROVE <<k[u[1]], u[2]>> \in Units(g)
    OBVIOUS
  <2>1. u[1] \in S /\ u[2] \in 1 .. f[u[1]]
    BY <1>2
  <2>2. k[u[1]] \in T /\ u[2] \in 1 .. g[k[u[1]]]
    BY <2>1, <1>1
  <2> QED BY <2>2, <1>5
<1>7. ASSUME NEW u \in Units(f), NEW w \in Units(f), move[u] = move[w] PROVE u = w
  <2>1. k[u[1]] = k[w[1]] /\ u[2] = w[2]
    BY <1>7
  <2>2. u[1] = w[1]
    BY <2>1, <1>1, <1>2
  <2> QED BY <2>1, <2>2, <1>2
<1>8. ASSUME NEW t \in Units(g) PROVE \E u \in Units(f) : move[u] = t
  <2>1. t = <<t[1], t[2]>> /\ t[1] \in T /\ t[2] \in 1 .. g[t[1]]
    BY <1>3
  <2>2. PICK x \in S : k[x] = t[1]
    BY <2>1, <1>1
  <2>3. t[2] \in 1 .. f[x]
    BY <2>1, <2>2
  <2>4. <<x, t[2]>> \in Units(f)
    BY <2>3, <1>4
  <2>5. move[<<x, t[2]>>] = t
    BY <2>1, <2>2, <2>4
  <2> QED BY <2>4, <2>5
<1> HIDE DEF move
<1>9. move \in Bijection(Units(f), Units(g))
  BY <1>6, <1>7, <1>8 DEF Bijection, Injection, IsInjective, Surjection
<1> QED BY <1>9, SumType, FS_Bijection DEF ExistsBijection, SumOf

\* One value is set apart.
LEMMA SumSplit ==
    ASSUME NEW R, IsFiniteSet(R), NEW g \in [R -> Nat], NEW x \in R
    PROVE  SumOf(g) = SumOf([y \in R \ {x} |-> g[y]]) + g[x]
<1> DEFINE S == R \ {x}
           f == [y \in S |-> g[y]]
<1>1. /\ IsFiniteSet(S) /\ x \notin S /\ R = S \cup {x} /\ f \in [S -> Nat]
      /\ \A y \in S : g[y] = f[y]
  BY FS_Subset
<1> HIDE DEF S, f
<1>2. SumOf(g) = SumOf(f) + g[x]
  BY <1>1, SumExtend
<1> QED BY <1>2 DEF S, f

\* The values are added up in another order.
LEMMA SumReorder ==
    ASSUME NEW S, NEW T, IsFiniteSet(S), NEW k \in Bijection(S, T), NEW g \in [T -> Nat]
    PROVE  SumOf(g) = SumOf([x \in S |-> g[k[x]]])
<1> DEFINE f == [x \in S |-> g[k[x]]]
<1>1. f \in [S -> Nat] /\ \A x \in S : g[k[x]] = f[x]
  BY DEF Bijection, Injection
<1> HIDE DEF f
<1>2. SumOf(g) = SumOf(f)
  BY <1>1, SumRename
<1> QED BY <1>2 DEF f

-----------------------------------------------------------------------------
(* Recursion *)

\* The functions on 0 .. n that start at x and go on by step.
RunOf(n, S, x, step) ==
    {f \in [0 .. n -> S] : f[0] = x /\ \A i \in 1 .. n : f[i] = step[<<i, f[i - 1]>>]}

\* A recursive definition on 0 .. n that stays within S has a solution.
LEMMA RunExists ==
    ASSUME NEW n \in Nat, NEW S, NEW x \in S, NEW step \in [(1 .. n) \X S -> S]
    PROVE  RunOf(n, S, x, step) # {}
<1> DEFINE T == {k \in 0 .. n : RunOf(k, S, x, step) = {}}
<1>1. SUFFICES ASSUME T # {} PROVE FALSE
  OBVIOUS
<1>2. T \in SUBSET Nat
  OBVIOUS
<1>3. \E k \in T : \A j \in T : k <= j
  <2> HIDE DEF T
  <2> QED BY <1>1, <1>2, LeastElement
<1>4. PICK k \in T : \A j \in T : k <= j
  BY <1>3
<1>5. CASE k = 0
  <2>1. [i \in 0 .. 0 |-> x] \in RunOf(0, S, x, step)
    BY DEF RunOf
  <2> QED BY <1>5, <2>1
<1>6. CASE k # 0
  <2>1. k \in 1 .. n /\ k - 1 \in 0 .. n /\ k - 1 \notin T
    BY <1>4, <1>6
  <2>2. PICK f : f \in RunOf(k - 1, S, x, step)
    BY <2>1
  <2>3. /\ f \in [0 .. (k - 1) -> S] /\ f[0] = x
        /\ \A i \in 1 .. (k - 1) : f[i] = step[<<i, f[i - 1]>>]
    BY <2>2 DEF RunOf
  <2> DEFINE g == [i \in 0 .. k |-> IF i = k THEN step[<<k, f[k - 1]>>] ELSE f[i]]
  <2>4. g \in [0 .. k -> S] /\ g[0] = x
    BY <2>1, <2>3, <1>6
  <2>5. \A i \in 1 .. k : g[i] = step[<<i, g[i - 1]>>]
    <3> SUFFICES ASSUME NEW i \in 1 .. k PROVE g[i] = step[<<i, g[i - 1]>>]
      OBVIOUS
    <3>1. g[i - 1] = f[i - 1]
      BY <2>1
    <3>2. i # k => i \in 1 .. (k - 1) /\ g[i] = f[i]
      BY <2>1
    <3>3. i = k => g[i] = step[<<k, f[k - 1]>>]
      BY <2>1
    <3> HIDE DEF g
    <3> QED BY <2>3, <3>1, <3>2, <3>3
  <2> HIDE DEF g
  <2>6. g \in RunOf(k, S, x, step)
    BY <2>4, <2>5 DEF RunOf
  <2> QED BY <2>6
<1> QED BY <1>5, <1>6

=============================================================================
