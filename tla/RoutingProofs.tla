---------------------------- MODULE RoutingProofs ----------------------------
(***************************************************************************)
(* Proofs about the routing: for every topology the search finds the       *)
(* shortest paths through switches, so that the tables, the choice of NICs *)
(* and the packets are right, also after a link was taken down.            *)
(*                                                                         *)
(* The search is shown to keep Explored, the loop invariant of             *)
(* CalculateRoute.  What is left of it when all nodes in the queue have    *)
(* been expanded, Labelled, says how the labels of neighbours relate; that *)
(* makes them the distances of the property.                               *)
(***************************************************************************)
EXTENDS Routing, CountingProofs, SequenceTheorems, FiniteSetTheorems, TLAPS

-----------------------------------------------------------------------------
(* Nodes and links *)

\* Nodes and switches are finitely many numbers.
LEMMA NodesAre ==
    /\ IsFiniteSet(Nodes) /\ Cardinality(Nodes) \in Nat /\ Nodes \in SUBSET Nat
    /\ \A n \in Nodes : n \in Nat
    /\ IsFiniteSet(Switches) /\ Cardinality(Switches) \in Nat
    /\ Hosts \cap Switches = {} /\ Nodes = Hosts \cup Switches
<1>1. IsFiniteSet(Nodes) /\ Nodes \in SUBSET Nat /\ Hosts \cap Switches = {}
  BY RoutingAssumption
<1>2. Switches \in SUBSET Nodes /\ Nodes = Hosts \cup Switches
  BY DEF Nodes
<1>3. IsFiniteSet(Switches)
  BY <1>1, <1>2, FS_Subset
<1> QED BY <1>1, <1>2, <1>3, FS_CardinalityType

\* A link has two ends, and no node is its own neighbour.
LEMMA LinkEnds ==
    ASSUME NEW L \in SUBSET AllLinks, NEW a, NEW b, {a, b} \in L
    PROVE  a \in Nodes /\ b \in Nodes /\ a # b /\ {b, a} \in L
<1> DEFINE l == {a, b}
<1>0. l \in AllLinks
  OBVIOUS
<1>1. (\E c \in Nodes, d \in Nodes : l = {c, d}) /\ Cardinality(l) = 2
  <2> HIDE DEF l
  <2>1. l \in {{c, d} : c, d \in Nodes} /\ Cardinality(l) = 2
    BY <1>0, RoutingAssumption
  <2> QED BY <2>1
<1>2. Cardinality({a, b}) = 2
  BY <1>1
<1>3. a # b
  <2>1. ASSUME a = b PROVE FALSE
    <3>1. {a, b} = {a}
      BY <2>1
    <3>2. Cardinality({a}) = 1
      BY FS_Singleton, Zenon
    <3> QED BY <3>1, <3>2, <1>2
  <2> QED BY <2>1
<1>4. {a, b} = {b, a}
  OBVIOUS
<1>5. a \in Nodes /\ b \in Nodes
  BY <1>1
<1> QED BY <1>3, <1>4, <1>5

\* The neighbours of a node are the other ends of its links.
LEMMA NeighboursAre ==
    ASSUME NEW L \in SUBSET AllLinks, NEW n, NEW m
    PROVE  m \in Neighbours(L, n) <=> {n, m} \in L
BY LinkEnds DEF Neighbours

-----------------------------------------------------------------------------
(* The enqueued neighbours *)

\* The members of a set in order: each is there once.
LEMMA AscendingIs ==
    ASSUME NEW S \in SUBSET Nodes
    PROVE  /\ Ascending(S) \in Seq(S) /\ Len(Ascending(S)) = Cardinality(S)
           /\ \A i, j \in 1 .. Cardinality(S) : Ascending(S)[i] = Ascending(S)[j] => i = j
           /\ \A x \in S : \E i \in 1 .. Cardinality(S) : Ascending(S)[i] = x
           /\ Cardinality(S) \in Nat
<1> DEFINE c == Cardinality(S)
<1>1. IsFiniteSet(S) /\ c \in Nat /\ S \in SUBSET Nat
  BY NodesAre, FS_Subset, FS_CardinalityType
<1>2. \A k \in 1 .. c : Nth(S, k) \in S /\ Rank(S, Nth(S, k)) = k
  BY <1>1, NthIsMember
<1>3. \A x \in S : Rank(S, x) \in 1 .. c /\ Nth(S, Rank(S, x)) = x
  BY <1>1, NthOfRank
<1> HIDE DEF c
<1>4. Ascending(S) = [k \in 1 .. c |-> Nth(S, k)]
  BY DEF Ascending, c
<1>5. Ascending(S) \in [1 .. c -> S] /\ \A k \in 1 .. c : Ascending(S)[k] = Nth(S, k)
  BY <1>2, <1>4
<1>6. Ascending(S) \in Seq(S) /\ Len(Ascending(S)) = c
  BY <1>1, <1>5
<1>7. ASSUME NEW i \in 1 .. c, NEW j \in 1 .. c, Ascending(S)[i] = Ascending(S)[j]
      PROVE  i = j
  BY <1>2, <1>5, <1>7
<1>8. ASSUME NEW x \in S PROVE \E i \in 1 .. c : Ascending(S)[i] = x
  BY <1>3, <1>5
<1> QED BY <1>1, <1>6, <1>7, <1>8 DEF c

-----------------------------------------------------------------------------
(* The rounds of the search *)

Labels == Nat \cup {Unvisited}
SearchStates ==
    [q : Seq(Nodes), dis : [Nodes -> Labels], nextHop : [Nodes -> SUBSET Nodes]]

\* The neighbours of now that have no label yet.
Fresh(s, L, now) == {n \in Neighbours(L, now) : s.dis[n] = Unvisited}

\* t is s after now, whose unlabelled neighbours are new, has been expanded.
Expanded(s, L, now, new, t) ==
    /\ t.q = s.q \o Ascending(new \cap Switches)
    /\ \A n \in Nodes : t.dis[n] = IF n \in new THEN s.dis[now] + 1 ELSE s.dis[n]
    /\ \A n \in Nodes : t.nextHop[n] =
          IF {now, n} \in L /\ t.dis[n] = t.dis[now] + 1 THEN s.nextHop[n] \cup {now}
          ELSE s.nextHop[n]

\* What a round does to the queue, the labels and the next hops.
LEMMA ExpandIs ==
    ASSUME NEW s \in SearchStates, NEW L \in SUBSET AllLinks, NEW now \in Nodes
    PROVE  /\ Expand(s, L, now) \in SearchStates
           /\ Expanded(s, L, now, Fresh(s, L, now), Expand(s, L, now))
<1> DEFINE new == Fresh(s, L, now)
           t == Expand(s, L, now)
           next == Neighbours(L, now)
           dis == [n \in Nodes |-> IF n \in new THEN s.dis[now] + 1 ELSE s.dis[n]]
           enq == Ascending(new \cap Switches)
           hop == [n \in Nodes |-> IF n \in next /\ dis[n] = dis[now] + 1
                                   THEN s.nextHop[n] \cup {now} ELSE s.nextHop[n]]
<1>1. t = [q |-> s.q \o enq, dis |-> dis, nextHop |-> hop]
  BY DEF Expand, Fresh, EnqueueSwitches, OnShortestPath
<1>2. /\ s.q \in Seq(Nodes) /\ s.dis \in [Nodes -> Labels]
      /\ s.nextHop \in [Nodes -> SUBSET Nodes]
  BY DEF SearchStates
<1>3. dis \in [Nodes -> Labels]
  BY <1>2 DEF Labels, Unvisited
<1>4. hop \in [Nodes -> SUBSET Nodes]
  BY <1>2
<1>5. s.q \o enq \in Seq(Nodes)
  <2> DEFINE S == new \cap Switches
  <2>1. S \in SUBSET Nodes
    BY DEF Fresh, Neighbours
  <2> HIDE DEF S
  <2>2. Ascending(S) \in Seq(S)
    BY <2>1, AscendingIs
  <2>3. Ascending(S) \in Seq(Nodes)
    BY <2>1, <2>2, SeqMonotonic
  <2>4. s.q \o Ascending(S) \in Seq(Nodes)
    BY <1>2, <2>3, ConcatProperties
  <2> QED BY <2>4 DEF S
<1>6. t.q = s.q \o enq /\ t.dis = dis /\ t.nextHop = hop
  BY <1>1
<1>7. t \in SearchStates
  <2> HIDE DEF dis, hop, enq
  <2> QED BY <1>1, <1>3, <1>4, <1>5 DEF SearchStates
<1>8. \A n \in Nodes : n \in next <=> {now, n} \in L
  BY NeighboursAre
<1>9. \A n \in Nodes : hop[n] =
         IF {now, n} \in L /\ dis[n] = dis[now] + 1 THEN s.nextHop[n] \cup {now}
         ELSE s.nextHop[n]
  <2> HIDE DEF next, dis
  <2> QED BY <1>8
<1> HIDE DEF hop, new, t
<1>10. Expanded(s, L, now, new, t)
  BY <1>6, <1>9 DEF Expanded
<1> QED BY <1>7, <1>10 DEF new, t

\* A round, or none when the queue is empty, leads from state to state.
LEMMA RoundType ==
    ASSUME NEW s \in SearchStates, NEW L \in SUBSET AllLinks, NEW i \in Nat \ {0}
    PROVE  Round(s, L, i) \in SearchStates
<1>1. s.q \in Seq(Nodes)
  BY DEF SearchStates
<1>2. CASE i > Len(s.q)
  BY <1>2 DEF Round
<1>3. CASE ~(i > Len(s.q))
  <2>0. i \in 1 .. Len(s.q)
    BY <1>1, <1>3
  <2>1. s.q[i] \in Nodes
    BY <1>1, <2>0, ElementOfSeq
  <2>2. Expand(s, L, s.q[i]) \in SearchStates
    BY <2>1, ExpandIs
  <2> QED BY <1>3, <2>2 DEF Round
<1> QED BY <1>2, <1>3

\* The search starts in a state, ...
LEMMA StartType ==
    ASSUME NEW h \in Hosts
    PROVE  Start(h) \in SearchStates
BY DEF Start, SearchStates, Labels, Unvisited, Nodes

\* run are the states of a search of n rounds.
IsSearch(L, h, n, run) ==
    /\ run \in [0 .. n -> SearchStates] /\ run[0] = Start(h)
    /\ \A i \in 1 .. n : run[i] = Round(run[i - 1], L, i)

\* ... and goes from round to round.
LEMMA SearchRuns ==
    ASSUME NEW L \in SUBSET AllLinks, NEW h \in Hosts
    PROVE  IsSearch(L, h, Cardinality(Nodes), Search(L, h))
<1> DEFINE N == Cardinality(Nodes)
           run == Search(L, h)
<1>1. N \in Nat
  BY NodesAre
<1> DEFINE step == [c \in (1 .. N) \X SearchStates |-> Round(c[2], L, c[1])]
           x == Start(h)
<1>2. step \in [(1 .. N) \X SearchStates -> SearchStates] /\ x \in SearchStates
  BY RoundType, StartType
<1>3. \A i \in 1 .. N : \A s \in SearchStates : step[<<i, s>>] = Round(s, L, i)
  OBVIOUS
<1> HIDE DEF step
<1>4. RunOf(N, SearchStates, x, step) # {}
  BY <1>1, <1>2, RunExists
<1>5. PICK f : f \in RunOf(N, SearchStates, x, step)
  BY <1>4
<1>6. /\ f \in [0 .. N -> SearchStates] /\ f[0] = x
      /\ \A i \in 1 .. N : f[i] = step[<<i, f[i - 1]>>]
  BY <1>5 DEF RunOf
<1> HIDE DEF x
<1>7. ASSUME NEW i \in 1 .. N PROVE f[i] = Round(f[i - 1], L, i)
  <2>1. i - 1 \in 0 .. N
    BY <1>1
  <2>2. f[i - 1] \in SearchStates
    BY <1>6, <2>1
  <2>3. step[<<i, f[i - 1]>>] = Round(f[i - 1], L, i)
    BY <1>3, <2>2
  <2> QED BY <1>6, <2>3
<1> DEFINE g == [i \in 0 .. N |-> IF i = 0 THEN x ELSE Round(f[i - 1], L, i)]
<1>8. f = g
  <2>1. \A i \in 0 .. N : f[i] = g[i]
    BY <1>1, <1>6, <1>7
  <2> QED BY <1>6, <2>1
<1>9. \E r : r = [i \in 0 .. N |-> IF i = 0 THEN x ELSE Round(r[i - 1], L, i)]
  BY <1>8
<1>10. run = [i \in 0 .. N |-> IF i = 0 THEN x ELSE Round(run[i - 1], L, i)]
  <2>1. \E r : r = [i \in 0 .. Cardinality(Nodes) |->
                      IF i = 0 THEN Start(h) ELSE Round(r[i - 1], L, i)]
    BY <1>9 DEF x
  <2>2. Search(L, h) = [i \in 0 .. Cardinality(Nodes) |->
                          IF i = 0 THEN Start(h) ELSE Round(Search(L, h)[i - 1], L, i)]
    BY <2>1, Zenon DEF Search
  <2> QED BY <2>2 DEF x
<1>11. /\ DOMAIN run = 0 .. N /\ run[0] = x
       /\ \A i \in 1 .. N : run[i] = Round(run[i - 1], L, i)
  <2> DEFINE r == [i \in 0 .. N |-> IF i = 0 THEN x ELSE Round(run[i - 1], L, i)]
  <2>1. /\ DOMAIN r = 0 .. N /\ r[0] = x
        /\ \A i \in 1 .. N : r[i] = Round(run[i - 1], L, i)
    BY <1>1
  <2>2. run = r
    BY <1>10
  <2> HIDE DEF r
  <2> QED BY <2>1, <2>2
<1>12. \A i \in 0 .. N : run[i] \in SearchStates
  <2> DEFINE T == {i \in 0 .. N : run[i] \notin SearchStates}
  <2>1. SUFFICES ASSUME T # {} PROVE FALSE
    OBVIOUS
  <2>2. PICK i \in T : \A j \in T : i <= j
    <3>1. T \in SUBSET Nat
      BY <1>1
    <3> HIDE DEF T
    <3> QED BY <2>1, <3>1, LeastElement
  <2>3. i # 0
    BY <1>11, <1>2, <2>2
  <2>4. i \in 1 .. N /\ i - 1 \in 0 .. N /\ i - 1 \notin T
    BY <1>1, <2>2, <2>3
  <2>5. run[i - 1] \in SearchStates
    BY <2>4
  <2>6. Round(run[i - 1], L, i) \in SearchStates
    BY <2>4, <2>5, RoundType
  <2> QED BY <1>11, <2>4, <2>6
<1>13. run \in [0 .. N -> SearchStates]
  BY <1>10, <1>11, <1>12
<1> HIDE DEF run
<1> QED BY <1>1, <1>11, <1>13 DEF x, IsSearch, run

-----------------------------------------------------------------------------
(* The loop invariant of CalculateRoute *)

\* The queue holds the host, then the labelled switches, each once.
QueueOk(h, s) ==
    /\ Len(s.q) >= 1 /\ s.q[1] = h /\ s.dis[h] = 0
    /\ \A j, k \in 1 .. Len(s.q) : s.q[j] = s.q[k] => j = k
    /\ \A j \in 1 .. Len(s.q) : s.q[j] \in {h} \cup Switches /\ s.dis[s.q[j]] # Unvisited
    /\ \A m \in Switches : s.dis[m] # Unvisited => \E j \in 1 .. Len(s.q) : s.q[j] = m
\* Labels grow along the queue.
Ordered(s) ==
    \A j, k \in 1 .. Len(s.q) : j <= k => s.dis[s.q[j]] <= s.dis[s.q[k]]
\* A label comes from one of the first i nodes of the queue.
Reached(L, h, i, s) ==
    \A n \in Nodes \ {h} : s.dis[n] # Unvisited =>
        /\ s.dis[n] > 0
        /\ \E j \in 1 .. Len(s.q) : /\ j <= i /\ {s.q[j], n} \in L
                                    /\ s.dis[n] = s.dis[s.q[j]] + 1
\* All neighbours of the first i nodes of the queue are labelled.
Covered(L, i, s) ==
    \A j \in 1 .. Len(s.q) : \A n \in Nodes : j <= i /\ {s.q[j], n} \in L =>
        s.dis[n] # Unvisited /\ s.dis[n] <= s.dis[s.q[j]] + 1
\* The next hops are those of the first i nodes that are one closer.
HopsOk(L, i, s) ==
    \A n \in Nodes, m \in Nodes : m \in s.nextHop[n] <=>
        \E j \in 1 .. Len(s.q) : /\ j <= i /\ s.q[j] = m /\ {m, n} \in L
                                 /\ s.dis[n] = s.dis[m] + 1

\* After i rounds.
Explored(L, h, i, s) ==
    QueueOk(h, s) /\ Ordered(s) /\ Reached(L, h, i, s) /\ Covered(L, i, s) /\ HopsOk(L, i, s)

\* Before the first round.
LEMMA StartExplored ==
    ASSUME NEW L \in SUBSET AllLinks, NEW h \in Hosts
    PROVE  Explored(L, h, 0, Start(h))
<1> DEFINE s == Start(h)
<1>1. /\ s.q = <<h>> /\ Len(s.q) = 1 /\ s.q[1] = h
      /\ \A n \in Nodes : s.dis[n] = (IF n = h THEN 0 ELSE Unvisited) /\ s.nextHop[n] = {}
  BY DEF Start
<1>2. h \in Nodes /\ h \notin Switches /\ Switches \subseteq Nodes
  BY NodesAre
<1> HIDE DEF s
<1>3. QueueOk(h, s) /\ Ordered(s) /\ Reached(L, h, 0, s) /\ Covered(L, 0, s)
  BY <1>1, <1>2 DEF QueueOk, Ordered, Reached, Covered, Unvisited
<1>4. HopsOk(L, 0, s)
  BY <1>1 DEF HopsOk
<1> QED BY <1>3, <1>4 DEF Explored, s

\* p is q with the members of S after it, each once.
Appended(q, S, p) ==
    /\ Len(q) \in Nat /\ Len(p) \in Nat /\ Len(q) <= Len(p)
    /\ \A j \in 1 .. Len(q) : p[j] = q[j]
    /\ \A j \in 1 .. Len(p) : j > Len(q) => p[j] \in S
    /\ \A j, k \in 1 .. Len(p) : j > Len(q) /\ k > Len(q) /\ p[j] = p[k] => j = k
    /\ \A x \in S : \E j \in 1 .. Len(p) : p[j] = x

\* The queue after a round: the new switches come after what was there.
LEMMA ExpandedQueue ==
    ASSUME NEW q \in Seq(Nodes), NEW p \in Seq(Nodes), NEW S \in SUBSET Nodes,
           p = q \o Ascending(S)
    PROVE  Appended(q, S, p)
<1> DEFINE a == Ascending(S)
           c == Cardinality(S)
<1>1. /\ a \in Seq(S) /\ Len(a) = c /\ c \in Nat
      /\ \A i, j \in 1 .. c : a[i] = a[j] => i = j
      /\ \A x \in S : \E i \in 1 .. c : a[i] = x
  BY AscendingIs
<1> HIDE DEF a, c
<1>2. a \in Seq(Nodes) /\ \A i \in 1 .. c : a[i] \in S
  BY <1>1, SeqMonotonic, ElementOfSeq
<1>3. Len(q) \in Nat
  BY LenProperties
<1>4. /\ Len(q \o a) = Len(q) + c
      /\ \A i \in 1 .. Len(q) + c : (q \o a)[i] = IF i <= Len(q) THEN q[i] ELSE a[i - Len(q)]
  <2>1. /\ Len(q \o a) = Len(q) + Len(a)
        /\ \A i \in 1 .. Len(q) + Len(a) : (q \o a)[i] =
                 IF i <= Len(q) THEN q[i] ELSE a[i - Len(q)]
    BY <1>2, ConcatProperties, Zenon
  <2> QED BY <1>1, <2>1, Zenon
<1>5. p = q \o a
  BY DEF a
<1>6. /\ Len(p) = Len(q) + c
      /\ \A i \in 1 .. Len(q) + c : p[i] = IF i <= Len(q) THEN q[i] ELSE a[i - Len(q)]
  BY <1>4, <1>5
<1>7. \A j \in 1 .. Len(p) : j > Len(q) => p[j] = a[j - Len(q)] /\ j - Len(q) \in 1 .. c
  BY <1>1, <1>3, <1>6
<1>8. \A j \in 1 .. Len(p) : j > Len(q) => p[j] \in S
  BY <1>2, <1>7
<1>9. ASSUME NEW j \in 1 .. Len(q) PROVE p[j] = q[j]
  <2>1. j \in 1 .. Len(q) + c /\ j <= Len(q)
    BY <1>1, <1>3
  <2> HIDE DEF a
  <2> QED BY <1>6, <2>1
<1>10. ASSUME NEW j \in 1 .. Len(p), NEW k \in 1 .. Len(p), j > Len(q), k > Len(q), p[j] = p[k]
       PROVE  j = k
  <2>1. j - Len(q) = k - Len(q)
    BY <1>1, <1>7, <1>10
  <2> QED BY <2>1, <1>3, <1>6, <1>1
<1>11. ASSUME NEW x \in S PROVE \E j \in 1 .. Len(p) : p[j] = x
  <2>1. PICK i \in 1 .. c : a[i] = x
    BY <1>1
  <2>2. Len(q) + i \in 1 .. Len(p) /\ Len(q) + i > Len(q) /\ (Len(q) + i) - Len(q) = i
    BY <1>1, <1>3, <1>6
  <2>3. p[Len(q) + i] = a[i]
    BY <1>7, <2>2
  <2> QED BY <2>1, <2>2, <2>3
<1> QED BY <1>1, <1>3, <1>6, <1>8, <1>9, <1>10, <1>11 DEF Appended

\* A round keeps the invariant.
LEMMA ExpandExplored ==
    ASSUME NEW L \in SUBSET AllLinks, NEW h \in Hosts,
           NEW s \in SearchStates, NEW i \in 1 .. Len(s.q), Explored(L, h, i - 1, s),
           NEW t \in SearchStates, NEW now, now = s.q[i],
           NEW new, new = Fresh(s, L, now), Expanded(s, L, now, new, t)
    PROVE  Explored(L, h, i, t)
<1> DEFINE q == s.q
           p == t.q
           u == s.dis
           v == t.dis
           d == u[now]
           Q == 1 .. Len(q)
           P == 1 .. Len(p)
           S == new \cap Switches
<1>1. /\ q \in Seq(Nodes) /\ p \in Seq(Nodes) /\ u \in [Nodes -> Labels]
      /\ v \in [Nodes -> Labels]
  BY DEF SearchStates
<1>2. /\ h \in Nodes /\ h \notin Switches /\ Switches \in SUBSET Nodes
      /\ \A j \in Q : q[j] \in Nodes
      /\ \A j \in P : p[j] \in Nodes
      /\ \A n \in Nodes : u[n] \in Int /\ v[n] \in Int /\ (u[n] # Unvisited => u[n] \in Nat)
  BY <1>1, NodesAre, ElementOfSeq DEF Labels, Unvisited
<1>3. /\ Len(q) >= 1 /\ q[1] = h /\ u[h] = 0
      /\ \A j, k \in Q : q[j] = q[k] => j = k
      /\ \A j \in Q : q[j] \in {h} \cup Switches /\ u[q[j]] # Unvisited
      /\ \A m \in Switches : u[m] # Unvisited => \E j \in Q : q[j] = m
  BY DEF Explored, QueueOk
<1>4. \A j, k \in Q : j <= k => u[q[j]] <= u[q[k]]
  BY DEF Explored, Ordered
<1>5. \A n \in Nodes \ {h} : u[n] # Unvisited =>
         u[n] > 0 /\ \E j \in Q : j <= i - 1 /\ {q[j], n} \in L /\ u[n] = u[q[j]] + 1
  BY DEF Explored, Reached
<1>6. \A j \in Q : \A n \in Nodes : j <= i - 1 /\ {q[j], n} \in L =>
         u[n] # Unvisited /\ u[n] <= u[q[j]] + 1
  BY DEF Explored, Covered
<1>7. \A n \in Nodes, m \in Nodes : m \in s.nextHop[n] <=>
         \E j \in Q : j <= i - 1 /\ q[j] = m /\ {m, n} \in L /\ u[n] = u[m] + 1
  BY DEF Explored, HopsOk
<1>8. /\ \A n \in Nodes : v[n] = IF n \in new THEN d + 1 ELSE u[n]
      /\ \A n \in Nodes : t.nextHop[n] =
            IF {now, n} \in L /\ v[n] = v[now] + 1 THEN s.nextHop[n] \cup {now}
            ELSE s.nextHop[n]
      /\ p = q \o Ascending(S)
  BY DEF Expanded
<1>9. /\ new \in SUBSET Nodes
      /\ \A n \in Nodes : n \in new <=> {now, n} \in L /\ u[n] = Unvisited
  <2>1. new \in SUBSET Nodes
    BY DEF Fresh, Neighbours
  <2>2. \A n \in Nodes : n \in Neighbours(L, now) <=> {now, n} \in L
    BY NeighboursAre
  <2>3. \A n \in Nodes : n \in new <=> n \in Neighbours(L, now) /\ u[n] = Unvisited
    BY DEF Fresh, Neighbours
  <2> QED BY <2>1, <2>2, <2>3
<1>10. S \in SUBSET Nodes /\ \A n \in S : n \in new /\ n \in Switches
  BY <1>9
<1>11. i \in Q /\ now = q[i] /\ now \in Nodes /\ i \in Nat
  BY <1>1, <1>2
<1> HIDE DEF q, p, u, v, S
<1>12. /\ Len(q) \in Nat /\ Len(p) \in Nat /\ Len(q) <= Len(p)
       /\ \A j \in 1 .. Len(q) : p[j] = q[j]
       /\ \A j \in 1 .. Len(p) : j > Len(q) => p[j] \in S
       /\ \A j, k \in 1 .. Len(p) : j > Len(q) /\ k > Len(q) /\ p[j] = p[k] => j = k
       /\ \A x \in S : \E j \in 1 .. Len(p) : p[j] = x
  <2>1. q \in Seq(Nodes) /\ p \in Seq(Nodes) /\ S \in SUBSET Nodes /\ p = q \o Ascending(S)
    BY <1>1, <1>8, <1>10
  <2>2. Appended(q, S, p)
    BY <2>1, ExpandedQueue
  <2> QED BY <2>2 DEF Appended
<1>13. Q \subseteq P /\ \A j \in P : (j \in Q) \/ j > Len(q)
  BY <1>12
<1>14. d \in Nat /\ now \notin new /\ h \notin new /\ \A j \in Q : q[j] \notin new
  <2>1. ASSUME NEW j \in Q PROVE q[j] \notin new
    <3>1. q[j] \in Nodes /\ u[q[j]] # Unvisited
      BY <1>2, <1>3
    <3> QED BY <3>1, <1>9
  <2>2. u[now] # Unvisited
    BY <1>3, <1>11
  <2>3. 1 \in Q
    BY <1>3, <1>12
  <2> QED BY <1>2, <1>3, <1>11, <2>1, <2>2, <2>3
<1>15. \A j \in P : j <= i => j \in Q /\ (j <= i - 1 \/ j = i)
  <2>1. i \in Nat /\ i <= Len(q)
    BY <1>11, <1>12
  <2> QED BY <2>1, <1>12
<1>16. /\ v[now] = d /\ v[h] = 0
       /\ \A j \in Q : v[q[j]] = u[q[j]] /\ u[q[j]] \in Nat
       /\ \A n \in new : v[n] = d + 1
       /\ \A n \in Nodes : n \notin new => v[n] = u[n]
  BY <1>2, <1>3, <1>8, <1>9, <1>11, <1>14
<1>17. ASSUME NEW n \in Nodes, u[n] # Unvisited PROVE u[n] <= d + 1
  <2>1. CASE n = h
    BY <2>1, <1>3, <1>14
  <2>2. CASE n # h
    <3>1. PICK j \in Q : j <= i - 1 /\ u[n] = u[q[j]] + 1
      BY <1>5, <1>17, <2>2
    <3>2. j <= i
      BY <3>1, <1>11, <1>12
    <3>3. u[q[j]] <= d
      BY <3>2, <1>4, <1>11
    <3> QED BY <3>1, <3>3, <1>14, <1>16
  <2> QED BY <2>1, <2>2
<1>18. QueueOk(h, t)
  <2>1. Len(p) >= 1 /\ p[1] = h /\ v[h] = 0
    BY <1>3, <1>12, <1>16
  <2>2. ASSUME NEW j \in P, NEW k \in P, p[j] = p[k] PROVE j = k
    <3>1. CASE j \in Q /\ k \in Q
      BY <3>1, <2>2, <1>3, <1>12
    <3>2. CASE j \in Q /\ k \notin Q
      BY <3>2, <2>2, <1>10, <1>12, <1>13, <1>14
    <3>3. CASE j \notin Q /\ k \in Q
      BY <3>3, <2>2, <1>10, <1>12, <1>13, <1>14
    <3>4. CASE j \notin Q /\ k \notin Q
      BY <3>4, <2>2, <1>12, <1>13
    <3> QED BY <3>1, <3>2, <3>3, <3>4
  <2>3. ASSUME NEW j \in P PROVE p[j] \in {h} \cup Switches /\ v[p[j]] # Unvisited
    <3>1. CASE j \in Q
      BY <3>1, <1>3, <1>12, <1>16 DEF Unvisited
    <3>2. CASE j \notin Q
      BY <3>2, <1>10, <1>12, <1>13, <1>14, <1>16 DEF Unvisited
    <3> QED BY <3>1, <3>2
  <2>4. ASSUME NEW m \in Switches, v[m] # Unvisited PROVE \E j \in P : p[j] = m
    <3>1. CASE m \in new
      <4>1. m \in S
        BY <3>1 DEF S
      <4> QED BY <4>1, <1>12
    <3>2. CASE m \notin new
      <4>1. u[m] # Unvisited
        BY <3>2, <2>4, <1>2, <1>16
      <4>2. PICK j \in Q : q[j] = m
        BY <4>1, <1>3
      <4> QED BY <4>2, <1>12, <1>13
    <3> QED BY <3>1, <3>2
  <2> QED BY <2>1, <2>2, <2>3, <2>4 DEF QueueOk, p, v
<1>19. Ordered(t)
  <2> SUFFICES ASSUME NEW j \in P, NEW k \in P, j <= k PROVE v[p[j]] <= v[p[k]]
    BY DEF Ordered, p, v
  <2>1. CASE k \in Q
    <3>1. j \in Q
      BY <2>1, <1>12
    <3> QED BY <2>1, <3>1, <1>4, <1>12, <1>16
  <2>2. CASE k \notin Q
    <3>1. v[p[k]] = d + 1
      BY <2>2, <1>10, <1>12, <1>13, <1>16
    <3>2. CASE j \in Q
      <4>1. u[q[j]] <= d + 1
        BY <3>2, <1>2, <1>3, <1>17
      <4> QED BY <3>1, <3>2, <4>1, <1>12, <1>16
    <3>3. CASE j \notin Q
      <4>1. v[p[j]] = d + 1
        BY <3>3, <1>10, <1>12, <1>13, <1>16
      <4> QED BY <3>1, <4>1, <1>14
    <3> QED BY <3>2, <3>3
  <2> QED BY <2>1, <2>2
<1>20. Reached(L, h, i, t)
  <2> SUFFICES ASSUME NEW n \in Nodes \ {h}, v[n] # Unvisited
               PROVE  v[n] > 0 /\ \E j \in P : j <= i /\ {p[j], n} \in L /\ v[n] = v[p[j]] + 1
    BY DEF Reached, p, v
  <2>1. CASE n \in new
    <3>1. v[n] = d + 1 /\ {now, n} \in L /\ i \in P /\ p[i] = now /\ v[now] = d
      BY <2>1, <1>9, <1>11, <1>12, <1>13, <1>16
    <3>2. i <= i /\ v[n] > 0 /\ v[n] = v[p[i]] + 1 /\ {p[i], n} \in L
      BY <3>1, <1>11, <1>14
    <3> QED BY <3>1, <3>2
  <2>2. CASE n \notin new
    <3>1. u[n] = v[n]
      BY <2>2, <1>16
    <3>2. PICK j \in Q : j <= i - 1 /\ {q[j], n} \in L /\ u[n] = u[q[j]] + 1
      BY <3>1, <1>5
    <3>3. j \in P /\ p[j] = q[j] /\ j <= i /\ v[q[j]] = u[q[j]]
      BY <3>2, <1>11, <1>12, <1>13, <1>16
    <3>4. v[n] > 0
      BY <3>1, <1>5
    <3> QED BY <3>1, <3>2, <3>3, <3>4
  <2> QED BY <2>1, <2>2
<1>21. Covered(L, i, t)
  <2> SUFFICES ASSUME NEW j \in P, NEW n \in Nodes, j <= i, {p[j], n} \in L
               PROVE  v[n] # Unvisited /\ v[n] <= v[p[j]] + 1
    BY DEF Covered, p, v
  <2>1. j \in Q /\ p[j] = q[j] /\ v[p[j]] = u[q[j]] /\ {q[j], n} \in L
    BY <1>12, <1>16, <1>15
  <2>2. CASE j <= i - 1
    <3>1. u[n] # Unvisited /\ u[n] <= u[q[j]] + 1
      BY <2>1, <2>2, <1>6
    <3>2. v[n] = u[n]
      BY <3>1, <1>9, <1>16
    <3> QED BY <2>1, <3>1, <3>2
  <2>3. CASE j = i
    <3>1. {now, n} \in L /\ v[p[j]] = d
      BY <2>1, <2>3, <1>11
    <3>2. CASE n \in new
      BY <3>1, <3>2, <1>14, <1>16 DEF Unvisited
    <3>3. CASE n \notin new
      <4>1. u[n] # Unvisited /\ v[n] = u[n]
        BY <3>1, <3>3, <1>9, <1>16
      <4> QED BY <3>1, <4>1, <1>17
    <3> QED BY <3>2, <3>3
  <2> QED BY <2>2, <2>3, <1>15
<1>22. HopsOk(L, i, t)
  <2> SUFFICES ASSUME NEW n \in Nodes, NEW m \in Nodes
               PROVE  m \in t.nextHop[n] <=>
                        \E j \in P : j <= i /\ p[j] = m /\ {m, n} \in L /\ v[n] = v[m] + 1
    BY DEF HopsOk, p, v
  <2> DEFINE Hop(j) == j <= i /\ p[j] = m /\ {m, n} \in L /\ v[n] = v[m] + 1
             Old(j) == j <= i - 1 /\ q[j] = m /\ {m, n} \in L /\ u[n] = u[m] + 1
  <2>1. ASSUME NEW j \in Q, j <= i - 1 PROVE Hop(j) <=> Old(j)
    <3>1. p[j] = q[j] /\ j <= i
      BY <2>1, <1>11, <1>12
    <3>2. ASSUME q[j] = m, {m, n} \in L PROVE v[n] = u[n] /\ v[m] = u[m]
      <4>1. u[n] # Unvisited
        BY <2>1, <3>2, <1>6
      <4>2. n \notin new
        BY <4>1, <1>9
      <4> QED BY <3>2, <4>2, <1>16
    <3> QED BY <2>1, <3>1, <3>2
  <2>2. \A j \in P : j <= i => j \in Q /\ (j <= i - 1 \/ j = i)
    BY <1>15
  <2>3. Hop(i) <=> now = m /\ {now, n} \in L /\ v[n] = v[now] + 1
    <3>1. p[i] = now /\ i <= i
      BY <1>11, <1>12
    <3> QED BY <3>1
  <2>4. m \in t.nextHop[n] <=> m \in s.nextHop[n] \/ Hop(i)
    BY <2>3, <1>8
  <2>5. m \in s.nextHop[n] <=> \E j \in Q : Old(j)
    BY <1>7
  <2>6. (\E j \in P : Hop(j)) <=> (\E j \in Q : Old(j)) \/ Hop(i)
    <3>1. ASSUME NEW j \in P, Hop(j) PROVE (\E k \in Q : Old(k)) \/ Hop(i)
      <4>1. j \in Q /\ (j <= i - 1 \/ j = i)
        BY <2>2, <3>1
      <4> QED BY <2>1, <3>1, <4>1
    <3>2. ASSUME NEW j \in Q, Old(j) PROVE \E k \in P : Hop(k)
      <4>1. Hop(j) /\ j \in P
        BY <2>1, <3>2, <1>13
      <4> QED BY <4>1
    <3>3. i \in P
      BY <1>11, <1>13
    <3> HIDE DEF Hop, Old
    <3> QED BY <3>1, <3>2, <3>3
  <2> QED BY <2>4, <2>5, <2>6
<1> QED BY <1>18, <1>19, <1>20, <1>21, <1>22 DEF Explored

\* The rounds keep the invariant.
LEMMA RoundExplored ==
    ASSUME NEW L \in SUBSET AllLinks, NEW h \in Hosts, NEW s \in SearchStates,
           NEW i \in Nat \ {0}, Explored(L, h, i - 1, s)
    PROVE  Explored(L, h, i, Round(s, L, i))
<1>1. s.q \in Seq(Nodes) /\ Len(s.q) \in Nat
  BY DEF SearchStates
<1>2. CASE i > Len(s.q)
  <2>1. \A j \in 1 .. Len(s.q) : j <= i /\ j <= i - 1
    BY <1>1, <1>2
  <2>2. Reached(L, h, i, s) /\ Covered(L, i, s)
    BY <2>1 DEF Explored, Reached, Covered
  <2>3. HopsOk(L, i, s)
    BY <2>1 DEF Explored, HopsOk
  <2>4. Explored(L, h, i, s)
    BY <2>2, <2>3 DEF Explored
  <2> QED BY <1>2, <2>4 DEF Round
<1>3. CASE ~(i > Len(s.q))
  <2> DEFINE now == s.q[i]
             new == Fresh(s, L, now)
             t == Expand(s, L, now)
  <2>1. i \in 1 .. Len(s.q)
    BY <1>1, <1>3
  <2>2. now \in Nodes
    BY <1>1, <2>1, ElementOfSeq
  <2>3. t \in SearchStates /\ Expanded(s, L, now, new, t)
    BY <2>2, ExpandIs
  <2>4. now = s.q[i] /\ new = Fresh(s, L, now)
    OBVIOUS
  <2> HIDE DEF now, new, t
  <2>5. Explored(L, h, i, t)
    BY <2>1, <2>3, <2>4, ExpandExplored
  <2> QED BY <1>3, <2>5 DEF Round, t, now
<1> QED BY <1>2, <1>3

\* The nodes that packets to h go through: h and the labelled switches.
Forwarders(h, dis) == {h} \cup {m \in Switches : dis[m] # Unvisited}

\* What the search leaves: labels and next hops.
Labelled(L, h, dis, hop) ==
    /\ dis \in [Nodes -> Labels] /\ dis[h] = 0
    /\ \A n \in Nodes \ {h} : dis[n] # Unvisited =>
          dis[n] > 0 /\ \E m \in Forwarders(h, dis) : {m, n} \in L /\ dis[n] = dis[m] + 1
    /\ \A m \in Forwarders(h, dis) : \A n \in Nodes :
          {m, n} \in L => dis[n] # Unvisited /\ dis[n] <= dis[m] + 1
    /\ \A n \in Nodes :
          hop[n] = {m \in Forwarders(h, dis) : {m, n} \in L /\ dis[n] = dis[m] + 1}

\* A queue that holds no node twice is not longer than there are nodes, ...
LEMMA QueueBound ==
    ASSUME NEW q \in Seq(Nodes), \A j, k \in 1 .. Len(q) : q[j] = q[k] => j = k
    PROVE  Len(q) <= Cardinality(Nodes)
<1>1. Len(q) \in Nat /\ q \in [1 .. Len(q) -> Nodes]
  BY LenProperties
<1>2. IsFiniteSet(1 .. Len(q)) /\ Cardinality(1 .. Len(q)) = Len(q)
  BY <1>1, FS_Interval
<1>3. q \in Injection(1 .. Len(q), Nodes)
  BY <1>1 DEF Injection, IsInjective
<1>4. Cardinality(1 .. Len(q)) <= Cardinality(Nodes)
  BY <1>3, NodesAre, FS_Injection
<1> QED BY <1>2, <1>4

\* ... so that after as many rounds all of the queue has been expanded.
LEMMA ExploredAll ==
    ASSUME NEW L \in SUBSET AllLinks, NEW h \in Hosts, NEW s \in SearchStates,
           NEW N, N = Cardinality(Nodes), Explored(L, h, N, s)
    PROVE  Labelled(L, h, s.dis, s.nextHop)
<1> DEFINE q == s.q
           u == s.dis
           hop == s.nextHop
           F == Forwarders(h, u)
<1>1. /\ q \in Seq(Nodes) /\ u \in [Nodes -> Labels] /\ hop \in [Nodes -> SUBSET Nodes]
      /\ Len(q) \in Nat /\ \A j \in 1 .. Len(q) : q[j] \in Nodes
  BY ElementOfSeq DEF SearchStates
<1>2. N \in Nat /\ h \in Nodes /\ h \notin Switches /\ Switches \in SUBSET Nodes
  BY NodesAre
<1>3. /\ Len(q) >= 1 /\ q[1] = h /\ u[h] = 0
      /\ \A j, k \in 1 .. Len(q) : q[j] = q[k] => j = k
      /\ \A j \in 1 .. Len(q) : q[j] \in {h} \cup Switches /\ u[q[j]] # Unvisited
      /\ \A m \in Switches : u[m] # Unvisited => \E j \in 1 .. Len(q) : q[j] = m
  BY DEF Explored, QueueOk
<1>4. \A n \in Nodes \ {h} : u[n] # Unvisited =>
         u[n] > 0 /\ \E j \in 1 .. Len(q) : j <= N /\ {q[j], n} \in L /\ u[n] = u[q[j]] + 1
  BY DEF Explored, Reached
<1>5. \A j \in 1 .. Len(q) : \A n \in Nodes : j <= N /\ {q[j], n} \in L =>
         u[n] # Unvisited /\ u[n] <= u[q[j]] + 1
  BY DEF Explored, Covered
<1>6. \A n \in Nodes, m \in Nodes : m \in hop[n] <=>
         \E j \in 1 .. Len(q) : j <= N /\ q[j] = m /\ {m, n} \in L /\ u[n] = u[m] + 1
  BY DEF Explored, HopsOk
<1> HIDE DEF q, u, hop
<1>7. Len(q) <= N
  BY <1>1, <1>3, QueueBound
<1>8. \A j \in 1 .. Len(q) : j <= N
  BY <1>1, <1>2, <1>7
<1>9. /\ \A j \in 1 .. Len(q) : q[j] \in F
      /\ \A m \in F : m \in Nodes /\ \E j \in 1 .. Len(q) : q[j] = m
  BY <1>1, <1>2, <1>3 DEF Forwarders
<1> HIDE DEF F
<1>10. \A n \in Nodes \ {h} : u[n] # Unvisited =>
          u[n] > 0 /\ \E m \in F : {m, n} \in L /\ u[n] = u[m] + 1
  BY <1>4, <1>9
<1>11. \A m \in F : \A n \in Nodes : {m, n} \in L => u[n] # Unvisited /\ u[n] <= u[m] + 1
  BY <1>5, <1>8, <1>9
<1>12. ASSUME NEW n \in Nodes PROVE hop[n] = {m \in F : {m, n} \in L /\ u[n] = u[m] + 1}
  <2>1. hop[n] \in SUBSET Nodes
    BY <1>1
  <2>2. \A m \in Nodes : m \in hop[n] <=> m \in F /\ {m, n} \in L /\ u[n] = u[m] + 1
    BY <1>6, <1>8, <1>9
  <2> QED BY <2>1, <2>2, <1>9
<1> QED BY <1>1, <1>3, <1>10, <1>11, <1>12 DEF Labelled, F, u, hop

\* The next hops of CalculateRoute come with labels.
LEMMA CalculateRouteIs ==
    ASSUME NEW L \in SUBSET AllLinks, NEW h \in Hosts
    PROVE  \E dis : Labelled(L, h, dis, CalculateRoute(L, h))
<1> DEFINE N == Cardinality(Nodes)
           run == Search(L, h)
           T == {i \in 0 .. N : ~Explored(L, h, i, run[i])}
<1>1. N \in Nat /\ IsSearch(L, h, N, run)
  BY NodesAre, SearchRuns
<1>2. CalculateRoute(L, h) = run[N].nextHop
  BY DEF CalculateRoute
<1>3. N = Cardinality(Nodes)
  OBVIOUS
<1> HIDE DEF N, run
<1>4. /\ N \in Nat /\ run \in [0 .. N -> SearchStates] /\ run[0] = Start(h)
       /\ \A i \in 1 .. N : run[i] = Round(run[i - 1], L, i)
  BY <1>1 DEF IsSearch
<1>5. T = {}
  <2>1. SUFFICES ASSUME T # {} PROVE FALSE
    OBVIOUS
  <2>2. T \in SUBSET Nat
    BY <1>4
  <2>3. \E i \in T : \A j \in T : i <= j
    <3> HIDE DEF T
    <3> QED BY <2>1, <2>2, LeastElement
  <2>4. PICK i \in T : \A j \in T : i <= j
    BY <2>3
  <2>5. i # 0
    BY <1>4, <2>4, StartExplored
  <2>6. i \in 1 .. N /\ i - 1 \in 0 .. N /\ i - 1 \notin T /\ i \in Nat \ {0}
    BY <1>4, <2>4, <2>5
  <2>7. Explored(L, h, i - 1, run[i - 1]) /\ run[i - 1] \in SearchStates
    BY <1>4, <2>6
  <2>8. Explored(L, h, i, Round(run[i - 1], L, i))
    BY <2>6, <2>7, RoundExplored
  <2> QED BY <1>4, <2>4, <2>6, <2>8
<1>6. N \in 0 .. N
  BY <1>4
<1>7. Explored(L, h, N, run[N]) /\ run[N] \in SearchStates
  BY <1>4, <1>5, <1>6
<1>8. Labelled(L, h, run[N].dis, run[N].nextHop)
  BY <1>3, <1>7, ExploredAll
<1> QED BY <1>2, <1>8

-----------------------------------------------------------------------------
(* Labels are distances *)

\* The i-th node of the path from a through k switches to b.
Stop(a, via, k, b, i) == IF i = 0 THEN a ELSE IF i = k + 1 THEN b ELSE via[i]
Chain(L, a, via, k, b) ==
    \A i \in 0 .. k : {Stop(a, via, k, b, i), Stop(a, via, k, b, i + 1)} \in L

\* The paths of the property, without concatenation.
LEMMA PathIsChain ==
    ASSUME NEW L, NEW a \in Nodes, NEW b \in Nodes, NEW k \in Nat,
           NEW via \in [1 .. k -> Switches]
    PROVE  PathThrough(L, a, via, b) <=> Chain(L, a, via, k, b)
<1> DEFINE first == <<a>>
           last == <<b>>
           front == first \o via
           path == front \o last
<1>1. /\ first \in Seq(Nodes) /\ Len(first) = 1 /\ first[1] = a
      /\ last \in Seq(Nodes) /\ Len(last) = 1 /\ last[1] = b
  OBVIOUS
<1>2. via \in Seq(Nodes) /\ Len(via) = k
  BY NodesAre
<1> HIDE DEF first, last
<1>3. /\ front \in Seq(Nodes) /\ Len(front) = Len(first) + Len(via)
      /\ \A i \in 1 .. Len(first) + Len(via) : front[i] =
            IF i <= Len(first) THEN first[i] ELSE via[i - Len(first)]
  BY <1>1, <1>2, ConcatProperties, Zenon
<1> HIDE DEF front
<1>4. /\ path \in Seq(Nodes) /\ Len(path) = Len(front) + Len(last)
      /\ \A i \in 1 .. Len(front) + Len(last) : path[i] =
            IF i <= Len(front) THEN front[i] ELSE last[i - Len(front)]
  <2>1. front \in Seq(Nodes) /\ last \in Seq(Nodes)
    BY <1>1, <1>3
  <2> QED BY <2>1, ConcatProperties, Zenon
<1>5. PathThrough(L, a, via, b) <=> \A i \in 1 .. Len(path) - 1 : {path[i], path[i + 1]} \in L
  BY DEF PathThrough, first, last, front
<1> HIDE DEF path
<1>6. Len(front) = 1 + k /\ Len(path) = k + 2
  BY <1>1, <1>2, <1>3, <1>4
<1>7. ASSUME NEW i \in 0 .. k + 1 PROVE path[i + 1] = Stop(a, via, k, b, i)
  <2>1. CASE i = 0
    <3>1. path[1] = front[1] /\ front[1] = first[1]
      BY <1>1, <1>2, <1>3, <1>4, <1>6
    <3> QED BY <2>1, <3>1, <1>1 DEF Stop
  <2>2. CASE i = k + 1
    <3>1. path[k + 2] = last[1]
      BY <1>1, <1>2, <1>4, <1>6
    <3> QED BY <2>2, <3>1, <1>1 DEF Stop
  <2>3. CASE i \in 1 .. k
    <3>1. i + 1 \in 1 .. Len(front) + Len(last) /\ i + 1 <= Len(front) /\ i + 1 > Len(first)
          /\ i + 1 \in 1 .. Len(first) + Len(via) /\ (i + 1) - Len(first) = i
      BY <2>3, <1>1, <1>2, <1>6
    <3>2. path[i + 1] = front[i + 1]
      BY <3>1, <1>4
    <3>3. front[i + 1] = via[i]
      BY <3>1, <1>1, <1>3
    <3> QED BY <2>3, <3>2, <3>3 DEF Stop
  <2> QED BY <2>1, <2>2, <2>3
<1>8. ASSUME NEW i \in 0 .. k
      PROVE  /\ path[i + 1] = Stop(a, via, k, b, i)
             /\ path[(i + 1) + 1] = Stop(a, via, k, b, i + 1)
  <2>1. i \in 0 .. k + 1 /\ i + 1 \in 0 .. k + 1
    OBVIOUS
  <2> QED BY <2>1, <1>7
<1>9. ASSUME NEW i \in 1 .. k + 1 PROVE i - 1 \in 0 .. k /\ (i - 1) + 1 = i
  OBVIOUS
<1>10. PathThrough(L, a, via, b) <=> \A i \in 1 .. k + 1 : {path[i], path[i + 1]} \in L
  BY <1>5, <1>6
<1>11. ASSUME \A i \in 1 .. k + 1 : {path[i], path[i + 1]} \in L
       PROVE  Chain(L, a, via, k, b)
  <2> SUFFICES ASSUME NEW i \in 0 .. k
               PROVE  {Stop(a, via, k, b, i), Stop(a, via, k, b, i + 1)} \in L
    BY DEF Chain
  <2>1. i + 1 \in 1 .. k + 1
    OBVIOUS
  <2> QED BY <2>1, <1>8, <1>11
<1>12. ASSUME Chain(L, a, via, k, b), NEW i \in 1 .. k + 1
       PROVE  {path[i], path[i + 1]} \in L
  <2> DEFINE j == i - 1
  <2>1. j \in 0 .. k /\ j + 1 = i
    BY <1>9
  <2> HIDE DEF j
  <2>2. {path[j + 1], path[(j + 1) + 1]} \in L
    BY <2>1, <1>8, <1>12 DEF Chain
  <2> QED BY <2>1, <2>2
<1> QED BY <1>10, <1>11, <1>12

\* A label is at most the length of any path through switches.
LEMMA ChainBound ==
    ASSUME NEW L \in SUBSET AllLinks, NEW h \in Hosts, NEW dis, NEW hop,
           Labelled(L, h, dis, hop), NEW a \in Nodes, NEW k \in Nat,
           NEW via \in [1 .. k -> Switches], Chain(L, a, via, k, h)
    PROVE  dis[a] # Unvisited /\ dis[a] <= k + 1
<1> DEFINE at(j) == Stop(a, via, k, h, (k + 1) - j)
           T == {j \in 0 .. k + 1 : ~(dis[at(j)] # Unvisited /\ dis[at(j)] <= j)}
<1>1. T = {}
  <2>1. SUFFICES ASSUME T # {} PROVE FALSE
    OBVIOUS
  <2>2. T \in SUBSET Nat
    OBVIOUS
  <2>3. \E j \in T : \A i \in T : j <= i
    <3> HIDE DEF T
    <3> QED BY <2>1, <2>2, LeastElement
  <2>4. PICK j \in T : \A i \in T : j <= i
    BY <2>3
  <2>5. at(0) = h /\ dis[h] = 0
    BY DEF Stop, Labelled
  <2>6. j # 0
    BY <2>4, <2>5 DEF Unvisited
  <2>7. j - 1 \in 0 .. k + 1 /\ j - 1 \notin T /\ j \in 1 .. k + 1
    BY <2>4, <2>6
  <2> DEFINE m == at(j - 1)
             n == at(j)
  <2>8. dis[m] # Unvisited /\ dis[m] <= j - 1
    BY <2>7
  <2>9. {m, n} \in L
    <3> DEFINE i == (k + 1) - j
    <3>1. i \in 0 .. k /\ i + 1 = (k + 1) - (j - 1)
      BY <2>7
    <3>2. {Stop(a, via, k, h, i), Stop(a, via, k, h, i + 1)} \in L
      BY <3>1 DEF Chain
    <3>3. n = Stop(a, via, k, h, i) /\ m = Stop(a, via, k, h, i + 1)
      BY <3>1
    <3> HIDE DEF m, n, i
    <3>4. {n, m} \in L
      BY <3>2, <3>3
    <3> QED BY <3>4, LinkEnds
  <2>10. m \in Forwarders(h, dis)
    <3>1. CASE j = 1
      BY <3>1 DEF Stop, Forwarders
    <3>2. CASE j # 1
      <4>1. (k + 1) - (j - 1) \in 1 .. k
        BY <2>7, <3>2
      <4>2. m \in Switches
        BY <4>1 DEF Stop
      <4> QED BY <4>2, <2>8 DEF Forwarders
    <3> QED BY <3>1, <3>2
  <2> HIDE DEF m, n
  <2>11. n \in Nodes /\ m \in Nodes
    BY <2>9, LinkEnds
  <2>12. dis[n] # Unvisited /\ dis[n] <= dis[m] + 1
    BY <2>9, <2>10, <2>11 DEF Labelled
  <2>13. dis[m] \in Int /\ dis[n] \in Int
    BY <2>11 DEF Labelled, Labels, Unvisited
  <2>14. dis[n] <= j
    BY <2>7, <2>8, <2>12, <2>13
  <2> QED BY <2>4, <2>12, <2>14 DEF n
<1>2. k + 1 \in 0 .. k + 1 /\ at(k + 1) = a
  BY DEF Stop
<1> QED BY <1>1, <1>2

\* A path from a to h along which the labels go down by one.
Descent(L, h, dis, a) ==
    {via \in [1 .. dis[a] - 1 -> Switches] :
        /\ Chain(L, a, via, dis[a] - 1, h)
        /\ \A j \in 1 .. dis[a] - 1 : dis[via[j]] = dis[a] - j}

\* Each labelled node has one.
LEMMA DescentExists ==
    ASSUME NEW L \in SUBSET AllLinks, NEW h \in Hosts, NEW dis, NEW hop,
           Labelled(L, h, dis, hop)
    PROVE  \A a \in Nodes \ {h} : dis[a] # Unvisited =>
              dis[a] \in Nat \ {0} /\ Descent(L, h, dis, a) # {}
<1>1. /\ dis \in [Nodes -> Labels] /\ dis[h] = 0
      /\ \A n \in Nodes \ {h} : dis[n] # Unvisited =>
            dis[n] > 0 /\ \E m \in Forwarders(h, dis) : {m, n} \in L /\ dis[n] = dis[m] + 1
  BY DEF Labelled
<1>2. \A n \in Nodes \ {h} : dis[n] # Unvisited => dis[n] \in Nat \ {0}
  BY <1>1 DEF Labels
<1> DEFINE Lacks(a) == dis[a] # Unvisited /\ Descent(L, h, dis, a) = {}
           T == {dis[a] : a \in {n \in Nodes \ {h} : Lacks(n)}}
<1>3. SUFFICES ASSUME T # {} PROVE FALSE
  BY <1>2
<1>4. T \in SUBSET Nat
  BY <1>2
<1>5. \E d \in T : \A e \in T : d <= e
  <2> HIDE DEF T
  <2> QED BY <1>3, <1>4, LeastElement
<1>6. PICK a \in Nodes \ {h} : Lacks(a) /\ \A e \in T : dis[a] <= e
  BY <1>5
<1>7. PICK m \in Forwarders(h, dis) : {m, a} \in L /\ dis[a] = dis[m] + 1
  BY <1>1, <1>6
<1>8. dis[a] \in Nat \ {0} /\ {a, m} \in L
  BY <1>2, <1>6, <1>7, LinkEnds
<1>9. CASE m = h
  <2> DEFINE via == [j \in 1 .. 0 |-> h]
  <2>1. dis[a] = 1 /\ dis[a] - 1 = 0
    BY <1>1, <1>7, <1>9
  <2>2. via \in [1 .. 0 -> Switches]
    <3>1. \A j \in 1 .. 0 : h \in Switches
      OBVIOUS
    <3> QED BY <3>1
  <2>3. Stop(a, via, 0, h, 0) = a /\ Stop(a, via, 0, h, 1) = h
    BY DEF Stop
  <2> HIDE DEF via
  <2>4. Chain(L, a, via, 0, h)
    <3>1. \A i \in 0 .. 0 : i = 0 /\ i + 1 = 1
      OBVIOUS
    <3> QED BY <2>3, <3>1, <1>8, <1>9 DEF Chain
  <2>5. via \in Descent(L, h, dis, a)
    BY <2>1, <2>2, <2>4 DEF Descent
  <2> QED BY <1>6, <2>5
<1>10. CASE m # h
  <2>1. m \in Switches /\ m \in Nodes \ {h} /\ dis[m] # Unvisited
    BY <1>10, <1>7, NodesAre DEF Forwarders
  <2>2. dis[m] \in Nat \ {0}
    BY <1>2, <2>1
  <2>3. dis[m] \notin T
    <3> HIDE DEF T
    <3>1. ASSUME dis[m] \in T PROVE FALSE
      <4>1. dis[a] <= dis[m]
        BY <1>6, <3>1
      <4> QED BY <4>1, <1>7, <2>2
    <3> QED BY <3>1
  <2>4. Descent(L, h, dis, m) # {}
    BY <2>1, <2>3
  <2>5. PICK w : w \in Descent(L, h, dis, m)
    BY <2>4
  <2> DEFINE d == dis[m]
             via == [j \in 1 .. d |-> IF j = 1 THEN m ELSE w[j - 1]]
  <2>6. /\ w \in [1 .. d - 1 -> Switches] /\ Chain(L, m, w, d - 1, h)
        /\ \A j \in 1 .. d - 1 : dis[w[j]] = d - j
    BY <2>5 DEF Descent
  <2>7. d \in Nat \ {0} /\ dis[a] = d + 1 /\ dis[a] - 1 = d
    BY <2>2, <1>7
  <2> HIDE DEF d
  <2>8. via \in [1 .. d -> Switches]
    BY <2>1, <2>6, <2>7
  <2>9. ASSUME NEW j \in 1 .. d PROVE dis[via[j]] = dis[a] - j
    <3>1. CASE j = 1
      BY <3>1, <2>7 DEF d
    <3>2. CASE j # 1
      <4>1. j - 1 \in 1 .. d - 1 /\ via[j] = w[j - 1]
        BY <3>2, <2>7
      <4>2. dis[w[j - 1]] = d - (j - 1)
        BY <2>6, <4>1
      <4> QED BY <4>1, <4>2, <2>7
    <3> QED BY <3>1, <3>2
  <2>10. ASSUME NEW i \in 1 .. d + 1
         PROVE  Stop(a, via, d, h, i) = Stop(m, w, d - 1, h, i - 1)
    BY <2>7 DEF Stop
  <2>11. Stop(a, via, d, h, 0) = a /\ Stop(m, w, d - 1, h, 0) = m
    BY DEF Stop
  <2> HIDE DEF via
  <2>12. ASSUME NEW i \in 0 .. d
         PROVE  {Stop(a, via, d, h, i), Stop(a, via, d, h, i + 1)} \in L
    <3>1. CASE i = 0
      <4>1. 1 \in 1 .. d + 1 /\ 1 - 1 = 0 /\ 0 + 1 = 1
        BY <2>7
      <4>2. Stop(a, via, d, h, 1) = m
        BY <4>1, <2>10, <2>11
      <4> QED BY <3>1, <4>1, <4>2, <2>11, <1>8
    <3>2. CASE i # 0
      <4> DEFINE e == i - 1
      <4>1. e \in 0 .. d - 1 /\ i = e + 1 /\ i \in 1 .. d + 1 /\ i + 1 \in 1 .. d + 1
            /\ (i + 1) - 1 = e + 1
        BY <3>2, <2>7
      <4>2. {Stop(m, w, d - 1, h, e), Stop(m, w, d - 1, h, e + 1)} \in L
        BY <4>1, <2>6 DEF Chain
      <4>3. Stop(a, via, d, h, i) = Stop(m, w, d - 1, h, e)
        BY <4>1, <2>10
      <4>4. Stop(a, via, d, h, i + 1) = Stop(m, w, d - 1, h, e + 1)
        BY <4>1, <2>10
      <4> HIDE DEF e
      <4> QED BY <4>2, <4>3, <4>4
    <3> QED BY <3>1, <3>2
  <2>13. Chain(L, a, via, d, h)
    BY <2>12 DEF Chain
  <2>14. via \in Descent(L, h, dis, a)
    BY <2>7, <2>8, <2>9, <2>13 DEF Descent
  <2> QED BY <1>6, <2>14
<1> QED BY <1>9, <1>10

\* The path has no switch twice: it is not longer than there are switches.
LEMMA DescentBound ==
    ASSUME NEW L, NEW h, NEW dis, NEW a, dis[a] \in Nat \ {0},
           NEW via \in Descent(L, h, dis, a)
    PROVE  dis[a] - 1 \in 0 .. Cardinality(Switches)
<1> DEFINE k == dis[a] - 1
<1>1. via \in [1 .. k -> Switches] /\ \A j \in 1 .. k : dis[via[j]] = dis[a] - j
  BY DEF Descent
<1>2. k \in Nat
  OBVIOUS
<1>3. \A i, j \in 1 .. k : via[i] = via[j] => i = j
  <2> SUFFICES ASSUME NEW i \in 1 .. k, NEW j \in 1 .. k, via[i] = via[j] PROVE i = j
    OBVIOUS
  <2>1. dis[a] - i = dis[a] - j
    BY <1>1
  <2> QED BY <2>1
<1> HIDE DEF k
<1>4. via \in Injection(1 .. k, Switches)
  BY <1>1, <1>3 DEF Injection, IsInjective
<1>5. IsFiniteSet(1 .. k) /\ Cardinality(1 .. k) = k
  BY <1>2, FS_Interval
<1>6. Cardinality(1 .. k) <= Cardinality(Switches)
  BY <1>4, NodesAre, FS_Injection
<1> QED BY <1>2, <1>5, <1>6, NodesAre DEF k

\* The label of a node is its distance from the host; a node without a label is
\* not connected to it.
LEMMA LabelIsDistance ==
    ASSUME NEW L \in SUBSET AllLinks, NEW h \in Hosts, NEW dis, NEW hop,
           Labelled(L, h, dis, hop), NEW a \in Nodes \ {h}
    PROVE  Distance(L, a, h) = IF dis[a] = Unvisited THEN 0 ELSE dis[a]
<1> DEFINE lengths == {k \in 0 .. Cardinality(Switches) :
                          \E via \in [1 .. k -> Switches] : PathThrough(L, a, via, h)}
<1>1. Distance(L, a, h) = IF lengths = {} THEN 0
                          ELSE 1 + CHOOSE k \in lengths : \A j \in lengths : k <= j
  BY DEF Distance
<1>2. h \in Nodes /\ Cardinality(Switches) \in Nat
  BY NodesAre
<1>3. ASSUME NEW k \in lengths PROVE dis[a] # Unvisited /\ dis[a] <= k + 1
  <2>1. k \in Nat
    BY <1>2
  <2>2. PICK via \in [1 .. k -> Switches] : PathThrough(L, a, via, h)
    BY <1>3
  <2>3. Chain(L, a, via, k, h)
    BY <1>2, <2>1, <2>2, PathIsChain
  <2> HIDE DEF lengths
  <2> QED BY <2>1, <2>2, <2>3, ChainBound
<1>4. CASE dis[a] = Unvisited
  <2>1. lengths = {}
    BY <1>3, <1>4
  <2> QED BY <1>1, <1>4, <2>1
<1>5. CASE dis[a] # Unvisited
  <2> DEFINE d == dis[a] - 1
  <2>1. dis[a] \in Nat \ {0} /\ Descent(L, h, dis, a) # {}
    BY <1>5, DescentExists
  <2>2. PICK via : via \in Descent(L, h, dis, a)
    BY <2>1
  <2>3. d \in 0 .. Cardinality(Switches)
    BY <2>1, <2>2, DescentBound
  <2>4. via \in [1 .. d -> Switches] /\ Chain(L, a, via, d, h) /\ d \in Nat
    BY <2>1, <2>2 DEF Descent
  <2>5. PathThrough(L, a, via, h)
    <3> HIDE DEF d
    <3> QED BY <1>2, <2>4, PathIsChain
  <2>6. d \in lengths
    <3> HIDE DEF d
    <3>1. \E w \in [1 .. d -> Switches] : PathThrough(L, a, w, h)
      BY <2>4, <2>5
    <3> QED BY <2>3, <3>1
  <2>7. \A k \in lengths : k \in Nat /\ d <= k
    BY <1>2, <1>3, <2>1
  <2> HIDE DEF lengths
  <2>8. (CHOOSE k \in lengths : \A j \in lengths : k <= j) = d
    <3> DEFINE c == CHOOSE k \in lengths : \A j \in lengths : k <= j
    <3>1. c \in lengths /\ \A j \in lengths : c <= j
      BY <2>6, <2>7
    <3> HIDE DEF c
    <3>2. c = d
      BY <3>1, <2>1, <2>6, <2>7
    <3> QED BY <3>2 DEF c
  <2>9. lengths # {}
    BY <2>6
  <2>10. Distance(L, a, h) = 1 + CHOOSE k \in lengths : \A j \in lengths : k <= j
    BY <1>1, <2>9, Zenon
  <2>11. Distance(L, a, h) = 1 + d
    BY <2>8, <2>10, Zenon
  <2>12. 1 + d = dis[a]
    BY <2>1
  <2> QED BY <1>5, <2>11, <2>12
<1> QED BY <1>4, <1>5

-----------------------------------------------------------------------------
(* The tables *)

\* The neighbours of n on the shortest paths to h: what RoutesAreShortest asks.
Shortest(L, n, h) ==
    IF {n, h} \in L THEN {h}
    ELSE {m \in Neighbours(L, n) \cap Switches :
             /\ Distance(L, m, h) > 0
             /\ Distance(L, m, h) + 1 = Distance(L, n, h)}

\* What the next hops of a node are good for: they are neighbours, no other host
\* is among them, a packet goes on from there, and there are some if the host is
\* connected.
NextHopsOk(L, R, n, h) ==
    /\ R[n][h] \in SUBSET Nodes
    /\ \A m \in R[n][h] : /\ {n, m} \in L /\ (m \in Hosts => m = h)
                          /\ (m # h => R[m][h] # {})
    /\ n # h => R[n][h] = Shortest(L, n, h)
    /\ n # h /\ R[n][h] = {} => Distance(L, n, h) = 0

\* The tables that CalculateRoutes and SetRoutingEntries make are right.
LEMMA RoutesAre ==
    ASSUME NEW L \in SUBSET AllLinks, NEW h \in Hosts, NEW n \in Nodes
    PROVE  NextHopsOk(L, Routes(L), n, h)
<1> DEFINE R == Routes(L)
           hop == CalculateRoute(L, h)
<1>1. \A m \in Nodes : R[m][h] = hop[m]
  BY DEF Routes
<1>2. PICK dis : Labelled(L, h, dis, hop)
  BY CalculateRouteIs
<1> DEFINE F == Forwarders(h, dis)
<1> HIDE DEF R, hop
<1>3. /\ dis \in [Nodes -> Labels] /\ dis[h] = 0
      /\ \A a \in Nodes \ {h} : dis[a] # Unvisited =>
            dis[a] > 0 /\ \E m \in F : {m, a} \in L /\ dis[a] = dis[m] + 1
      /\ \A m \in F : \A a \in Nodes : {m, a} \in L => dis[a] # Unvisited /\ dis[a] <= dis[m] + 1
      /\ \A a \in Nodes : hop[a] = {m \in F : {m, a} \in L /\ dis[a] = dis[m] + 1}
  BY <1>2 DEF Labelled
<1>4. /\ h \in Nodes /\ h \notin Switches /\ Hosts \cap Switches = {}
      /\ Switches \in SUBSET Nodes
  BY NodesAre
<1>5. /\ \A m \in F : m = h \/ (m \in Switches /\ dis[m] # Unvisited)
      /\ h \in F /\ \A m \in Switches : dis[m] # Unvisited => m \in F
  BY DEF Forwarders
<1>6. \A a \in Nodes \ {h} : Distance(L, a, h) = IF dis[a] = Unvisited THEN 0 ELSE dis[a]
  BY <1>2, LabelIsDistance
<1>7. \A a \in Nodes : dis[a] \in Int
  BY <1>3 DEF Labels, Unvisited
<1>8. \A m : {m, n} \in L <=> {n, m} \in L
  BY LinkEnds
<1> HIDE DEF F
<1>9. hop[n] = {m \in F : {m, n} \in L /\ dis[n] = dis[m] + 1}
  BY <1>3
<1>10. \A a \in Nodes \ {h} : dis[a] # Unvisited => hop[a] # {}
  <2> SUFFICES ASSUME NEW a \in Nodes \ {h}, dis[a] # Unvisited PROVE hop[a] # {}
    OBVIOUS
  <2>1. PICK m \in F : {m, a} \in L /\ dis[a] = dis[m] + 1
    BY <1>3
  <2>2. m \in hop[a]
    BY <2>1, <1>3
  <2> QED BY <2>2
<1>11. hop[n] \in SUBSET Nodes
  BY <1>4, <1>5, <1>9
<1>12. ASSUME NEW m \in hop[n]
       PROVE  {n, m} \in L /\ (m \in Hosts => m = h) /\ (m # h => hop[m] # {})
  <2>1. m \in F /\ {m, n} \in L
    BY <1>9
  <2>2. m # h => m \in Switches /\ m \in Nodes /\ dis[m] # Unvisited
    BY <2>1, <1>4, <1>5
  <2> QED BY <2>1, <2>2, <1>4, <1>8, <1>10
<1>13. ASSUME n # h PROVE hop[n] = Shortest(L, n, h)
  <2>1. CASE {n, h} \in L
    <3>1. {h, n} \in L
      BY <2>1, <1>8
    <3>2. dis[n] # Unvisited /\ dis[n] <= 1
      BY <3>1, <1>3, <1>5
    <3>3. dis[n] = 1
      BY <3>2, <1>3, <1>7, <1>13
    <3>4. \A m \in F : dis[m] = 0 => m = h
      BY <1>3, <1>4, <1>5
    <3>5. \A m \in F : dis[m] \in Int
      BY <1>4, <1>5, <1>7
    <3>6. \A m : m \in hop[n] <=> m = h
      BY <3>1, <3>3, <3>4, <3>5, <1>3, <1>5, <1>9
    <3>7. hop[n] = {h}
      BY <3>6
    <3> QED BY <2>1, <3>7 DEF Shortest
  <2>2. CASE {n, h} \notin L
    <3> DEFINE S == {m \in Neighbours(L, n) \cap Switches :
                        /\ Distance(L, m, h) > 0
                        /\ Distance(L, m, h) + 1 = Distance(L, n, h)}
    <3>1. ASSUME NEW m \in hop[n] PROVE m \in S
      <4>1. m \in F /\ {n, m} \in L /\ dis[n] = dis[m] + 1
        BY <1>8, <1>9
      <4>2. m # h
        BY <4>1, <2>2
      <4>3. m \in Switches /\ m \in Nodes \ {h} /\ dis[m] # Unvisited
        BY <4>1, <4>2, <1>4, <1>5
      <4>4. dis[m] > 0 /\ dis[n] # Unvisited
        BY <4>1, <4>3, <1>3, <1>7 DEF Unvisited
      <4>5. Distance(L, m, h) = dis[m] /\ Distance(L, n, h) = dis[n]
        BY <4>3, <4>4, <1>6, <1>13
      <4>6. m \in Neighbours(L, n)
        BY <4>1, NeighboursAre
      <4> QED BY <4>1, <4>3, <4>4, <4>5, <4>6
    <3>2. ASSUME NEW m \in S PROVE m \in hop[n]
      <4>1. /\ m \in Switches /\ m \in Nodes \ {h} /\ {n, m} \in L
            /\ Distance(L, m, h) > 0 /\ Distance(L, m, h) + 1 = Distance(L, n, h)
        BY <1>4, NeighboursAre
      <4>2. dis[m] # Unvisited /\ Distance(L, m, h) = dis[m]
        BY <4>1, <1>6
      <4>3. m \in F
        BY <4>1, <4>2, <1>5
      <4>4. dis[n] # Unvisited /\ Distance(L, n, h) = dis[n]
        BY <4>1, <4>2, <1>6, <1>7, <1>13
      <4> QED BY <4>1, <4>2, <4>3, <4>4, <1>8, <1>9
    <3> HIDE DEF S
    <3>3. hop[n] = S
      BY <3>1, <3>2
    <3> QED BY <2>2, <3>3 DEF Shortest, S
  <2> QED BY <2>1, <2>2
<1>14. ASSUME n # h, hop[n] = {} PROVE Distance(L, n, h) = 0
  BY <1>6, <1>10, <1>14
<1>15. \A m \in hop[n] : m \in Nodes /\ R[m][h] = hop[m]
  BY <1>1, <1>11
<1>16. R[n][h] = hop[n]
  BY <1>1
<1>17. NextHopsOk(L, R, n, h)
  BY <1>11, <1>12, <1>13, <1>14, <1>15, <1>16 DEF NextHopsOk
<1> QED BY <1>17 DEF R

-----------------------------------------------------------------------------
(* The inductive invariant *)

PacketType ==
    [state : {"none", "moving", "arrived", "dropped"}, at : Nat, to : Nat, dst : Nat,
     calm : BOOLEAN]

Routed == up \in SUBSET AllLinks /\ tables = Routes(up)
NicsOk ==
    /\ nic \in [Pairs -> Nodes \cup {NoNic}] /\ failed \in BOOLEAN
    /\ ~failed => \A p \in Pairs : nic[p] # NoNic => nic[p] \in tables[p[1]][p[2]]
    /\ failed => \E p \in Pairs : tables[p[1]][p[2]] = {}
PacketOk ==
    /\ packet \in PacketType
    /\ packet.state = "moving" =>
          /\ packet.dst \in Hosts /\ packet.to \in Nodes /\ {packet.at, packet.to} \in up
          /\ packet.to \in Hosts => packet.to = packet.dst
          /\ packet.calm /\ packet.to \notin Hosts => tables[packet.to][packet.dst] # {}
    /\ packet.state = "arrived" => packet.at = packet.dst
    /\ packet.state = "dropped" => ~packet.calm

RoutingInv == Routed /\ NicsOk /\ PacketOk

\* What the entries of the tables are good for, by the names of the variables.
LEMMA TablesOk ==
    ASSUME Routed
    PROVE  \A n \in Nodes : \A h \in Hosts :
              /\ tables[n][h] \in SUBSET Nodes
              /\ \A m \in tables[n][h] : /\ {n, m} \in up /\ (m \in Hosts => m = h)
                                         /\ (m # h => tables[m][h] # {})
              /\ n # h => tables[n][h] = Shortest(up, n, h)
              /\ n # h /\ tables[n][h] = {} => Distance(up, n, h) = 0
<1> SUFFICES ASSUME NEW n \in Nodes, NEW h \in Hosts
             PROVE  NextHopsOk(up, tables, n, h)
  BY DEF NextHopsOk
<1>1. up \in SUBSET AllLinks /\ tables = Routes(up)
  BY DEF Routed
<1> QED BY <1>1, RoutesAre

\* The same of one next hop.
LEMMA NextHopOk ==
    ASSUME Routed, NEW n \in Nodes, NEW h \in Hosts, NEW m \in tables[n][h]
    PROVE  /\ m \in Nodes /\ {n, m} \in up /\ (m \in Hosts => m = h)
           /\ (m # h => tables[m][h] # {})
<1>1. tables[n][h] \in SUBSET Nodes
  BY TablesOk
<1>2. {n, m} \in up /\ (m \in Hosts => m = h) /\ (m # h => tables[m][h] # {})
  BY TablesOk
<1> QED BY <1>1, <1>2

\* The two hosts of a queue pair.
LEMMA PairsAre ==
    ASSUME NEW p \in Pairs
    PROVE  p[1] \in Hosts /\ p[2] \in Hosts /\ p[1] # p[2] /\ p[1] \in Nodes /\ p[2] \in Nodes
BY NodesAre DEF Pairs

\* At the start.
LEMMA RoutingInit ==
    Init => RoutingInv
<1> SUFFICES ASSUME Init PROVE RoutingInv
  OBVIOUS
<1>1. Routed
  BY DEF Init, Routed
<1>2. NicsOk
  BY DEF Init, NicsOk
<1>3. PacketOk
  BY DEF Init, PacketOk, NoPacket, PacketType
<1> QED BY <1>1, <1>2, <1>3 DEF RoutingInv

\* AddQueuePair takes a NIC from the table, or finds none.
LEMMA AddQueuePairKeeps ==
    ASSUME RoutingInv, NEW p \in Pairs, AddQueuePair(p)
    PROVE  RoutingInv'
<1>1. Routed /\ NicsOk /\ PacketOk /\ ~failed
  BY DEF RoutingInv, AddQueuePair
<1>2. UNCHANGED <<up, tables, packet, taken>>
  BY DEF AddQueuePair
<1>3. Routed' /\ PacketOk'
  BY <1>1, <1>2 DEF Routed, PacketOk
<1>4. NicsOk'
  <2>1. CASE tables[p[1]][p[2]] = {}
    <3>1. failed' = TRUE /\ nic' = nic
      BY <2>1 DEF AddQueuePair
    <3> QED BY <1>1, <1>2, <2>1, <3>1 DEF NicsOk
  <2>2. CASE tables[p[1]][p[2]] # {}
    <3>1. PICK n \in tables[p[1]][p[2]] : nic' = [nic EXCEPT ![p] = n] /\ failed' = failed
      BY <2>2 DEF AddQueuePair
    <3>2. n \in Nodes
      BY <1>1, PairsAre, TablesOk
    <3>3. nic \in [Pairs -> Nodes \cup {NoNic}]
      BY <1>1 DEF NicsOk
    <3>4. nic' \in [Pairs -> Nodes \cup {NoNic}]
      BY <3>1, <3>2, <3>3
    <3>5. \A r \in Pairs : nic'[r] = IF r = p THEN n ELSE nic[r]
      BY <3>1, <3>3
    <3> QED BY <1>1, <1>2, <3>1, <3>4, <3>5 DEF NicsOk
  <2> QED BY <2>1, <2>2
<1> QED BY <1>3, <1>4 DEF RoutingInv

\* QpComplete frees the NIC.
LEMMA QpCompleteKeeps ==
    ASSUME RoutingInv, NEW p \in Pairs, QpComplete(p)
    PROVE  RoutingInv'
<1>1. Routed /\ NicsOk /\ PacketOk
  BY DEF RoutingInv
<1>2. UNCHANGED <<up, tables, packet, taken, failed>> /\ nic' = [nic EXCEPT ![p] = NoNic]
  BY DEF QpComplete
<1>3. Routed' /\ PacketOk'
  BY <1>1, <1>2 DEF Routed, PacketOk
<1>4. NicsOk'
  <2>1. nic \in [Pairs -> Nodes \cup {NoNic}]
    BY <1>1 DEF NicsOk
  <2>2. nic' \in [Pairs -> Nodes \cup {NoNic}]
    BY <1>2, <2>1
  <2>3. \A r \in Pairs : nic'[r] = IF r = p THEN NoNic ELSE nic[r]
    BY <1>2, <2>1
  <2> QED BY <1>1, <1>2, <2>2, <2>3 DEF NicsOk
<1> QED BY <1>3, <1>4 DEF RoutingInv

\* Send: the NIC leads to the destination, or to a switch that knows the way.
LEMMA SendKeeps ==
    ASSUME RoutingInv, NEW p \in Pairs, Send(p)
    PROVE  RoutingInv'
<1>1. Routed /\ NicsOk /\ PacketOk /\ ~failed /\ nic[p] # NoNic
  BY DEF RoutingInv, Send
<1>2. /\ UNCHANGED <<up, tables, nic, taken, failed>>
      /\ packet' = [state |-> "moving", at |-> p[1], to |-> nic[p], dst |-> p[2], calm |-> TRUE]
  BY DEF Send
<1>3. Routed' /\ NicsOk'
  BY <1>1, <1>2 DEF Routed, NicsOk
<1> DEFINE n == nic[p]
<1>4. p[1] \in Nodes /\ p[2] \in Hosts /\ p[2] \in Nodes
  BY PairsAre
<1>5. n \in tables[p[1]][p[2]]
  BY <1>1 DEF NicsOk
<1>6. /\ n \in Nodes /\ {p[1], n} \in up /\ (n \in Hosts => n = p[2])
      /\ (n # p[2] => tables[n][p[2]] # {})
  <2> HIDE DEF n
  <2> QED BY <1>1, <1>4, <1>5, NextHopOk
<1> HIDE DEF n
<1>7. /\ packet'.state = "moving" /\ packet'.at = p[1] /\ packet'.to = n
      /\ packet'.dst = p[2] /\ packet'.calm = TRUE
  BY <1>2 DEF n
<1>8. packet' \in PacketType
  <2>1. p[1] \in Nat /\ n \in Nat /\ p[2] \in Nat
    BY <1>4, <1>6, NodesAre
  <2> QED BY <2>1, <1>2 DEF PacketType, n
<1>9. PacketOk'
  BY <1>2, <1>4, <1>6, <1>7, <1>8 DEF PacketOk
<1> QED BY <1>3, <1>9 DEF RoutingInv

\* Arrive: at the destination, or on to a next hop, or the end of a packet whose
\* way was changed.
LEMMA ArriveKeeps ==
    ASSUME RoutingInv, Arrive
    PROVE  RoutingInv'
<1>1. Routed /\ NicsOk /\ PacketOk /\ packet.state = "moving"
  BY DEF RoutingInv, Arrive
<1>2. UNCHANGED <<up, tables, nic, taken, failed>>
  BY DEF Arrive
<1>3. Routed' /\ NicsOk'
  BY <1>1, <1>2 DEF Routed, NicsOk
<1>4. /\ packet \in PacketType /\ packet.dst \in Hosts /\ packet.to \in Nodes
      /\ (packet.to \in Hosts => packet.to = packet.dst)
      /\ (packet.calm /\ packet.to \notin Hosts => tables[packet.to][packet.dst] # {})
  BY <1>1 DEF PacketOk
<1>5. CASE packet.to \in Hosts
  <2>1. packet' = [packet EXCEPT !.state = "arrived", !.at = packet.to]
    BY <1>5 DEF Arrive
  <2>2. packet' \in PacketType
    BY <1>4, <2>1 DEF PacketType
  <2>3. packet'.state = "arrived" /\ packet'.at = packet.to /\ packet'.dst = packet.dst
    BY <1>4, <2>1 DEF PacketType
  <2>4. PacketOk'
    BY <1>4, <1>5, <2>2, <2>3 DEF PacketOk
  <2> QED BY <1>3, <2>4 DEF RoutingInv
<1>6. CASE packet.to \notin Hosts /\ tables[packet.to][packet.dst] = {}
  <2>1. packet' = [packet EXCEPT !.state = "dropped"] /\ ~packet.calm
    BY <1>4, <1>6 DEF Arrive
  <2>2. packet' \in PacketType
    BY <1>4, <2>1 DEF PacketType
  <2>3. packet'.state = "dropped" /\ packet'.calm = packet.calm
    BY <1>4, <2>1 DEF PacketType
  <2>4. PacketOk'
    BY <2>1, <2>2, <2>3 DEF PacketOk
  <2> QED BY <1>3, <2>4 DEF RoutingInv
<1>7. CASE packet.to \notin Hosts /\ tables[packet.to][packet.dst] # {}
  <2>1. PICK n \in tables[packet.to][packet.dst] :
           packet' = [packet EXCEPT !.at = packet.to, !.to = n]
    BY <1>7 DEF Arrive
  <2>2. /\ n \in Nodes /\ {packet.to, n} \in up /\ (n \in Hosts => n = packet.dst)
        /\ (n # packet.dst => tables[n][packet.dst] # {})
    <3> DEFINE a == packet.to
               h == packet.dst
    <3>1. a \in Nodes /\ h \in Hosts /\ n \in tables[a][h]
      BY <1>4
    <3> HIDE DEF a, h
    <3>2. /\ n \in Nodes /\ {a, n} \in up /\ (n \in Hosts => n = h)
          /\ (n # h => tables[n][h] # {})
      BY <1>1, <3>1, NextHopOk
    <3> QED BY <3>2 DEF a, h
  <2>3. n \in Nat
    BY <2>2, NodesAre
  <2>4. packet' \in PacketType
    BY <1>4, <2>1, <2>3 DEF PacketType
  <2>5. /\ packet'.state = "moving" /\ packet'.at = packet.to /\ packet'.to = n
        /\ packet'.dst = packet.dst
    BY <1>1, <1>4, <2>1 DEF PacketType
  <2>6. PacketOk'
    BY <1>2, <1>4, <2>2, <2>4, <2>5 DEF PacketOk
  <2> QED BY <1>3, <2>6 DEF RoutingInv
<1> QED BY <1>5, <1>6, <1>7

\* TakeDownLink: new tables, new NICs, and no packet on the dead link.
LEMMA TakeDownLinkKeeps ==
    ASSUME RoutingInv, NEW link \in AllLinks, TakeDownLink(link)
    PROVE  RoutingInv'
<1>1. Routed /\ NicsOk /\ PacketOk /\ ~failed
  BY DEF RoutingInv, TakeDownLink
<1>2. CASE link \notin up
  <2>1. UNCHANGED <<up, tables, nic, packet, failed>>
    BY <1>2 DEF TakeDownLink
  <2> QED BY <1>1, <2>1 DEF RoutingInv, Routed, NicsOk, PacketOk
<1>3. CASE link \in up
  <2> DEFINE R == Routes(up \ {link})
  <2>1. /\ up' = up \ {link} /\ tables' = R
        /\ packet' = IF packet.state = "moving" /\ {packet.at, packet.to} = link
                     THEN [packet EXCEPT !.state = "dropped", !.calm = FALSE]
                     ELSE [packet EXCEPT !.calm = FALSE]
        /\ RedistributeQps(tables')
    BY <1>3 DEF TakeDownLink, ReplaceTables
  <2>2. up' \in SUBSET AllLinks /\ tables' = Routes(up')
    BY <1>1, <2>1 DEF Routed
  <2>3. Routed'
    BY <2>2 DEF Routed
  <2>4. PacketOk'
    <3>1. packet \in PacketType
      BY <1>1 DEF PacketOk
    <3>2. packet' \in PacketType /\ packet'.calm = FALSE
      BY <2>1, <3>1 DEF PacketType
    <3>3. /\ packet'.at = packet.at /\ packet'.to = packet.to /\ packet'.dst = packet.dst
          /\ packet'.state \in {packet.state, "dropped"}
          /\ (packet'.state = "moving" =>
                 packet.state = "moving" /\ {packet.at, packet.to} # link)
          /\ (packet'.state = "arrived" => packet.state = "arrived")
      BY <2>1, <3>1 DEF PacketType
    <3>4. ASSUME packet'.state = "moving"
          PROVE  /\ packet.dst \in Hosts /\ packet.to \in Nodes
                 /\ {packet.at, packet.to} \in up'
                 /\ packet.to \in Hosts => packet.to = packet.dst
      <4>1. packet.state = "moving" /\ {packet.at, packet.to} # link
        BY <3>3, <3>4
      <4> QED BY <4>1, <1>1, <2>1 DEF PacketOk
    <3>5. packet'.state = "arrived" => packet.at = packet.dst
      BY <3>3, <1>1 DEF PacketOk
    <3> QED BY <3>2, <3>3, <3>4, <3>5 DEF PacketOk
  <2>5. NicsOk'
    <3> DEFINE open == {p \in Pairs : nic[p] # NoNic}
    <3> HIDE DEF R
    <3>1. CASE \E p \in open : R[p[1]][p[2]] = {}
      <4>1. failed' = TRUE /\ nic' = nic
        BY <2>1, <3>1 DEF RedistributeQps
      <4> QED BY <1>1, <2>1, <3>1, <4>1 DEF NicsOk
    <3>2. CASE ~\E p \in open : R[p[1]][p[2]] = {}
      <4>1. /\ failed' = failed
            /\ nic' \in [Pairs -> Nodes \cup {NoNic}]
            /\ \A p \in Pairs : IF p \in open THEN nic'[p] \in R[p[1]][p[2]] ELSE nic'[p] = NoNic
        BY <2>1, <3>2 DEF RedistributeQps
      <4> QED BY <1>1, <2>1, <4>1 DEF NicsOk
    <3> QED BY <3>1, <3>2
  <2> QED BY <2>3, <2>4, <2>5 DEF RoutingInv
<1> QED BY <1>2, <1>3

\* The invariant is inductive.
LEMMA RoutingStep ==
    RoutingInv /\ [Next]_vars => RoutingInv'
<1> SUFFICES ASSUME RoutingInv, [Next]_vars PROVE RoutingInv'
  OBVIOUS
<1>1. CASE UNCHANGED vars
  BY <1>1 DEF RoutingInv, Routed, NicsOk, PacketOk, vars
<1>2. CASE \E p \in Pairs : AddQueuePair(p) \/ QpComplete(p) \/ Send(p)
  BY <1>2, AddQueuePairKeeps, QpCompleteKeeps, SendKeeps
<1>3. CASE Arrive
  BY <1>3, ArriveKeeps
<1>4. CASE \E link \in AllLinks : TakeDownLink(link)
  BY <1>4, TakeDownLinkKeeps
<1> QED BY <1>1, <1>2, <1>3, <1>4 DEF Next

\* The tables are those of the links that are up, a NIC is one of the next hops,
\* a packet is on a link that is up: for every topology and every behaviour.
THEOREM RoutingInvariant == Spec => []RoutingInv
BY RoutingInit, RoutingStep, PTL DEF Spec

-----------------------------------------------------------------------------
(* Theorems *)

\* CalculateRoutes finds exactly the shortest paths through switches, in every
\* topology and after TakeDownLink.
THEOREM ShortestPaths == Spec => []RoutesAreShortest
<1>1. RoutingInv => RoutesAreShortest
  <2> SUFFICES ASSUME RoutingInv, NEW h \in Hosts, NEW n \in Nodes \ {h}
               PROVE  tables[n][h] = Shortest(up, n, h)
    BY DEF RoutesAreShortest, Shortest
  <2> QED BY TablesOk DEF RoutingInv
<1> QED BY <1>1, RoutingInvariant, PTL

\* RedistributeQp leaves each open queue pair on a NIC that is up and leads to its
\* destination; the assertion of GetNicIdxOfQp fails only for hosts that are not
\* connected.
THEOREM LiveNics == Spec => []QpsOnLiveNics
<1>1. RoutingInv => QpsOnLiveNics
  <2> SUFFICES ASSUME RoutingInv PROVE QpsOnLiveNics
    OBVIOUS
  <2>1. Routed /\ NicsOk
    BY DEF RoutingInv
  <2>2. ASSUME ~failed, NEW p \in Pairs, nic[p] # NoNic
        PROVE  {p[1], nic[p]} \in up /\ nic[p] \in tables[p[1]][p[2]]
    <3>1. nic[p] \in tables[p[1]][p[2]]
      BY <2>1, <2>2 DEF NicsOk
    <3> QED BY <2>1, <3>1, PairsAre, TablesOk
  <2>3. ASSUME failed PROVE \E p \in Pairs : Distance(up, p[1], p[2]) = 0
    <3>1. PICK p \in Pairs : tables[p[1]][p[2]] = {}
      BY <2>1, <2>3 DEF NicsOk
    <3>2. Distance(up, p[1], p[2]) = 0
      BY <2>1, <3>1, PairsAre, TablesOk
    <3> QED BY <3>2
  <2> QED BY <2>2, <2>3 DEF QpsOnLiveNics
<1> QED BY <1>1, RoutingInvariant, PTL

\* A packet moves over links that are up, arrives at its destination and at no
\* other host, and is dropped only if a link went down on its way.
THEOREM PacketsArrive == Spec => []PacketsReachDst
<1>1. RoutingInv => PacketsReachDst
  BY DEF RoutingInv, PacketOk, PacketsReachDst
<1> QED BY <1>1, RoutingInvariant, PTL

=============================================================================
