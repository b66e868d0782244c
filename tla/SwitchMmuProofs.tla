--------------------------- MODULE SwitchMmuProofs ---------------------------
(***************************************************************************)
(* The safety invariants of SwitchMmu, for every number of ports, queues,  *)
(* packet sizes and every buffer configuration the assumptions allow.      *)
(***************************************************************************)
EXTENDS SwitchMmu, CountingProofs, FiniteSetTheorems, TLAPS

-----------------------------------------------------------------------------
(* Arithmetic *)

\* Unsigned arithmetic is exact on values that fit.
LEMMA ModSmall ==
    ASSUME NEW n \in Nat \ {0}, NEW a \in 0 .. n - 1
    PROVE  a % n = a
BY SMT

\* A remainder lies below its modulus, as a uint32_t does.
LEMMA ModRange ==
    ASSUME NEW n \in Nat \ {0}, NEW a \in Int
    PROVE  a % n \in 0 .. n - 1
BY SMT

\* The wrapping sum and difference of two counters are counters.
LEMMA PlusMinusType ==
    ASSUME NEW a \in Int, NEW b \in Int
    PROVE  Plus(a, b) \in 0 .. UintRange - 1 /\ Minus(a, b) \in 0 .. UintRange - 1
<1>1. a + b \in Int /\ a - b \in Int /\ UintRange \in Nat \ {0}
  BY SizesAssumption
<1> QED
  BY <1>1, ModRange DEF Plus, Minus

\* The threshold is at most the free part of the pool.
LEMMA DivBound ==
    ASSUME NEW d \in Nat \ {0}, NEW a \in Nat
    PROVE  a \div d \in Nat /\ a \div d <= a
BY SMT

\* A switch has finitely many ingress queues.
LEMMA PQFinite == IsFiniteSet(PQ)
BY PortsAssumption, FS_Product DEF PQ

-----------------------------------------------------------------------------
(***************************************************************************)
(* The inductive invariant, on a state m of the MMU and the bytes h that   *)
(* the node holds per ingress queue.  It is stated on records because one  *)
(* event may admit a packet and release it again: the state in between is  *)
(* not a state of the specification, but it has to be good too.            *)
(***************************************************************************)
MmuType(m) ==
    m \in [shared  : Nat,
           hdrm    : [PQ -> Nat],
           ingress : [PQ -> Nat],
           paused  : [PQ -> BOOLEAN],
           egress  : [PQ -> 0 .. UintRange - 1]]

Used(m) == [x \in PQ |-> GetSharedUsed(m, x)]

\* The counters are in range and add up.
Accounted(m, h) ==
    /\ MmuType(m)
    /\ h \in [PQ -> Nat]
    /\ m.shared <= SharedPool
    /\ m.shared = SumOf(Used(m))
    /\ \A x \in PQ : /\ m.ingress[x] + m.hdrm[x] = h[x]
                     /\ m.hdrm[x] <= Headroom[x[1]]
                     /\ m.ingress[x] <= Reserve + SharedPool

\* The pause flags agree with the counters.
PausedWell(m, h) ==
    \A x \in PQ : /\ m.hdrm[x] > 0 => m.paused[x]
                  /\ m.paused[x] => h[x] > 0

Good(m, h) == Accounted(m, h) /\ PausedWell(m, h)

\* GetSharedUsed never exceeds the pool, so that no queue is charged more than it holds.
LEMMA UsedType ==
    ASSUME NEW m, NEW h, Accounted(m, h)
    PROVE  Used(m) \in [PQ -> 0 .. SharedPool] /\ Used(m) \in [PQ -> Nat]
<1>1. \A x \in PQ : m.ingress[x] \in Nat /\ m.ingress[x] <= Reserve + SharedPool
  BY DEF Accounted, MmuType
<1>2. \A x \in PQ : GetSharedUsed(m, x) \in 0 .. SharedPool
  BY <1>1, SizesAssumption, WidthAssumption DEF GetSharedUsed
<1> QED
  BY <1>2, WidthAssumption DEF Used

\* The threshold is a part of the free pool: the subtraction does not wrap.
LEMMA ThresholdBound ==
    ASSUME NEW m, NEW h, Accounted(m, h), NEW x \in PQ
    PROVE  /\ GetPfcThreshold(m, x[1]) \in Nat
           /\ GetPfcThreshold(m, x[1]) <= SharedPool - m.shared
<1>1. m.shared \in Nat /\ m.shared <= SharedPool /\ SharedPool \in Nat
  BY WidthAssumption DEF Accounted, MmuType
<1>2. x[1] \in Ports
  BY DEF PQ
<1>3. SharedPool < UintRange
  BY SizesAssumption, WidthAssumption
<1>4. Minus(SharedPool, m.shared) = SharedPool - m.shared
  <2>1. SharedPool - m.shared \in 0 .. UintRange - 1
    BY <1>1, <1>3, SizesAssumption
  <2> QED
    BY <2>1, ModSmall, SizesAssumption DEF Minus
<1>5. PfcDivisor[x[1]] \in Nat \ {0}
  BY <1>2, SizesAssumption
<1>6. SharedPool - m.shared \in Nat
  BY <1>1
<1> QED
  BY <1>4, <1>5, <1>6, DivBound DEF GetPfcThreshold

\* The additions of UpdateIngressAdmission are exact.
LEMMA PlusExact ==
    ASSUME NEW m, NEW h, Accounted(m, h), NEW x \in PQ, NEW s \in PacketSizes
    PROVE  /\ s \in Nat \ {0}
           /\ Reserve \in Nat /\ SharedPool \in Nat
           /\ Headroom[x[1]] \in Nat
           /\ m.ingress[x] \in Nat /\ m.hdrm[x] \in Nat /\ m.shared \in Nat
           /\ Plus(m.ingress[x], s) = m.ingress[x] + s
           /\ Plus(m.hdrm[x], s) = m.hdrm[x] + s
           /\ \A d \in 0 .. s : Plus(m.shared, d) = m.shared + d
<1>1. x[1] \in Ports
  BY DEF PQ
<1>2. /\ s \in Nat \ {0} /\ Reserve \in Nat /\ SharedPool \in Nat
      /\ Headroom[x[1]] \in Nat /\ UintRange \in Nat \ {0}
  BY <1>1, SizesAssumption, WidthAssumption
<1>3. Reserve + SharedPool + Headroom[x[1]] + s < UintRange
  BY <1>1, WidthAssumption
<1>4. /\ m.ingress[x] \in Nat /\ m.hdrm[x] \in Nat /\ m.shared \in Nat
      /\ m.ingress[x] <= Reserve + SharedPool
      /\ m.hdrm[x] <= Headroom[x[1]]
      /\ m.shared <= SharedPool
  BY DEF Accounted, MmuType
<1>5. /\ m.ingress[x] + s \in 0 .. UintRange - 1
      /\ m.hdrm[x] + s \in 0 .. UintRange - 1
      /\ \A d \in 0 .. s : m.shared + d \in 0 .. UintRange - 1
  BY <1>2, <1>3, <1>4
<1> QED
  BY <1>2, <1>4, <1>5, ModSmall DEF Plus

\* An admitted packet is charged to the reserve, the pool or the headroom, and
\* the accounts stay exact.
LEMMA UpdateIngressAccounted ==
    ASSUME NEW m, NEW h, Accounted(m, h), NEW x \in PQ, NEW s \in PacketSizes,
           CheckIngressAdmission(m, x, s)
    PROVE  LET m1 == UpdateIngressAdmission(m, x, s)
           IN  /\ Accounted(m1, [h EXCEPT ![x] = @ + s])
               /\ m1.paused = m.paused
               /\ m1.egress = m.egress
               /\ \A y \in PQ \ {x} : m1.hdrm[y] = m.hdrm[y]
<1> DEFINE m1 == UpdateIngressAdmission(m, x, s)
           h1 == [h EXCEPT ![x] = @ + s]
           thresh == GetPfcThreshold(m, x[1])
           new == m.ingress[x] + s
<1>1. /\ s \in Nat \ {0} /\ Reserve \in Nat /\ SharedPool \in Nat
      /\ Headroom[x[1]] \in Nat
      /\ m.ingress[x] \in Nat /\ m.hdrm[x] \in Nat /\ m.shared \in Nat
  BY PlusExact
<1>2. /\ Plus(m.ingress[x], s) = new
      /\ Plus(m.hdrm[x], s) = m.hdrm[x] + s
      /\ \A d \in 0 .. s : Plus(m.shared, d) = m.shared + d
  BY PlusExact
<1>3. thresh \in Nat /\ thresh <= SharedPool - m.shared
  BY ThresholdBound
<1>4. Used(m) \in [PQ -> 0 .. SharedPool]
  BY UsedType
<1>5. MmuType(m) /\ h \in [PQ -> Nat] /\ m.shared <= SharedPool
  BY DEF Accounted
<1>6. \A y \in PQ : /\ m.ingress[y] + m.hdrm[y] = h[y]
                    /\ m.hdrm[y] <= Headroom[y[1]]
                    /\ m.ingress[y] <= Reserve + SharedPool
  BY DEF Accounted
<1>7. m.shared = SumOf(Used(m))
  BY DEF Accounted
<1>8. h1 \in [PQ -> Nat]
  BY <1>1, <1>5
<1>9. CASE new <= Reserve
  <2>1. m1 = [m EXCEPT !.ingress[x] = new]
    BY <1>2, <1>9 DEF UpdateIngressAdmission
  <2>2. MmuType(m1)
    BY <2>1, <1>1, <1>5 DEF MmuType
  <2>3. /\ m1.ingress = [m.ingress EXCEPT ![x] = new]
        /\ m1.hdrm = m.hdrm /\ m1.shared = m.shared
        /\ m1.paused = m.paused /\ m1.egress = m.egress
    BY <2>1, <1>5 DEF MmuType
  <2>4. Used(m1) = Used(m)
    BY <2>3, <1>1, <1>5, <1>9 DEF Used, GetSharedUsed, MmuType
  <2>5. \A y \in PQ : /\ m1.ingress[y] + m1.hdrm[y] = h1[y]
                      /\ m1.hdrm[y] <= Headroom[y[1]]
                      /\ m1.ingress[y] <= Reserve + SharedPool
    BY <2>3, <1>1, <1>5, <1>6, <1>9 DEF MmuType
  <2> QED
    BY <2>2, <2>3, <2>4, <2>5, <1>5, <1>7, <1>8 DEF Accounted
<1>10. CASE new > Reserve /\ new - Reserve <= thresh
  <2> DEFINE d == Least(s, new - Reserve)
  <2>1. d \in 0 .. s /\ d <= thresh
    BY <1>1, <1>3, <1>10 DEF Least
  <2>2. m1 = [m EXCEPT !.ingress[x] = new, !.shared = m.shared + d]
    <3>1. Plus(m.shared, d) = m.shared + d
      BY <1>2, <2>1
    <3>2. m1 = [m EXCEPT !.ingress[x] = new, !.shared = Plus(m.shared, d)]
      BY <1>1, <1>2, <1>10 DEF UpdateIngressAdmission
    <3> QED
      BY <3>1, <3>2
  <2>3. /\ m1.ingress = [m.ingress EXCEPT ![x] = new]
        /\ m1.hdrm = m.hdrm /\ m1.shared = m.shared + d
        /\ m1.paused = m.paused /\ m1.egress = m.egress
    BY <2>2, <1>5 DEF MmuType
  <2>4. MmuType(m1)
    <3>1. m.shared + d \in Nat /\ new \in Nat
      BY <2>1, <1>1
    <3> HIDE DEF d, new, m1
    <3> QED
      BY <3>1, <2>2, <1>5 DEF MmuType
  <2>5. Used(m)[x] = GetSharedUsed(m, x) /\ Used(m)[x] + d = new - Reserve
    BY <1>1, <1>10 DEF Used, GetSharedUsed, Least
  <2>6. Used(m1) = [Used(m) EXCEPT ![x] = new - Reserve]
    BY <2>3, <1>1, <1>5, <1>10 DEF Used, GetSharedUsed, MmuType
  <2>7. new - Reserve \in 0 .. SharedPool
    BY <1>1, <1>3, <1>10
  <2>8. SumOf(Used(m1)) = m.shared - Used(m)[x] + (new - Reserve)
    <3> DEFINE v == new - Reserve
               f == Used(m)
    <3>1. SumOf(f) = m.shared
      BY <1>7
    <3>2. v \in Nat /\ f \in [PQ -> Nat]
      BY <2>7, <1>4, UsedType
    <3> HIDE DEF v, f
    <3>3. SumOf([f EXCEPT ![x] = v])
            = SumOf(f) - f[x] + v
      BY <3>2, PQFinite, SumUpdate, Zenon
    <3> QED
      BY <3>1, <3>3, <2>6 DEF v, f
  <2>9. m1.shared = SumOf(Used(m1))
    <3>1. Used(m)[x] \in Nat
      BY <1>4
    <3> QED
      BY <3>1, <2>1, <2>3, <2>5, <2>8, <1>1
  <2>10. m1.shared <= SharedPool
    BY <2>1, <2>3, <1>1, <1>3
  <2>11. \A y \in PQ : /\ m1.ingress[y] + m1.hdrm[y] = h1[y]
                       /\ m1.hdrm[y] <= Headroom[y[1]]
                       /\ m1.ingress[y] <= Reserve + SharedPool
    BY <2>3, <2>7, <1>1, <1>5, <1>6 DEF MmuType
  <2> QED
    BY <2>3, <2>4, <2>9, <2>10, <2>11, <1>8 DEF Accounted
<1>11. CASE new > Reserve /\ new - Reserve > thresh
  <2>1. m1 = [m EXCEPT !.hdrm[x] = m.hdrm[x] + s]
    BY <1>1, <1>2, <1>3, <1>11 DEF UpdateIngressAdmission
  <2>2. /\ m1.hdrm = [m.hdrm EXCEPT ![x] = m.hdrm[x] + s]
        /\ m1.ingress = m.ingress /\ m1.shared = m.shared
        /\ m1.paused = m.paused /\ m1.egress = m.egress
    BY <2>1, <1>5 DEF MmuType
  <2>3. MmuType(m1)
    BY <2>1, <1>1, <1>5 DEF MmuType
  <2>4. Used(m1) = Used(m)
    BY <2>2 DEF Used, GetSharedUsed
  \* The pool has no room for the packet, so the check admitted it to headroom.
  <2>5. s + m.hdrm[x] <= Headroom[x[1]]
    <3>1. ~(s + GetSharedUsed(m, x) <= thresh)
      BY <1>1, <1>3, <1>11 DEF GetSharedUsed
    <3> QED
      BY <3>1 DEF CheckIngressAdmission
  <2>6. \A y \in PQ : /\ m1.ingress[y] + m1.hdrm[y] = h1[y]
                      /\ m1.hdrm[y] <= Headroom[y[1]]
                      /\ m1.ingress[y] <= Reserve + SharedPool
    BY <2>2, <2>5, <1>1, <1>5, <1>6 DEF MmuType
  <2> QED
    BY <2>2, <2>3, <2>4, <2>6, <1>5, <1>7, <1>8 DEF Accounted, MmuType
<1> QED
  BY <1>1, <1>3, <1>9, <1>10, <1>11

\* The egress counters and the pause flags are no part of the ingress accounts.
LEMMA EgressKeepsAccounts ==
    ASSUME NEW m, NEW h, Accounted(m, h), NEW y \in PQ, NEW v \in 0 .. UintRange - 1
    PROVE  LET r == [m EXCEPT !.egress[y] = v]
           IN  /\ Accounted(r, h)
               /\ r.hdrm = m.hdrm /\ r.ingress = m.ingress
               /\ r.shared = m.shared /\ r.paused = m.paused
<1> DEFINE r == [m EXCEPT !.egress[y] = v]
<1>1. MmuType(m)
  BY DEF Accounted
<1>2. /\ r.hdrm = m.hdrm /\ r.ingress = m.ingress
      /\ r.shared = m.shared /\ r.paused = m.paused
  BY <1>1 DEF MmuType
<1>3. MmuType(r)
  BY <1>1 DEF MmuType
<1>4. Used(r) = Used(m)
  BY <1>2 DEF Used, GetSharedUsed
<1> QED
  BY <1>2, <1>3, <1>4 DEF Accounted

\* Setting a pause flag leaves the accounts of the MMU alone.
LEMMA PauseKeepsAccounts ==
    ASSUME NEW m, NEW h, Accounted(m, h), NEW y \in PQ, NEW b \in BOOLEAN
    PROVE  LET r == [m EXCEPT !.paused[y] = b]
           IN  /\ Accounted(r, h)
               /\ r.hdrm = m.hdrm
               /\ r.paused = [m.paused EXCEPT ![y] = b]
<1> DEFINE r == [m EXCEPT !.paused[y] = b]
<1>1. MmuType(m)
  BY DEF Accounted
<1>2. /\ r.hdrm = m.hdrm /\ r.ingress = m.ingress /\ r.shared = m.shared
      /\ r.paused = [m.paused EXCEPT ![y] = b]
  BY <1>1 DEF MmuType
<1>3. MmuType(r)
  BY <1>1 DEF MmuType
<1>4. Used(r) = Used(m)
  BY <1>2 DEF Used, GetSharedUsed
<1> QED
  BY <1>2, <1>3, <1>4 DEF Accounted

\* SendToDev keeps the MMU good: if the packet went to headroom, the queue is
\* paused in the same event.
LEMMA EnqueuedGood ==
    ASSUME NEW m, NEW h, Good(m, h), NEW in \in Ports, NEW out \in Ports,
           NEW q \in Queues, NEW s \in PacketSizes,
           CheckIngressAdmission(m, <<in, q>>, s)
    PROVE  Good(Enqueued(m, in, out, q, s), [h EXCEPT ![<<in, q>>] = @ + s])
<1> DEFINE x == <<in, q>>
           y == <<out, q>>
           h1 == [h EXCEPT ![x] = @ + s]
           m1 == UpdateIngressAdmission(m, x, s)
           m2 == UpdateEgressAdmission(m1, y, s)
           m3 == SetPauseIfNeeded(m2, x)
<1>1. x \in PQ /\ y \in PQ
  BY DEF PQ
<1>2. Accounted(m, h) /\ PausedWell(m, h)
  BY DEF Good
<1>3. /\ Accounted(m1, h1) /\ m1.paused = m.paused
      /\ \A z \in PQ \ {x} : m1.hdrm[z] = m.hdrm[z]
  BY <1>1, <1>2, UpdateIngressAccounted
<1>4. /\ Accounted(m2, h1) /\ m2.hdrm = m1.hdrm /\ m2.paused = m1.paused
  <2> HIDE DEF m1, x, y, h1
  <2>1. m1.egress[y] \in Int /\ s \in Int
    BY <1>1, <1>3, SizesAssumption DEF Accounted, MmuType
  <2>2. Plus(m1.egress[y], s) \in 0 .. UintRange - 1
    BY <2>1, PlusMinusType
  <2>3. m2 = [m1 EXCEPT !.egress[y] = Plus(m1.egress[y], s)]
    BY DEF UpdateEgressAdmission
  <2> HIDE DEF m2
  <2> DEFINE v == Plus(m1.egress[y], s)
  <2>4. v \in 0 .. UintRange - 1 /\ m2 = [m1 EXCEPT !.egress[y] = v]
    BY <2>2, <2>3
  <2> HIDE DEF v
  <2> QED
    BY <2>4, <1>1, <1>3, EgressKeepsAccounts
<1> HIDE DEF m1, m2, x, y
<1>5. /\ Accounted(m3, h1)
      /\ m3.hdrm = m2.hdrm
      /\ \A z \in PQ \ {x} : m3.paused[z] = m2.paused[z]
      /\ m2.paused[x] => m3.paused[x]
      /\ m2.hdrm[x] > 0 => m3.paused[x]
  <2>1. m2.paused \in [PQ -> BOOLEAN]
    BY <1>4 DEF Accounted, MmuType
  <2>2. CASE CheckShouldPause(m2, x)
    <3>1. m3 = [m2 EXCEPT !.paused[x] = TRUE]
      BY <2>2 DEF SetPauseIfNeeded
    <3> HIDE DEF m3, h1
    <3>2. /\ Accounted(m3, h1) /\ m3.hdrm = m2.hdrm
          /\ m3.paused = [m2.paused EXCEPT ![x] = TRUE]
      BY <3>1, <1>1, <1>4, PauseKeepsAccounts
    <3> QED
      BY <3>2, <2>1, <1>1
  <2>3. CASE ~CheckShouldPause(m2, x)
    <3>1. m3 = m2
      BY <2>3 DEF SetPauseIfNeeded
    <3>2. m2.hdrm[x] > 0 => m2.paused[x]
      BY <2>3 DEF CheckShouldPause
    <3> QED
      BY <3>1, <3>2, <1>4
  <2> QED
    BY <2>2, <2>3
<1>6. PausedWell(m3, h1)
  <2>1. h \in [PQ -> Nat] /\ s \in Nat \ {0}
    BY <1>2, SizesAssumption DEF Accounted
  <2>2. h1[x] > 0 /\ \A z \in PQ \ {x} : h1[z] = h[z]
    BY <2>1, <1>1
  <2>3. \A z \in PQ : m3.hdrm[z] > 0 => m3.paused[z]
    BY <1>2, <1>3, <1>4, <1>5 DEF PausedWell
  <2>4. \A z \in PQ : m3.paused[z] => h1[z] > 0
    BY <2>2, <1>2, <1>3, <1>4, <1>5 DEF PausedWell
  <2> QED
    BY <2>3, <2>4 DEF PausedWell
<1>7. m3 = Enqueued(m, in, out, q, s)
  BY DEF Enqueued, m1, m2, x, y
<1> QED
  BY <1>5, <1>6, <1>7 DEF Good, x

\* A release takes from headroom, then pool, then reserve; every subtraction is
\* exact because the queue holds at least the bytes that are released.
LEMMA RemoveIngressAccounted ==
    ASSUME NEW m, NEW h, Accounted(m, h), NEW x \in PQ, NEW s \in PacketSizes,
           s <= h[x]
    PROVE  LET m1 == RemoveFromIngressAdmission(m, x, s)
           IN  /\ Accounted(m1, [h EXCEPT ![x] = @ - s])
               /\ m1.paused = m.paused
               /\ m1.egress = m.egress
               /\ \A y \in PQ \ {x} : m1.hdrm[y] = m.hdrm[y]
<1> DEFINE m1 == RemoveFromIngressAdmission(m, x, s)
           h1 == [h EXCEPT ![x] = @ - s]
           fromHdrm == Least(m.hdrm[x], s)
           used == GetSharedUsed(m, x)
           fromShared == Least(s - fromHdrm, used)
           newHdrm == m.hdrm[x] - fromHdrm
           newIngress == m.ingress[x] - (s - fromHdrm)
           newShared == m.shared - fromShared
<1>1. /\ s \in Nat \ {0} /\ Reserve \in Nat /\ SharedPool \in Nat
      /\ Headroom[x[1]] \in Nat /\ UintRange \in Nat \ {0}
      /\ m.ingress[x] \in Nat /\ m.hdrm[x] \in Nat /\ m.shared \in Nat
  BY PlusExact, SizesAssumption
<1>2. MmuType(m) /\ h \in [PQ -> Nat] /\ m.shared <= SharedPool
  BY DEF Accounted
<1>3. \A y \in PQ : /\ m.ingress[y] + m.hdrm[y] = h[y]
                    /\ m.hdrm[y] <= Headroom[y[1]]
                    /\ m.ingress[y] <= Reserve + SharedPool
  BY DEF Accounted
<1>4. m.shared = SumOf(Used(m))
  BY DEF Accounted
<1>5. Used(m) \in [PQ -> 0 .. SharedPool] /\ Used(m)[x] = used
  BY UsedType DEF Used
<1>6. used <= m.shared
  <2>1. Used(m) \in [PQ -> Nat] /\ 0 \in Nat
    BY UsedType
  <2> QED
    BY <2>1, <1>1, <1>4, <1>5, PQFinite, SumUpdate
<1>7. /\ fromHdrm \in Nat /\ fromHdrm <= m.hdrm[x] /\ fromHdrm <= s
      /\ fromShared \in Nat /\ fromShared <= used /\ fromShared <= s - fromHdrm
      /\ s - fromHdrm <= m.ingress[x]
  BY <1>1, <1>3 DEF Least, GetSharedUsed
<1>8. newHdrm \in Nat /\ newIngress \in Nat /\ newShared \in Nat
  BY <1>1, <1>5, <1>6, <1>7
<1>9. /\ Minus(m.hdrm[x], fromHdrm) = newHdrm
      /\ Minus(m.ingress[x], s - fromHdrm) = newIngress
      /\ Minus(m.shared, fromShared) = newShared
  <2>1. Reserve + SharedPool + Headroom[x[1]] + s < UintRange
    <3>1. x[1] \in Ports
      BY DEF PQ
    <3> QED
      BY <3>1, WidthAssumption
  <2>2. /\ newHdrm \in 0 .. UintRange - 1
        /\ newIngress \in 0 .. UintRange - 1
        /\ newShared \in 0 .. UintRange - 1
    BY <2>1, <1>1, <1>2, <1>3, <1>7, <1>8
  <2> QED
    BY <2>2, <1>1, ModSmall DEF Minus
<1>10. m1 = [m EXCEPT !.hdrm[x] = newHdrm, !.ingress[x] = newIngress,
                      !.shared = newShared]
  BY <1>9 DEF RemoveFromIngressAdmission
<1>11. newIngress = m.ingress[x] - (s - fromHdrm) /\ newHdrm = m.hdrm[x] - fromHdrm
  OBVIOUS
<1>12. newShared = m.shared - used + (IF newIngress > Reserve THEN newIngress - Reserve ELSE 0)
  BY <1>1, <1>7, <1>8 DEF Least, GetSharedUsed
<1> HIDE DEF m1, newHdrm, newIngress, newShared, fromHdrm, fromShared
<1>13. /\ m1.hdrm = [m.hdrm EXCEPT ![x] = newHdrm]
       /\ m1.ingress = [m.ingress EXCEPT ![x] = newIngress]
       /\ m1.shared = newShared
       /\ m1.paused = m.paused /\ m1.egress = m.egress
       /\ MmuType(m1)
  BY <1>2, <1>8, <1>10 DEF MmuType
<1>14. m1.shared = SumOf(Used(m1))
  <2> DEFINE v == IF newIngress > Reserve THEN newIngress - Reserve ELSE 0
             f == Used(m)
  <2>1. Used(m1) = [f EXCEPT ![x] = v]
    BY <1>2, <1>13 DEF Used, GetSharedUsed, MmuType
  <2>2. v \in 0 .. SharedPool
    <3>1. newIngress <= m.ingress[x]
      BY <1>1, <1>7, <1>8, <1>11
    <3>2. newIngress <= Reserve + SharedPool
      BY <3>1, <1>1, <1>3, <1>8
    <3> QED
      BY <3>2, <1>1, <1>8
  <2> HIDE DEF v
  <2>3. newShared = m.shared - f[x] + v
    BY <1>5, <1>12 DEF v
  <2> HIDE DEF f
  <2>4. f \in [PQ -> Nat] /\ SumOf(f) = m.shared
    BY <1>4, UsedType DEF f
  <2>5. SumOf([f EXCEPT ![x] = v]) = m.shared - f[x] + v
    <3>1. SumOf([f EXCEPT ![x] = v])
            = SumOf(f) - f[x] + v
      <4>1. v \in Nat
        BY <2>2, <1>1
      <4> QED
        BY <4>1, <2>4, PQFinite, SumUpdate, Zenon
    <3> QED
      BY <3>1, <2>4
  <2> QED
    BY <2>1, <2>3, <2>5, <1>13
<1>15. m1.shared <= SharedPool
  BY <1>1, <1>2, <1>7, <1>8, <1>13 DEF newShared
<1>16. h1 \in [PQ -> Nat]
  BY <1>1, <1>2
<1>17. \A y \in PQ : /\ m1.ingress[y] + m1.hdrm[y] = h1[y]
                     /\ m1.hdrm[y] <= Headroom[y[1]]
                     /\ m1.ingress[y] <= Reserve + SharedPool
  BY <1>1, <1>2, <1>3, <1>7, <1>8, <1>11, <1>13 DEF MmuType
<1>18. \A y \in PQ \ {x} : m1.hdrm[y] = m.hdrm[y]
  BY <1>2, <1>13 DEF MmuType
<1> QED
  BY <1>13, <1>14, <1>15, <1>16, <1>17, <1>18 DEF Accounted, m1

\* SwitchNotifyDequeue keeps the MMU good: the queue is resumed only with its
\* headroom empty, and always when its last byte leaves.
LEMMA DequeuedGood ==
    ASSUME NEW m, NEW h, Good(m, h), NEW in \in Ports, NEW out \in Ports,
           NEW q \in Queues, NEW s \in PacketSizes, s <= h[<<in, q>>]
    PROVE  Good(Dequeued(m, in, out, q, s), [h EXCEPT ![<<in, q>>] = @ - s])
<1> DEFINE x == <<in, q>>
           y == <<out, q>>
           h1 == [h EXCEPT ![x] = @ - s]
           m1 == RemoveFromIngressAdmission(m, x, s)
           m2 == RemoveFromEgressAdmission(m1, y, s)
           m3 == SetResumeIfNeeded(m2, x)
<1>1. x \in PQ /\ y \in PQ
  BY DEF PQ
<1>2. Accounted(m, h) /\ PausedWell(m, h)
  BY DEF Good
<1>3. /\ Accounted(m1, h1) /\ m1.paused = m.paused
      /\ \A z \in PQ \ {x} : m1.hdrm[z] = m.hdrm[z]
      /\ m1.hdrm[x] > 0 => m.hdrm[x] > 0
  <2>1. /\ Accounted(m1, h1) /\ m1.paused = m.paused
        /\ \A z \in PQ \ {x} : m1.hdrm[z] = m.hdrm[z]
    BY <1>1, <1>2, RemoveIngressAccounted
  <2>2. m1.hdrm[x] > 0 => m.hdrm[x] > 0
    <3>1. SUFFICES ASSUME m.hdrm[x] = 0
                   PROVE  m1.hdrm[x] = 0
      <4>1. m.hdrm[x] \in Nat /\ m1.hdrm[x] \in Nat
        <5> HIDE DEF m1
        <5> QED
          BY <1>1, <1>2, <2>1 DEF Accounted, MmuType
      <4> QED
        BY <4>1
    <3>2. s \in Nat
      BY SizesAssumption
    <3>3. Least(m.hdrm[x], s) = 0
      BY <3>1, <3>2 DEF Least
    <3>4. m1.hdrm[x] = Minus(m.hdrm[x], 0)
      BY <1>1, <1>2, <3>3 DEF RemoveFromIngressAdmission, Accounted, MmuType
    <3>5. Minus(0, 0) = 0
      BY ModSmall, SizesAssumption DEF Minus
    <3> QED
      BY <3>1, <3>4, <3>5
  <2> QED
    BY <2>1, <2>2
<1>4. /\ Accounted(m2, h1) /\ m2.hdrm = m1.hdrm /\ m2.paused = m1.paused
      /\ m2.ingress = m1.ingress
  <2> HIDE DEF m1, x, y, h1
  <2>1. m1.egress[y] \in Int /\ s \in Int
    BY <1>1, <1>3, SizesAssumption DEF Accounted, MmuType
  <2>2. Minus(m1.egress[y], s) \in 0 .. UintRange - 1
    BY <2>1, PlusMinusType
  <2>3. m2 = [m1 EXCEPT !.egress[y] = Minus(m1.egress[y], s)]
    BY DEF RemoveFromEgressAdmission
  <2> HIDE DEF m2
  <2> DEFINE v == Minus(m1.egress[y], s)
  <2>4. v \in 0 .. UintRange - 1 /\ m2 = [m1 EXCEPT !.egress[y] = v]
    BY <2>2, <2>3
  <2> HIDE DEF v
  <2> QED
    BY <2>4, <1>1, <1>3, EgressKeepsAccounts
<1> HIDE DEF m1, m2, x, y
<1>5. /\ m2.paused \in [PQ -> BOOLEAN]
      /\ m2.hdrm[x] \in Nat /\ m2.ingress[x] \in Nat
      /\ m2.ingress[x] + m2.hdrm[x] = h1[x]
      /\ h1[x] \in Nat
  <2> HIDE DEF h1
  <2> QED
    BY <1>1, <1>4 DEF Accounted, MmuType
<1>6. /\ Accounted(m3, h1)
      /\ m3.hdrm = m2.hdrm
      /\ \A z \in PQ \ {x} : m3.paused[z] = m2.paused[z]
      /\ m2.hdrm[x] > 0 /\ m2.paused[x] => m3.paused[x]
      /\ m3.paused[x] => h1[x] > 0
  <2>1. CASE CheckShouldResume(m2, x)
    <3>1. m3 = [m2 EXCEPT !.paused[x] = FALSE] /\ m2.hdrm[x] = 0
      BY <2>1 DEF SetResumeIfNeeded, CheckShouldResume
    <3> HIDE DEF m3, h1
    <3>2. /\ Accounted(m3, h1) /\ m3.hdrm = m2.hdrm
          /\ m3.paused = [m2.paused EXCEPT ![x] = FALSE]
      BY <3>1, <1>1, <1>4, PauseKeepsAccounts
    <3> QED
      BY <3>1, <3>2, <1>1, <1>5
  <2>2. CASE ~CheckShouldResume(m2, x)
    <3>1. m3 = m2
      BY <2>2 DEF SetResumeIfNeeded
    \* A queue without bytes uses no headroom and nothing above its reserve.
    <3>2. h1[x] = 0 => m2.hdrm[x] = 0 /\ GetSharedUsed(m2, x) = 0
      <4> HIDE DEF h1
      <4> QED
        BY <1>5, SizesAssumption DEF GetSharedUsed
    <3>3. m2.paused[x] => h1[x] > 0
      <4> HIDE DEF h1
      <4> QED
        BY <3>2, <2>2, <1>5 DEF CheckShouldResume
    <3> HIDE DEF h1
    <3> QED
      BY <3>1, <3>3, <1>4
  <2> QED
    BY <2>1, <2>2
<1>7. PausedWell(m3, h1)
  <2>1. \A z \in PQ \ {x} : h1[z] = h[z]
    BY <1>2 DEF Accounted
  <2> HIDE DEF m3, h1
  <2>2. \A z \in PQ : m3.hdrm[z] > 0 => m3.paused[z]
    BY <1>2, <1>3, <1>4, <1>6 DEF PausedWell
  <2>3. \A z \in PQ : m3.paused[z] => h1[z] > 0
    BY <2>1, <1>2, <1>3, <1>4, <1>6 DEF PausedWell
  <2> QED
    BY <2>2, <2>3 DEF PausedWell
<1>8. m3 = Dequeued(m, in, out, q, s)
  BY DEF Dequeued, m1, m2, x, y
<1> QED
  BY <1>6, <1>7, <1>8 DEF Good, x

-----------------------------------------------------------------------------
(* The theorems *)

\* The inductive invariant: the accounts of the MMU agree with the bytes held,
\* and its pause flags with the accounts.
Inv == Good(mmu, inQ) /\ outQ \in [PQ -> Nat] /\ halted \in BOOLEAN

\* The counters of a fresh MMU (SwitchMmu::SwitchMmu) satisfy the invariant.
LEMMA InitInv == Init => Inv
<1> SUFFICES ASSUME Init PROVE Inv
  OBVIOUS
<1>1. /\ mmu.shared = 0 /\ mmu.hdrm = [x \in PQ |-> 0]
      /\ mmu.ingress = [x \in PQ |-> 0] /\ mmu.paused = [x \in PQ |-> FALSE]
      /\ inQ = [x \in PQ |-> 0]
  BY DEF Init, SwitchMmuInit
<1>2. /\ SharedPool \in Nat /\ Reserve \in Nat /\ UintRange \in Nat \ {0}
      /\ Headroom \in [Ports -> Nat]
  BY SizesAssumption, WidthAssumption
<1>3. MmuType(mmu)
  BY <1>2 DEF Init, SwitchMmuInit, MmuType
<1>4. Used(mmu) = [x \in PQ |-> 0] /\ SumOf([x \in PQ |-> 0]) = 0
  <2>1. Used(mmu) = [x \in PQ |-> 0]
    BY <1>1, <1>2 DEF Used, GetSharedUsed
  <2>2. SumOf([x \in PQ |-> 0]) = Cardinality(PQ) * 0
    BY PQFinite, SumConstant
  <2>3. Cardinality(PQ) \in Nat
    BY PQFinite, FS_CardinalityType
  <2> QED
    BY <2>1, <2>2, <2>3
<1>5. mmu.shared = SumOf(Used(mmu))
  BY <1>1, <1>4
<1>6. \A x \in PQ : /\ mmu.ingress[x] + mmu.hdrm[x] = inQ[x]
                    /\ mmu.hdrm[x] <= Headroom[x[1]]
                    /\ mmu.ingress[x] <= Reserve + SharedPool
  <2>1. \A x \in PQ : x[1] \in Ports
    BY DEF PQ
  <2> QED
    BY <2>1, <1>1, <1>2
<1>7. Accounted(mmu, inQ)
  BY <1>1, <1>2, <1>3, <1>5, <1>6 DEF Accounted
<1>8. PausedWell(mmu, inQ)
  BY <1>1 DEF PausedWell
<1> QED
  BY <1>7, <1>8 DEF Inv, Good, Init

\* Every admission, release and rejection preserves the invariant.
LEMMA NextInv == Inv /\ [Next]_vars => Inv'
<1> SUFFICES ASSUME Inv, [Next]_vars PROVE Inv'
  OBVIOUS
<1>1. Good(mmu, inQ) /\ outQ \in [PQ -> Nat] /\ halted \in BOOLEAN
  BY DEF Inv
<1>2. inQ \in [PQ -> Nat]
  BY <1>1 DEF Good, Accounted
<1>3. CASE UNCHANGED vars
  BY <1>1, <1>3 DEF vars, Inv, Good, Accounted, PausedWell
<1>4. ASSUME NEW in \in Ports, NEW out \in Ports, NEW q \in Queues,
             NEW s \in PacketSizes, Admit(in, out, q, s)
      PROVE  Inv'
  <2>1. Good(mmu', inQ')
    BY <1>1, <1>4, EnqueuedGood DEF Admit
  <2>2. outQ' \in [PQ -> Nat]
    BY <1>1, <1>4, SizesAssumption DEF Admit, PQ
  <2> QED
    BY <2>1, <2>2, <1>1, <1>4 DEF Inv, Admit
<1>5. ASSUME NEW in \in Ports, NEW out \in Ports, NEW q \in Queues,
             NEW s \in PacketSizes, AdmitAndRelease(in, out, q, s)
      PROVE  Inv'
  <2> DEFINE x == <<in, q>>
             m1 == Enqueued(mmu, in, out, q, s)
             h1 == [inQ EXCEPT ![x] = @ + s]
  <2>1. Good(m1, h1)
    BY <1>1, <1>5, EnqueuedGood DEF AdmitAndRelease
  <2>2. x \in PQ /\ s \in Nat
    BY SizesAssumption DEF PQ
  <2>3. s <= h1[x] /\ [h1 EXCEPT ![x] = @ - s] = inQ
    <3> HIDE DEF x
    <3>1. /\ h1 \in [PQ -> Nat] /\ h1[x] = inQ[x] + s
          /\ \A y \in PQ \ {x} : h1[y] = inQ[y]
      BY <1>2, <2>2
    <3>2. s <= h1[x] /\ h1[x] - s = inQ[x]
      BY <3>1, <1>2, <2>2
    <3> DEFINE g == [h1 EXCEPT ![x] = h1[x] - s]
    <3>3. g \in [PQ -> Nat] /\ \A y \in PQ : g[y] = inQ[y]
      <4> HIDE DEF h1
      <4> QED
        BY <3>1, <3>2, <1>2, <2>2
    <3>4. g = inQ
      <4> HIDE DEF g
      <4> QED
        BY <3>3, <1>2
    <3> QED
      BY <3>2, <3>4
  <2> HIDE DEF m1, h1
  <2>4. Good(Dequeued(m1, in, out, q, s), [h1 EXCEPT ![x] = @ - s])
    BY <2>1, <2>3, DequeuedGood
  <2>5. mmu' = Dequeued(m1, in, out, q, s) /\ inQ' = inQ
    BY <1>5 DEF AdmitAndRelease, m1
  <2> QED
    BY <2>3, <2>4, <2>5, <1>1, <1>5 DEF Inv, AdmitAndRelease
<1>6. ASSUME NEW in \in Ports, NEW q \in Queues, NEW s \in PacketSizes,
             Reject(in, q, s)
      PROVE  Inv'
  BY <1>1, <1>6 DEF Reject, Inv
<1>7. ASSUME NEW in \in Ports, NEW out \in Ports, NEW q \in Queues,
             NEW s \in PacketSizes, Release(in, out, q, s)
      PROVE  Inv'
  <2>1. Good(mmu', inQ')
    BY <1>1, <1>7, DequeuedGood DEF Release
  <2>2. outQ' \in [PQ -> Nat]
    BY <1>1, <1>7, SizesAssumption DEF Release, PQ
  <2> QED
    BY <2>1, <2>2, <1>1, <1>7 DEF Inv, Release
<1> QED
  BY <1>3, <1>4, <1>5, <1>6, <1>7 DEF Next

\* The inductive invariant holds in every reachable state of the MMU.
THEOREM Invariance == Spec => []Inv
BY InitInv, NextInv, PTL DEF Spec

\* No counter of the MMU ever leaves its range, for any configuration whose
\* largest legal values fit a uint32_t (switch-mmu.h:61-65).
THEOREM TypeCorrect == Spec => []TypeOK
<1>1. Inv => TypeOK
  <2> SUFFICES ASSUME Inv PROVE TypeOK
    OBVIOUS
  <2>1. MmuType(mmu) /\ inQ \in [PQ -> Nat] /\ mmu.shared <= SharedPool
    BY DEF Inv, Good, Accounted
  <2>2. \A x \in PQ : /\ mmu.hdrm[x] <= Headroom[x[1]]
                      /\ mmu.ingress[x] <= Reserve + SharedPool
    BY DEF Inv, Good, Accounted
  <2>3. /\ mmu.shared \in 0 .. UintRange - 1
        /\ \A x \in PQ : /\ mmu.hdrm[x] \in 0 .. UintRange - 1
                         /\ mmu.ingress[x] \in 0 .. UintRange - 1
    <3>1. PICK s : s \in PacketSizes
      BY SizesAssumption
    <3>2. \A x \in PQ : /\ x[1] \in Ports
                        /\ Headroom[x[1]] \in Nat
                        /\ Reserve + SharedPool + Headroom[x[1]] + s < UintRange
      BY <3>1, SizesAssumption, WidthAssumption DEF PQ
    <3>3. s \in Nat /\ Reserve \in Nat /\ UintRange \in Nat /\ SharedPool \in Nat
      BY <3>1, SizesAssumption, WidthAssumption
    <3>4. /\ mmu.shared \in Nat
          /\ \A x \in PQ : mmu.hdrm[x] \in Nat /\ mmu.ingress[x] \in Nat
      BY <2>1 DEF MmuType
    <3> QED
      BY <2>1, <2>2, <3>2, <3>3, <3>4, WidthAssumption
  <2>4. mmu \in [shared  : 0 .. UintRange - 1,
                hdrm    : [PQ -> 0 .. UintRange - 1],
                ingress : [PQ -> 0 .. UintRange - 1],
                paused  : [PQ -> BOOLEAN],
                egress  : [PQ -> 0 .. UintRange - 1]]
    BY <2>1, <2>3 DEF MmuType
  <2> QED
    BY <2>1, <2>4 DEF TypeOK, Inv
<1> QED
  BY <1>1, Invariance, PTL

\* Charges equal what is held: no subtraction of RemoveFromIngressAdmission
\* wraps and no byte stays charged (switch-mmu.cc:68-74).
THEOREM IngressConservation == Spec => []IngressConserved
<1>1. Inv => IngressConserved
  BY DEF Inv, Good, Accounted, IngressConserved
<1> QED
  BY <1>1, Invariance, PTL

\* Headroom is used only under PFC pause, and never beyond its size, whatever
\* the other ports do to the shared threshold meanwhile.
THEOREM HeadroomSafe == Spec => [](HeadroomOnlyWhilePaused /\ HeadroomBound)
<1>1. Inv => HeadroomOnlyWhilePaused /\ HeadroomBound
  BY DEF Inv, Good, Accounted, PausedWell, HeadroomOnlyWhilePaused, HeadroomBound
<1> QED
  BY <1>1, Invariance, PTL

\* No upstream neighbour stays paused by an empty ingress queue.
THEOREM PausedQueueHoldsBytes == Spec => []PausedHoldsBytes
<1>1. Inv => PausedHoldsBytes
  BY DEF Inv, Good, PausedWell, PausedHoldsBytes
<1> QED
  BY <1>1, Invariance, PTL

\* shared_used_bytes is exactly what all the ingress queues use above their
\* reserves, and it never exceeds the pool (switch-mmu.cc:61, 73, 95).
THEOREM SharedAccounting == Spec => [](SharedExact /\ PoolBound)
<1>1. Inv => SharedExact /\ PoolBound
  <2> SUFFICES ASSUME Inv PROVE SharedExact /\ PoolBound
    OBVIOUS
  <2>1. Accounted(mmu, inQ)
    BY DEF Inv, Good
  <2> QED
    BY <2>1 DEF Accounted, Used, SharedExact, PoolBound
<1> QED
  BY <1>1, Invariance, PTL

-----------------------------------------------------------------------------
(* The bytes of a class, from ingress to egress *)

\* The values of f for the queues of class q, by port.
Class(f, q) == [p \in Ports |-> f[<<p, q>>]]

\* A class never holds more than the buffer: every byte of it is in a reserve,
\* in the shared pool or in the headroom, of which the buffer has one for each
\* port.
LEMMA ClassBound ==
    ASSUME NEW m, NEW h, Accounted(m, h), NEW q \in Queues
    PROVE  SumOf(Class(h, q)) <= BufferSize
<1> DEFINE res == [p \in Ports |-> Reserve]
           use == [p \in Ports |-> Used(m)[<<p, q>>]]
           two == [p \in Ports |-> res[p] + use[p]]
           all == [p \in Ports |-> two[p] + Headroom[p]]
           cls == Class(h, q)
<1>1. /\ Reserve \in Nat /\ Headroom \in [Ports -> Nat] /\ SharedPool \in Nat
      /\ BufferSize \in Nat /\ IsFiniteSet(Ports) /\ IsFiniteSet(Queues)
  BY SizesAssumption, WidthAssumption, PortsAssumption
<1>2. Used(m) \in [PQ -> Nat] /\ h \in [PQ -> Nat]
  BY UsedType DEF Accounted
<1>3. \A p \in Ports : <<p, q>> \in PQ
  BY DEF PQ
<1>4. /\ res \in [Ports -> Nat] /\ use \in [Ports -> Nat] /\ two \in [Ports -> Nat]
      /\ all \in [Ports -> Nat] /\ cls \in [Ports -> Nat]
  <2>1. res \in [Ports -> Nat] /\ use \in [Ports -> Nat] /\ cls \in [Ports -> Nat]
    BY <1>1, <1>2, <1>3 DEF Class
  <2> HIDE DEF res, use
  <2>2. two \in [Ports -> Nat]
    BY <2>1
  <2> HIDE DEF two
  <2> QED
    BY <2>1, <2>2, <1>1
<1>5. \A p \in Ports : cls[p] <= all[p]
  <2> SUFFICES ASSUME NEW p \in Ports PROVE cls[p] <= all[p]
    OBVIOUS
  <2> DEFINE x == <<p, q>>
  <2>1. x \in PQ /\ x[1] = p
    BY <1>3
  <2>2. /\ m.ingress[x] + m.hdrm[x] = h[x] /\ m.hdrm[x] <= Headroom[p]
        /\ m.ingress[x] \in Nat /\ m.hdrm[x] \in Nat
    BY <2>1 DEF Accounted, MmuType
  <2>3. Used(m)[x] = IF m.ingress[x] > Reserve THEN m.ingress[x] - Reserve ELSE 0
    BY <2>1 DEF Used, GetSharedUsed
  <2>4. cls[p] = h[x] /\ all[p] = Reserve + Used(m)[x] + Headroom[p]
    BY DEF Class
  <2>5. Headroom[p] \in Nat
    BY <1>1
  <2> HIDE DEF x, cls, all
  <2> QED
    BY <2>2, <2>3, <2>4, <2>5, <1>1
<1>6. SumOf(use) <= m.shared
  <2>1. SumOf(Used(m)) = m.shared
    BY DEF Accounted
  <2>2. Used(m) \in [Ports \X Queues -> Nat]
    BY <1>2 DEF PQ
  <2>3. SumOf(use) <= SumOf(Used(m))
    BY <2>2, <1>1, SumRow, Zenon
  <2> QED
    BY <2>1, <2>3
<1>7. SumOf(res) = TotalRsrv
  BY <1>1, SumConstant, Zenon DEF TotalRsrv
<1> HIDE DEF res, use
<1>8. SumOf(two) = SumOf(res) + SumOf(use)
  BY <1>1, <1>4, SumAdd, Zenon
<1> HIDE DEF two
<1>9. SumOf(all) = SumOf(two) + SumOf(Headroom)
  BY <1>1, <1>4, SumAdd, Zenon
<1> HIDE DEF all, cls
<1>10. SumOf(cls) <= SumOf(all)
  BY <1>1, <1>4, <1>5, SumMonotone
<1>11. /\ SumOf(cls) \in Nat /\ SumOf(all) \in Nat /\ SumOf(two) \in Nat
       /\ SumOf(res) \in Nat /\ SumOf(use) \in Nat /\ SumOf(Headroom) \in Nat
  BY <1>1, <1>4, SumType
<1>12. m.shared <= SharedPool /\ m.shared \in Nat
  BY DEF Accounted, MmuType
<1>13. SharedPool = BufferSize - SumOf(Headroom) - SumOf(res)
  BY <1>7 DEF SharedPool, TotalHdrm
<1>14. SumOf(cls) <= BufferSize
  BY <1>1, <1>6, <1>8, <1>9, <1>10, <1>11, <1>12, <1>13
<1> QED
  BY <1>14 DEF cls

\* g is f with the value v at x.
Becomes(f, x, v, g) ==
    /\ f \in [PQ -> Nat] /\ g \in [PQ -> Nat]
    /\ g[x] = v
    /\ \A z \in PQ \ {x} : g[z] = f[z]

\* A queue of class q takes or gives n bytes: so does the class, and no other.
LEMMA ClassUpdate ==
    ASSUME NEW f, NEW p \in Ports, NEW q \in Queues, NEW v \in Nat, NEW g,
           Becomes(f, <<p, q>>, v, g)
    PROVE  /\ SumOf(Class(g, q)) = SumOf(Class(f, q)) - f[<<p, q>>] + v
           /\ v <= SumOf(Class(g, q))
           /\ \A r \in Queues \ {q} : Class(g, r) = Class(f, r)
<1> DEFINE a == Class(f, q)
           b == [a EXCEPT ![p] = v]
<1>1. <<p, q>> \in PQ /\ \A p2 \in Ports, r \in Queues : <<p2, r>> \in PQ
  BY DEF PQ
<1>2. a \in [Ports -> Nat] /\ a[p] = f[<<p, q>>]
  BY <1>1 DEF Class, Becomes
<1>3. g \in [PQ -> Nat] /\ g[<<p, q>>] = v
  BY DEF Becomes
<1>4. \A y \in PQ : y # <<p, q>> => g[y] = f[y]
  BY DEF Becomes
<1>5. Class(g, q) = b
  <2>1. Class(g, q) \in [Ports -> Nat] /\ b \in [Ports -> Nat]
    <3> HIDE DEF a
    <3> QED
      BY <1>1, <1>2, <1>3 DEF Class
  <2>2. ASSUME NEW p2 \in Ports PROVE Class(g, q)[p2] = b[p2]
    <3>1. Class(g, q)[p2] = g[<<p2, q>>] /\ a[p2] = f[<<p2, q>>]
      BY DEF Class
    <3>2. CASE p2 = p
      BY <3>1, <3>2, <1>2, <1>3
    <3>3. CASE p2 # p
      <4>1. <<p2, q>> # <<p, q>> /\ <<p2, q>> \in PQ
        BY <3>3, <1>1
      <4>2. g[<<p2, q>>] = f[<<p2, q>>]
        BY <4>1, <1>4
      <4>3. b[p2] = a[p2]
        BY <3>3, <1>2
      <4> QED
        BY <3>1, <4>2, <4>3
    <3> QED
      BY <3>2, <3>3
  <2> DEFINE c == Class(g, q)
  <2>3. c \in [Ports -> Nat] /\ b \in [Ports -> Nat] /\ \A p2 \in Ports : c[p2] = b[p2]
    BY <2>1, <2>2
  <2> HIDE DEF b, c
  <2>4. c = b
    BY <2>3
  <2> QED
    BY <2>4 DEF c
<1>6. ASSUME NEW r \in Queues \ {q} PROVE Class(g, r) = Class(f, r)
  <2>1. \A p2 \in Ports : g[<<p2, r>>] = f[<<p2, r>>]
    <3>1. \A p2 \in Ports : <<p2, r>> \in PQ /\ <<p2, r>> # <<p, q>>
      BY <1>1
    <3> QED
      BY <3>1, <1>4
  <2> QED
    BY <2>1 DEF Class
<1> HIDE DEF a
<1>7. SumOf(b) = SumOf(a) - a[p] + v
  BY <1>2, PortsAssumption, SumUpdate, Zenon
<1>8. v <= SumOf(b)
  <2>1. b \in [Ports -> Nat] /\ b[p] = v
    BY <1>2
  <2> HIDE DEF b
  <2> QED
    BY <2>1, PortsAssumption, SumUpdate
<1> QED
  BY <1>2, <1>5, <1>6, <1>7, <1>8 DEF a

\* What the handlers do to the egress counters, which only they touch.
LEMMA EgressOf ==
    ASSUME NEW m, NEW h, Accounted(m, h), NEW in \in Ports, NEW out \in Ports,
           NEW q \in Queues, NEW s \in PacketSizes
    PROVE  /\ CheckIngressAdmission(m, <<in, q>>, s) =>
                \A z \in PQ : Enqueued(m, in, out, q, s).egress[z] =
                    IF z = <<out, q>> THEN Plus(m.egress[z], s) ELSE m.egress[z]
           /\ s <= h[<<in, q>>] =>
                \A z \in PQ : Dequeued(m, in, out, q, s).egress[z] =
                    IF z = <<out, q>> THEN Minus(m.egress[z], s) ELSE m.egress[z]
<1> DEFINE x == <<in, q>>
           y == <<out, q>>
<1>1. x \in PQ /\ y \in PQ
  BY DEF PQ
<1>2. ASSUME NEW n, NEW k, Accounted(n, k), NEW z \in PQ, NEW c \in BOOLEAN
      PROVE  [n EXCEPT !.paused[z] = c].egress = n.egress
  BY <1>2 DEF Accounted, MmuType
<1>3. ASSUME NEW n, NEW k, Accounted(n, k), NEW v \in 0 .. UintRange - 1
      PROVE  /\ [n EXCEPT !.egress[y] = v].egress = [n.egress EXCEPT ![y] = v]
             /\ Accounted([n EXCEPT !.egress[y] = v], k)
  <2>1. Accounted([n EXCEPT !.egress[y] = v], k)
    BY <1>1, <1>3, EgressKeepsAccounts
  <2>2. [n EXCEPT !.egress[y] = v].egress = [n.egress EXCEPT ![y] = v]
    BY <1>3 DEF Accounted, MmuType
  <2> QED
    BY <2>1, <2>2
<1>4. ASSUME CheckIngressAdmission(m, x, s)
      PROVE  Enqueued(m, in, out, q, s).egress =
                [m.egress EXCEPT ![y] = Plus(m.egress[y], s)]
  <2> DEFINE m1 == UpdateIngressAdmission(m, x, s)
             k == [h EXCEPT ![x] = @ + s]
             v == Plus(m1.egress[y], s)
             m2 == [m1 EXCEPT !.egress[y] = v]
  <2>1. Accounted(m1, k) /\ m1.egress = m.egress
    BY <1>1, <1>4, UpdateIngressAccounted
  <2>2. m2 = UpdateEgressAdmission(m1, y, s)
    BY DEF UpdateEgressAdmission
  <2>3. Enqueued(m, in, out, q, s) = SetPauseIfNeeded(m2, x)
    BY <2>2 DEF Enqueued
  <2> HIDE DEF m1, k, x, y
  <2>4. v \in 0 .. UintRange - 1
    <3>1. m1.egress[y] \in Int /\ s \in Int
      BY <1>1, <2>1, SizesAssumption DEF Accounted, MmuType
    <3> QED
      BY <3>1, PlusMinusType
  <2> HIDE DEF v
  <2>5. m2.egress = [m1.egress EXCEPT ![y] = v] /\ Accounted(m2, k)
    BY <2>1, <2>4, <1>3
  <2> HIDE DEF m2
  <2>6. SetPauseIfNeeded(m2, x).egress = m2.egress
    BY <2>5, <1>1, <1>2 DEF SetPauseIfNeeded
  <2> QED
    BY <2>1, <2>3, <2>5, <2>6 DEF v
<1>5. ASSUME s <= h[x]
      PROVE  Dequeued(m, in, out, q, s).egress =
                [m.egress EXCEPT ![y] = Minus(m.egress[y], s)]
  <2> DEFINE m1 == RemoveFromIngressAdmission(m, x, s)
             k == [h EXCEPT ![x] = @ - s]
             v == Minus(m1.egress[y], s)
             m2 == [m1 EXCEPT !.egress[y] = v]
  <2>1. Accounted(m1, k) /\ m1.egress = m.egress
    BY <1>1, <1>5, RemoveIngressAccounted
  <2>2. m2 = RemoveFromEgressAdmission(m1, y, s)
    BY DEF RemoveFromEgressAdmission
  <2>3. Dequeued(m, in, out, q, s) = SetResumeIfNeeded(m2, x)
    BY <2>2 DEF Dequeued
  <2> HIDE DEF m1, k, x, y
  <2>4. v \in 0 .. UintRange - 1
    <3>1. m1.egress[y] \in Int /\ s \in Int
      BY <1>1, <2>1, SizesAssumption DEF Accounted, MmuType
    <3> QED
      BY <3>1, PlusMinusType
  <2> HIDE DEF v
  <2>5. m2.egress = [m1.egress EXCEPT ![y] = v] /\ Accounted(m2, k)
    BY <2>1, <2>4, <1>3
  <2> HIDE DEF m2
  <2>6. SetResumeIfNeeded(m2, x).egress = m2.egress
    BY <2>5, <1>1, <1>2 DEF SetResumeIfNeeded
  <2> QED
    BY <2>1, <2>3, <2>5, <2>6 DEF v
<1>6. m.egress \in [PQ -> 0 .. UintRange - 1]
  BY DEF Accounted, MmuType
<1>7. ASSUME CheckIngressAdmission(m, x, s), NEW z \in PQ
      PROVE  Enqueued(m, in, out, q, s).egress[z] =
                 IF z = y THEN Plus(m.egress[z], s) ELSE m.egress[z]
  <2>1. Enqueued(m, in, out, q, s).egress = [m.egress EXCEPT ![y] = Plus(m.egress[y], s)]
    BY <1>4, <1>7
  <2> QED
    BY <2>1, <1>1, <1>6
<1>8. ASSUME s <= h[x], NEW z \in PQ
      PROVE  Dequeued(m, in, out, q, s).egress[z] =
                 IF z = y THEN Minus(m.egress[z], s) ELSE m.egress[z]
  <2>1. Dequeued(m, in, out, q, s).egress = [m.egress EXCEPT ![y] = Minus(m.egress[y], s)]
    BY <1>5, <1>8
  <2> QED
    BY <2>1, <1>1, <1>6
<1> QED
  BY <1>7, <1>8 DEF x, y

\* egress_bytes is what is queued (o, by egress queue), and a class has as many
\* bytes on the ingress side (h) as on the egress side.
Balanced(m, h, o) ==
    /\ o \in [PQ -> Nat]
    /\ \A x \in PQ : m.egress[x] = o[x]
    /\ \A q \in Queues : SumOf(Class(h, q)) = SumOf(Class(o, q))

\* What Balanced says of the sums after a queue of the class changed on each side.
LEMMA BalancedUpdate ==
    ASSUME NEW m, NEW h, Accounted(m, h), NEW o, Balanced(m, h, o),
           NEW in \in Ports, NEW out \in Ports, NEW q \in Queues,
           NEW v \in Nat, NEW w \in Nat, v - h[<<in, q>>] = w - o[<<out, q>>],
           NEW h1, Becomes(h, <<in, q>>, v, h1),
           NEW o1, Becomes(o, <<out, q>>, w, o1)
    PROVE  /\ \A r \in Queues : SumOf(Class(h1, r)) = SumOf(Class(o1, r))
           /\ w <= SumOf(Class(h1, q))
<1> DEFINE x == <<in, q>>
           y == <<out, q>>
<1>1. h \in [PQ -> Nat] /\ o \in [PQ -> Nat] /\ x \in PQ /\ y \in PQ
  BY DEF Accounted, Balanced, PQ
<1>3. h[x] \in Nat /\ o[y] \in Nat
  BY <1>1
<1>4. /\ SumOf(Class(h1, q)) = SumOf(Class(h, q)) - h[x] + v
      /\ \A r \in Queues \ {q} : Class(h1, r) = Class(h, r)
  BY <1>1, ClassUpdate
<1>5. /\ SumOf(Class(o1, q)) = SumOf(Class(o, q)) - o[y] + w
      /\ w <= SumOf(Class(o1, q))
      /\ \A r \in Queues \ {q} : Class(o1, r) = Class(o, r)
  BY <1>1, ClassUpdate
<1>6. \A r \in Queues : SumOf(Class(h, r)) = SumOf(Class(o, r))
  BY DEF Balanced
<1>7. SumOf(Class(h, q)) \in Nat
  <2>1. Class(h, q) \in [Ports -> Nat]
    BY <1>1 DEF Class, PQ
  <2> QED
    BY <2>1, SumType, PortsAssumption
<1>8. v - h[x] = w - o[y]
  OBVIOUS
<1> HIDE DEF x, y
<1>9. SumOf(Class(h1, q)) = SumOf(Class(o1, q))
  BY <1>3, <1>4, <1>5, <1>6, <1>7, <1>8
<1>10. \A r \in Queues \ {q} : SumOf(Class(h1, r)) = SumOf(Class(o1, r))
  BY <1>4, <1>5, <1>6
<1>11. \A r \in Queues : SumOf(Class(h1, r)) = SumOf(Class(o1, r))
  BY <1>9, <1>10
<1>12. w <= SumOf(Class(h1, q))
  BY <1>5, <1>9
<1> QED
  BY <1>11, <1>12 DEF x, y

\* An admitted packet is counted at egress without wrapping, because its class
\* still fits the buffer.
LEMMA EnqueuedBalanced ==
    ASSUME NEW m, NEW h, Good(m, h), NEW o, Balanced(m, h, o),
           NEW in \in Ports, NEW out \in Ports, NEW q \in Queues,
           NEW s \in PacketSizes, CheckIngressAdmission(m, <<in, q>>, s)
    PROVE  Balanced(Enqueued(m, in, out, q, s), [h EXCEPT ![<<in, q>>] = @ + s],
                    [o EXCEPT ![<<out, q>>] = @ + s])
<1> DEFINE x == <<in, q>>
           y == <<out, q>>
           v == h[x] + s
           w == o[y] + s
           h1 == [h EXCEPT ![x] = v]
           o1 == [o EXCEPT ![y] = w]
           m1 == Enqueued(m, in, out, q, s)
<1>1. Accounted(m, h) /\ x \in PQ /\ y \in PQ /\ s \in Nat
  BY SizesAssumption DEF Good, PQ
<1>2. h[x] \in Nat /\ o[y] \in Nat /\ o \in [PQ -> Nat] /\ m.egress[y] = o[y]
  BY <1>1 DEF Accounted, Balanced
<1>3. v \in Nat /\ w \in Nat /\ v - h[x] = w - o[y]
  BY <1>1, <1>2
<1>4. /\ o1 \in [PQ -> Nat]
      /\ \A r \in Queues : SumOf(Class(h1, r)) = SumOf(Class(o1, r))
      /\ w <= SumOf(Class(h1, q))
  <2>1. Becomes(h, x, v, h1) /\ Becomes(o, y, w, o1)
    BY <1>1, <1>2, <1>3 DEF Accounted, Becomes
  <2>2. o1 \in [PQ -> Nat]
    BY <2>1 DEF Becomes
  <2> HIDE DEF v, w, h1, o1
  <2> QED
    BY <2>1, <2>2, <1>1, <1>3, BalancedUpdate
<1>5. Accounted(m1, h1)
  BY EnqueuedGood DEF Good
<1>6. Plus(o[y], s) = w
  <2>1. SumOf(Class(h1, q)) <= BufferSize
    <3> HIDE DEF h1, m1
    <3> QED
      BY <1>5, ClassBound
  <2>2. SumOf(Class(h1, q)) \in Nat
    <3>1. Class(h1, q) \in [Ports -> Nat]
      <4> HIDE DEF h1, m1
      <4> QED
        BY <1>5 DEF Class, PQ, Accounted
    <3> QED
      BY <3>1, SumType, PortsAssumption
  <2>3. BufferSize < UintRange /\ BufferSize \in Nat /\ UintRange \in Nat \ {0}
    BY SizesAssumption, WidthAssumption
  <2>4. w \in 0 .. UintRange - 1
    <3> HIDE DEF h1, w
    <3> QED
      BY <2>1, <2>2, <2>3, <1>3, <1>4
  <2> QED
    BY <2>3, <2>4, ModSmall DEF Plus
<1>7. \A z \in PQ : m1.egress[z] = IF z = y THEN Plus(m.egress[z], s) ELSE m.egress[z]
  BY <1>1, EgressOf
<1>8. \A z \in PQ : m1.egress[z] = o1[z]
  <2>1. m.egress \in [PQ -> 0 .. UintRange - 1] /\ \A z \in PQ : m.egress[z] = o[z]
    BY <1>1 DEF Accounted, MmuType, Balanced
  <2> HIDE DEF m1, w, y
  <2> QED
    BY <2>1, <1>1, <1>2, <1>6, <1>7
<1> QED
  BY <1>4, <1>8 DEF Balanced

\* A packet that leaves takes its bytes from both sides of its class.
LEMMA DequeuedBalanced ==
    ASSUME NEW m, NEW h, Good(m, h), NEW o, Balanced(m, h, o),
           NEW in \in Ports, NEW out \in Ports, NEW q \in Queues,
           NEW s \in PacketSizes, s <= h[<<in, q>>], s <= o[<<out, q>>]
    PROVE  Balanced(Dequeued(m, in, out, q, s), [h EXCEPT ![<<in, q>>] = @ - s],
                    [o EXCEPT ![<<out, q>>] = @ - s])
<1> DEFINE x == <<in, q>>
           y == <<out, q>>
           v == h[x] - s
           w == o[y] - s
           h1 == [h EXCEPT ![x] = v]
           o1 == [o EXCEPT ![y] = w]
           m1 == Dequeued(m, in, out, q, s)
<1>1. Accounted(m, h) /\ x \in PQ /\ y \in PQ /\ s \in Nat
  BY SizesAssumption DEF Good, PQ
<1>2. h[x] \in Nat /\ o[y] \in Nat /\ o \in [PQ -> Nat] /\ m.egress[y] = o[y]
  BY <1>1 DEF Accounted, Balanced
<1>3. v \in Nat /\ w \in Nat /\ v - h[x] = w - o[y]
  BY <1>1, <1>2
<1>4. /\ o1 \in [PQ -> Nat]
      /\ \A r \in Queues : SumOf(Class(h1, r)) = SumOf(Class(o1, r))
  <2>1. Becomes(h, x, v, h1) /\ Becomes(o, y, w, o1)
    BY <1>1, <1>2, <1>3 DEF Accounted, Becomes
  <2>2. o1 \in [PQ -> Nat]
    BY <2>1 DEF Becomes
  <2> HIDE DEF v, w, h1, o1
  <2> QED
    BY <2>1, <2>2, <1>1, <1>3, BalancedUpdate
<1>5. m.egress \in [PQ -> 0 .. UintRange - 1] /\ \A z \in PQ : m.egress[z] = o[z]
  BY <1>1 DEF Accounted, MmuType, Balanced
<1>6. Minus(o[y], s) = w
  <2>1. o[y] \in 0 .. UintRange - 1 /\ UintRange \in Nat \ {0}
    BY <1>1, <1>2, <1>5, SizesAssumption
  <2>2. w \in 0 .. UintRange - 1
    BY <2>1, <1>1, <1>3
  <2> QED
    BY <2>1, <2>2, ModSmall DEF Minus
<1>7. \A z \in PQ : m1.egress[z] = IF z = y THEN Minus(m.egress[z], s) ELSE m.egress[z]
  BY <1>1, EgressOf
<1>8. \A z \in PQ : m1.egress[z] = o1[z]
  <2> HIDE DEF m1, w, y
  <2> QED
    BY <1>1, <1>2, <1>5, <1>6, <1>7
<1> QED
  BY <1>4, <1>8 DEF Balanced

Through == Balanced(mmu, inQ, outQ)

\* An empty switch is balanced.
LEMMA InitThrough == Init => Through
<1> SUFFICES ASSUME Init PROVE Through
  OBVIOUS
<1>1. mmu.egress = [x \in PQ |-> 0] /\ inQ = [x \in PQ |-> 0] /\ outQ = inQ
  BY DEF Init, SwitchMmuInit
<1> QED
  BY <1>1 DEF Through, Balanced

\* Adding s at a place and taking it away again changes nothing.
LEMMA AddThenTake ==
    ASSUME NEW f \in [PQ -> Nat], NEW x \in PQ, NEW s \in Nat
    PROVE  LET g == [f EXCEPT ![x] = @ + s]
           IN  /\ s <= g[x]
               /\ [g EXCEPT ![x] = @ - s] = f
<1> DEFINE g == [f EXCEPT ![x] = f[x] + s]
           k == [g EXCEPT ![x] = g[x] - s]
<1>1. g \in [PQ -> Nat] /\ g[x] = f[x] + s /\ \A y \in PQ \ {x} : g[y] = f[y]
  OBVIOUS
<1> HIDE DEF g
<1>2. s <= g[x] /\ g[x] - s = f[x]
  BY <1>1
<1>3. k \in [PQ -> Nat] /\ \A y \in PQ : k[y] = f[y]
  BY <1>1, <1>2
<1>4. k = f
  <2> HIDE DEF k
  <2> QED
    BY <1>3
<1> QED
  BY <1>2, <1>4 DEF g

\* Every step keeps the two sides of every class in balance.
LEMMA NextThrough == Inv /\ Through /\ [Next]_vars => Through'
<1> SUFFICES ASSUME Inv, Through, [Next]_vars PROVE Through'
  OBVIOUS
<1>1. Good(mmu, inQ) /\ Balanced(mmu, inQ, outQ)
  BY DEF Inv, Through
<1>2. CASE UNCHANGED vars
  BY <1>1, <1>2 DEF vars, Through
<1>3. ASSUME NEW in \in Ports, NEW out \in Ports, NEW q \in Queues,
             NEW s \in PacketSizes, Admit(in, out, q, s)
      PROVE  Through'
  <2>1. Balanced(mmu', inQ', outQ')
    BY <1>1, <1>3, EnqueuedBalanced DEF Admit
  <2> QED
    BY <2>1 DEF Through
<1>4. ASSUME NEW in \in Ports, NEW out \in Ports, NEW q \in Queues,
             NEW s \in PacketSizes, AdmitAndRelease(in, out, q, s)
      PROVE  Through'
  <2> DEFINE x == <<in, q>>
             y == <<out, q>>
             m1 == Enqueued(mmu, in, out, q, s)
             h1 == [inQ EXCEPT ![x] = @ + s]
             o1 == [outQ EXCEPT ![y] = @ + s]
  <2>1. Good(m1, h1)
    BY <1>1, <1>4, EnqueuedGood DEF AdmitAndRelease
  <2>2. Balanced(m1, h1, o1)
    BY <1>1, <1>4, EnqueuedBalanced DEF AdmitAndRelease
  <2>3. /\ x \in PQ /\ y \in PQ /\ s \in Nat
        /\ inQ \in [PQ -> Nat] /\ outQ \in [PQ -> Nat]
    BY <1>1, SizesAssumption DEF PQ, Good, Accounted, Balanced
  <2>4. s <= h1[x] /\ [h1 EXCEPT ![x] = @ - s] = inQ
    BY <2>3, AddThenTake, Zenon
  <2>5. s <= o1[y] /\ [o1 EXCEPT ![y] = @ - s] = outQ
    BY <2>3, AddThenTake, Zenon
  <2> HIDE DEF m1, h1, o1
  <2>6. Balanced(Dequeued(m1, in, out, q, s), [h1 EXCEPT ![x] = @ - s],
                 [o1 EXCEPT ![y] = @ - s])
    BY <2>1, <2>2, <2>4, <2>5, DequeuedBalanced
  <2>7. Balanced(Dequeued(m1, in, out, q, s), inQ, outQ)
    BY <2>4, <2>5, <2>6
  <2> QED
    BY <2>7, <1>4 DEF Through, AdmitAndRelease, m1
<1>5. ASSUME NEW in \in Ports, NEW q \in Queues, NEW s \in PacketSizes,
             Reject(in, q, s)
      PROVE  Through'
  BY <1>1, <1>5 DEF Reject, Through
<1>6. ASSUME NEW in \in Ports, NEW out \in Ports, NEW q \in Queues,
             NEW s \in PacketSizes, Release(in, out, q, s)
      PROVE  Through'
  <2>1. Balanced(mmu', inQ', outQ')
    BY <1>1, <1>6, DequeuedBalanced DEF Release
  <2> QED
    BY <2>1 DEF Through
<1> QED
  BY <1>2, <1>3, <1>4, <1>5, <1>6 DEF Next

\* Both invariants together, for the theorems below.
LEMMA BothInvariants == Spec => [](Inv /\ Through)
<1>1. Init => Inv /\ Through
  BY InitInv, InitThrough
<1>2. (Inv /\ Through) /\ [Next]_vars => (Inv /\ Through)'
  BY NextInv, NextThrough
<1> QED
  BY <1>1, <1>2, PTL DEF Spec

\* egress_bytes, which ShouldSendCN compares with its thresholds, is the length
\* of the egress queue: UpdateEgressAdmission never wraps although nothing
\* checks it, because what one class holds fits the buffer (switch-mmu.cc:64-66,
\* 76-78).
THEOREM EgressConservation == Spec => []EgressConserved
<1>1. Inv /\ Through => EgressConserved
  BY DEF Through, Balanced, EgressConserved
<1> QED
  BY <1>1, BothInvariants, PTL

\* What the switch holds of one priority fits buffer_size.
THEOREM ClassFitsBuffer ==
    Spec => [](\A q \in Queues : SumOf(Class(inQ, q)) <= BufferSize)
<1>1. Inv => \A q \in Queues : SumOf(Class(inQ, q)) <= BufferSize
  BY ClassBound DEF Inv, Good
<1> QED
  BY <1>1, Invariance, PTL

\* When there is one class, it is everything.
LEMMA SingleClass ==
    ASSUME NEW f \in [PQ -> Nat], NEW q \in Queues, Single(Queues)
    PROVE  SumOf(f) <= SumOf(Class(f, q))
<1>1. f \in [Ports \X Queues -> Nat] /\ IsFiniteSet(Ports) /\ IsFiniteSet(Queues)
  BY PortsAssumption DEF PQ
<1> DEFINE cls == [p \in Ports |-> f[<<p, q>>]]
<1>2. SumOf(f) <= SumOf(cls)
  BY <1>1, SumRow, Zenon
<1> QED
  BY <1>2 DEF Class

\* A switch whose traffic uses a single priority, as in the runs, never holds
\* more than buffer_size.  With several priorities it may: ConfigNPort reserves
\* the headroom and the reserve of a port once, and every priority uses them.
THEOREM BufferHolds ==
    ASSUME NEW q \in Queues, Single(Queues)
    PROVE  Spec => []OccupancyWithinBuffer
<1>1. Inv => OccupancyWithinBuffer
  <2> SUFFICES ASSUME Inv PROVE OccupancyWithinBuffer
    OBVIOUS
  <2>1. Accounted(mmu, inQ) /\ q \in Queues
    BY DEF Inv, Good
  <2>2. SumOf(Class(inQ, q)) <= BufferSize
    BY <2>1, ClassBound
  <2>3. inQ \in [Ports \X Queues -> Nat]
    BY <2>1 DEF Accounted, PQ
  <2>4. SumOf(inQ) <= SumOf(Class(inQ, q))
    BY <2>1, <2>3, SingleClass DEF PQ
  <2>5. SumOf(inQ) \in Nat /\ SumOf(Class(inQ, q)) \in Nat /\ BufferSize \in Nat
    <3>1. inQ \in [PQ -> Nat] /\ Class(inQ, q) \in [Ports -> Nat]
      BY <2>3 DEF PQ, Class
    <3> QED
      BY <3>1, SumType, PQFinite, PortsAssumption, WidthAssumption
  <2> QED
    BY <2>2, <2>4, <2>5 DEF OccupancyWithinBuffer
<1> QED
  BY <1>1, Invariance, PTL

=============================================================================
