----------------------------- MODULE DcqcnProofs -----------------------------
(***************************************************************************)
(* Proofs about Dcqcn, for any number of flows, any rates and any timeouts *)
(* that the assumptions allow: the receiver scheduler of DCQCN+ keeps its  *)
(* table, its order, its cursor and its event together, and the timers of  *)
(* a QP end with it.                                                       *)
(***************************************************************************)
EXTENDS Dcqcn, SequenceTheorems, FiniteSetTheorems, TLAPS

Entry == [in : BOOLEAN, pending : BOOLEAN, age : 0 .. EntryTimeout + 1]
Receiver == [table : [Flows -> Entry], order : Seq(Flows), cursor : Nat,
             scan : {"off", "armed", "due"}]
Reply == [kind : {"ack", "cnp"}, cnp : BOOLEAN, last : BOOLEAN]
Timers == {"alpha", "decrease", "increase"}
Sender == [open : BOOLEAN, rate : Nat, target : Nat, stage : 0 .. RpgThreshold + 1,
           first : BOOLEAN, cnp : BOOLEAN, timers : SUBSET Timers, ghost : BOOLEAN]

-----------------------------------------------------------------------------
(* The invariants *)

\* The order of r lists the entries of its table, each once.
Listed(r) ==
    /\ r \in Receiver
    /\ \A i \in 1 .. Len(r.order) : r.table[r.order[i]].in
    /\ \A f \in Flows : r.table[f].in => \E i \in 1 .. Len(r.order) : r.order[i] = f
    /\ \A i, j \in 1 .. Len(r.order) : r.order[i] = r.order[j] => i = j

\* The cursor is on an entry, and the event is scheduled if there are any.
Scheduled(r) ==
    /\ r.cursor = 0 \/ r.cursor < Len(r.order)
    /\ r.scan = "off" <=> r.order = <<>>

\* A cut may have been lifted to the rate r.
Lifted(r) == \E s \in ParameterSets : r <= s.minRate

\* Rate and target of q lie between 1 and the rate of the link; the rate is above
\* the target only after a cut that was lifted to a minimum rate.
RatesIn(q) ==
    /\ q \in Sender /\ q.rate \in 1 .. LineRate /\ q.target \in 1 .. LineRate
    /\ q.rate > q.target => Lifted(q.rate)

\* The replies b on their way to a sender, where l tells that the last packet has
\* arrived and p that DCQCN+ runs: no acknowledgement follows the last one, which
\* answers the last packet, and only DCQCN puts a CNP into one.
InOrder(b, l, p) ==
    /\ b \in Seq(Reply)
    /\ \A i \in 1 .. Len(b) : b[i].last => l
    /\ \A i, j \in 1 .. Len(b) : b[i].last /\ b[j].kind = "ack" => j <= i
    /\ \A i \in 1 .. Len(b) : b[i].kind = "ack" /\ b[i].cnp => ~p

\* A QP q is complete after its last acknowledgement: no other one is under way,
\* and its timers are off unless that one brought the first CNP.
Complete(q, b, l, p) ==
    ~q.open =>
        /\ l
        /\ \A i \in 1 .. Len(b) : b[i].kind = "cnp"
        /\ q.timers # {} => ~p /\ q.ghost

FlowInv(f) ==
    /\ RatesIn(qp[f])
    /\ InOrder(back[f], sent[f].last, plus)
    /\ Complete(qp[f], back[f], sent[f].last, plus)

Arrivals == [last : BOOLEAN, late : 0 .. MaxLate]

\* The inductive invariant.
IInv ==
    /\ plus \in BOOLEAN /\ par \in ParameterSets
    /\ Listed(rcv) /\ Scheduled(rcv)
    /\ sent \in [Flows -> Arrivals]
    /\ back \in [Flows -> Seq(Reply)] /\ qp \in [Flows -> Sender]
    /\ \A f \in Flows : FlowInv(f)

-----------------------------------------------------------------------------
(* The receiver scheduler *)

\* Marks and ages do not disturb the order.
LEMMA ListedSame ==
    ASSUME NEW r, Listed(r), NEW R \in Receiver, R.order = r.order,
           \A g \in Flows : R.table[g].in <=> r.table[g].in
    PROVE  Listed(R)
<1>1. r.order \in Seq(Flows)
  BY DEF Listed, Receiver
<1>2. \A i \in 1 .. Len(r.order) : r.order[i] \in Flows
  BY <1>1
<1> QED
  BY <1>2 DEF Listed

\* A new entry comes last in the order and has the event scheduled.
LEMMA TrackKeeps ==
    ASSUME NEW r, Listed(r), Scheduled(r), NEW f \in Flows
    PROVE  /\ Listed(TrackDcqcnPlusReceiverEcn(r, f))
           /\ Scheduled(TrackDcqcnPlusReceiverEcn(r, f))
<1> DEFINE R == TrackDcqcnPlusReceiverEcn(r, f)
<1>0. r \in Receiver /\ r.order \in Seq(Flows) /\ Len(r.order) \in Nat /\ r.cursor \in Nat
  BY DEF Listed, Receiver
<1>1. CASE r.table[f].in
  <2>1. R = [r EXCEPT !.table[f].pending = TRUE]
    BY <1>1 DEF TrackDcqcnPlusReceiverEcn
  <2>2. R \in Receiver
    <3> DEFINE T == [r.table EXCEPT ![f] = [r.table[f] EXCEPT !.pending = TRUE]]
    <3>1. r.table \in [Flows -> Entry]
      BY <1>0, Zenon DEF Receiver
    <3>2. T \in [Flows -> Entry]
      BY <3>1, Zenon DEF Entry
    <3>3. R = [r EXCEPT !.table = T]
      BY <1>0, <2>1, Zenon DEF Receiver
    <3> HIDE DEF T, R
    <3> QED
      BY <1>0, <3>2, <3>3 DEF Receiver
  <2>3. R.order = r.order /\ R.cursor = r.cursor /\ R.scan = r.scan
    BY <1>0, <2>1, Zenon DEF Receiver
  <2>4. ASSUME NEW g \in Flows PROVE R.table[g].in <=> r.table[g].in
    <3>1. R.table = [r.table EXCEPT ![f] = [r.table[f] EXCEPT !.pending = TRUE]]
      BY <1>0, <2>1, Zenon DEF Receiver
    <3>2. r.table \in [Flows -> Entry]
      BY <1>0, Zenon DEF Receiver
    <3> QED
      BY <3>1, <3>2, Zenon DEF Entry
  <2> HIDE DEF R
  <2>5. Listed(R)
    BY <2>2, <2>3, <2>4, ListedSame
  <2>6. Scheduled(R)
    BY <2>3 DEF Scheduled
  <2> QED
    BY <2>5, <2>6 DEF R
<1>2. CASE ~r.table[f].in
  <2> DEFINE e == [in |-> TRUE, pending |-> TRUE, age |-> InitialCnpOffset]
             sc == IF r.scan = "off" THEN "armed" ELSE r.scan
  <2>1. R = [r EXCEPT !.table[f] = e, !.order = Append(@, f), !.scan = sc]
    BY <1>2 DEF TrackDcqcnPlusReceiverEcn
  <2>2. e \in Entry
    <3>1. InitialCnpOffset \in 0 .. EntryTimeout + 1
      BY DcqcnAssumption
    <3> QED
      BY <3>1, Zenon DEF Entry
  <2>3. Append(r.order, f) \in Seq(Flows) /\ sc \in {"armed", "due"}
    BY <1>0, AppendProperties DEF Receiver
  <2>4. e.in
    OBVIOUS
  <2> HIDE DEF e, sc
  <2>5. R \in Receiver
    <3> DEFINE T == [r.table EXCEPT ![f] = e]
               o == Append(r.order, f)
    <3>1. r.table \in [Flows -> Entry]
      BY <1>0, Zenon DEF Receiver
    <3>2. T \in [Flows -> Entry]
      BY <2>2, <3>1
    <3>3. R = [r EXCEPT !.table = T, !.order = o, !.scan = sc]
      BY <1>0, <2>1, Zenon DEF Receiver
    <3>4. o \in Seq(Flows)
      BY <2>3
    <3> HIDE DEF T, R, o
    <3> QED
      BY <1>0, <2>3, <3>2, <3>3, <3>4 DEF Receiver
  <2>6. R.order = Append(r.order, f) /\ R.cursor = r.cursor /\ R.scan = sc
    BY <1>0, <2>1, Zenon DEF Receiver
  <2>7. R.table = [r.table EXCEPT ![f] = e] /\ r.table \in [Flows -> Entry]
    BY <1>0, <2>1, Zenon DEF Receiver
  <2>8. R.table[f].in /\ \A g \in Flows \ {f} : R.table[g] = r.table[g]
    BY <2>4, <2>7, Zenon
  <2> HIDE DEF R
  <2>9. /\ Len(R.order) = Len(r.order) + 1 /\ R.order[Len(r.order) + 1] = f
        /\ \A i \in 1 .. Len(r.order) : R.order[i] = r.order[i] /\ r.order[i] \in Flows
    BY <1>0, <2>6, AppendProperties
  <2>10. \A i \in 1 .. Len(r.order) : r.order[i] # f
    BY <1>2 DEF Listed
  <2>11. Listed(R)
    <3>0. \A i \in 1 .. Len(R.order) : i \in 1 .. Len(r.order) \/ i = Len(r.order) + 1
      BY <1>0, <2>9
    <3>4. /\ \A i \in 1 .. Len(r.order) : r.table[r.order[i]].in
          /\ \A i, j \in 1 .. Len(r.order) : r.order[i] = r.order[j] => i = j
      BY DEF Listed
    <3>1. \A i \in 1 .. Len(R.order) : R.table[R.order[i]].in
      BY <2>8, <2>9, <2>10, <3>0, <3>4, Zenon
    <3>2. \A g \in Flows : R.table[g].in => \E i \in 1 .. Len(R.order) : R.order[i] = g
      BY <1>0, <2>8, <2>9 DEF Listed
    <3>3. \A i, j \in 1 .. Len(R.order) : R.order[i] = R.order[j] => i = j
      BY <2>9, <2>10, <3>0, <3>4, Zenon
    <3> QED
      BY <2>5, <3>1, <3>2, <3>3 DEF Listed
  <2>12. Scheduled(R)
    BY <1>0, <2>3, <2>6, <2>9 DEF Scheduled
  <2> QED
    BY <2>11, <2>12 DEF R
<1> QED
  BY <1>1, <1>2

\* Removing one place of a sequence without repetitions.
LEMMA RemoveAtProperties ==
    ASSUME NEW S, NEW s \in Seq(S), NEW k \in 1 .. Len(s)
    PROVE  /\ RemoveAt(s, k) \in Seq(S) /\ Len(RemoveAt(s, k)) = Len(s) - 1
           /\ \A i \in 1 .. Len(s) - 1 :
                 RemoveAt(s, k)[i] = IF i < k THEN s[i] ELSE s[i + 1]
<1>1. Len(s) \in Nat
  OBVIOUS
<1> DEFINE a == SubSeq(s, 1, k - 1)
           b == SubSeq(s, k + 1, Len(s))
<1>2. a \in Seq(S) /\ Len(a) = k - 1 /\ \A i \in 1 .. k - 1 : a[i] = s[i]
  BY <1>1, SubSeqProperties
<1>3. b \in Seq(S) /\ Len(b) = Len(s) - k /\ \A i \in 1 .. Len(s) - k : b[i] = s[i + k]
  BY <1>1, SubSeqProperties
<1>4. /\ a \o b \in Seq(S) /\ Len(a \o b) = Len(a) + Len(b)
      /\ \A i \in 1 .. Len(a) + Len(b) :
            (a \o b)[i] = IF i <= Len(a) THEN a[i] ELSE b[i - Len(a)]
  <2>1. a \in Seq(S) /\ b \in Seq(S)
    BY <1>2, <1>3
  <2> HIDE DEF a, b
  <2> QED
    BY <2>1, ConcatProperties
<1>6. RemoveAt(s, k) = a \o b /\ Len(a) = k - 1 /\ Len(b) = Len(s) - k
  BY <1>2, <1>3 DEF RemoveAt
<1> HIDE DEF a, b
<1>7. /\ RemoveAt(s, k) \in Seq(S) /\ Len(RemoveAt(s, k)) = Len(s) - 1
  BY <1>1, <1>4, <1>6
<1>5. ASSUME NEW i \in 1 .. Len(s) - 1
      PROVE  RemoveAt(s, k)[i] = IF i < k THEN s[i] ELSE s[i + 1]
  <2>1. CASE i < k
    <3>1. i \in 1 .. k - 1 /\ i <= Len(a) /\ i \in 1 .. Len(a) + Len(b)
      BY <1>1, <1>6, <2>1
    <3> QED
      BY <1>2, <1>4, <1>6, <2>1, <3>1
  <2>2. CASE i >= k
    <3>1. /\ i - Len(a) \in 1 .. Len(s) - k /\ i - Len(a) + k = i + 1
          /\ ~(i <= Len(a)) /\ i \in 1 .. Len(a) + Len(b) /\ ~(i < k)
      BY <1>1, <1>6, <2>2
    <3>2. b[i - Len(a)] = s[i + 1]
      BY <1>3, <3>1
    <3> QED
      BY <1>4, <1>6, <3>1, <3>2
  <2> QED
    BY <1>1, <2>1, <2>2
<1> QED
  BY <1>5, <1>7

\* The only place of an entry in the order is the first one.
LEMMA MinSingleton ==
    ASSUME NEW k \in Int PROVE Min({k}) = k
BY DEF Min

\* Removing an entry takes its place out of the order, keeps the cursor on an
\* entry and the event scheduled if another is left.
LEMMA RemoveKeeps ==
    ASSUME NEW r, Listed(r), Scheduled(r), NEW f \in Flows
    PROVE  /\ Listed(RemoveDcqcnPlusReceiverState(r, f))
           /\ Scheduled(RemoveDcqcnPlusReceiverState(r, f))
<1> DEFINE R == RemoveDcqcnPlusReceiverState(r, f)
           found == {i \in 1 .. Len(r.order) : r.order[i] = f}
           rest == IF found = {} THEN r.order ELSE RemoveAt(r.order, Min(found))
           moved == IF found # {} /\ Min(found) <= r.cursor THEN r.cursor - 1 ELSE r.cursor
           cur == IF moved >= Len(rest) THEN 0 ELSE moved
           sc == IF rest = <<>> THEN "off" ELSE r.scan
           T == [r.table EXCEPT ![f] = Absent]
<1>1. r \in Receiver /\ r.order \in Seq(Flows) /\ Len(r.order) \in Nat /\ r.cursor \in Nat
      /\ r.table \in [Flows -> Entry] /\ r.scan \in {"off", "armed", "due"}
  BY DEF Listed, Receiver
<1>2. R = [r EXCEPT !.table = T, !.order = rest, !.cursor = cur, !.scan = sc]
  BY <1>1, Zenon DEF RemoveDcqcnPlusReceiverState, Receiver
<1>3. Absent \in Entry /\ ~Absent.in
  <2>1. 0 \in 0 .. EntryTimeout + 1
    BY DcqcnAssumption
  <2> QED
    BY <2>1, Zenon DEF Absent, Entry
<1>4. T \in [Flows -> Entry] /\ T[f] = Absent /\ \A g \in Flows \ {f} : T[g] = r.table[g]
  BY <1>1, <1>3, Zenon
<1> HIDE DEF T
<1>5. /\ \A i \in 1 .. Len(r.order) : r.table[r.order[i]].in /\ r.order[i] \in Flows
      /\ \A g \in Flows : r.table[g].in => \E i \in 1 .. Len(r.order) : r.order[i] = g
      /\ \A i, j \in 1 .. Len(r.order) : r.order[i] = r.order[j] => i = j
      /\ r.scan = "off" <=> r.order = <<>>
  BY <1>1 DEF Listed, Scheduled
<1>6. ASSUME rest \in Seq(Flows), moved \in Nat, Len(rest) \in Nat,
             \A i \in 1 .. Len(rest) : T[rest[i]].in,
             \A g \in Flows : T[g].in => \E i \in 1 .. Len(rest) : rest[i] = g,
             \A i, j \in 1 .. Len(rest) : rest[i] = rest[j] => i = j,
             r.order = <<>> => rest = <<>>
      PROVE  Listed(R) /\ Scheduled(R)
  <2> HIDE DEF rest, moved, found
  <2>1. cur \in Nat /\ (cur = 0 \/ cur < Len(rest))
    BY <1>6
  <2>4. sc \in {"off", "armed", "due"} /\ (sc = "off" <=> rest = <<>>)
    BY <1>1, <1>5, <1>6
  <2> HIDE DEF cur, sc, R
  <2>2. R \in Receiver
    BY <1>1, <1>2, <1>4, <1>6, <2>1, <2>4 DEF Receiver
  <2>3. R.table = T /\ R.order = rest /\ R.cursor = cur /\ R.scan = sc
    BY <1>1, <1>2, Zenon DEF Receiver
  <2> QED
    BY <1>6, <2>1, <2>2, <2>3, <2>4 DEF Listed, Scheduled
<1>7. CASE found = {}
  <2>1. rest = r.order /\ moved = r.cursor
    BY <1>7
  <2>2. \A i \in 1 .. Len(r.order) : r.order[i] # f
    BY <1>7
  <2> HIDE DEF rest, moved, found
  <2>3. ASSUME NEW i \in 1 .. Len(rest) PROVE T[rest[i]].in
    <3>1. rest[i] \in Flows \ {f} /\ r.table[rest[i]].in
      BY <1>5, <2>1, <2>2
    <3> QED
      BY <1>4, <3>1
  <2>4. \A g \in Flows : T[g].in => \E i \in 1 .. Len(rest) : rest[i] = g
    BY <1>3, <1>4, <1>5, <2>1, Zenon
  <2> QED
    BY <1>1, <1>5, <1>6, <2>1, <2>3, <2>4
<1>8. CASE found # {}
  <2>1. PICK k \in 1 .. Len(r.order) : r.order[k] = f
    BY <1>8
  <2>2. found = {k} /\ \A i \in 1 .. Len(r.order) : i # k => r.order[i] # f
    BY <1>5, <2>1
  <2>3. Min(found) = k
    BY <2>2, MinSingleton
  <2>4. rest = RemoveAt(r.order, k) /\ moved \in Nat
    BY <1>1, <1>8, <2>3
  <2>5. /\ rest \in Seq(Flows) /\ Len(rest) = Len(r.order) - 1
        /\ \A i \in 1 .. Len(r.order) - 1 : rest[i] = IF i < k THEN r.order[i] ELSE r.order[i + 1]
    BY <1>1, <2>4, RemoveAtProperties
  <2> DEFINE at(i) == IF i < k THEN i ELSE i + 1
  <2>6. /\ \A i \in 1 .. Len(rest) : at(i) \in 1 .. Len(r.order) /\ at(i) # k
        /\ \A i \in 1 .. Len(rest) : rest[i] = r.order[at(i)]
        /\ \A i, j \in 1 .. Len(rest) : at(i) = at(j) => i = j
        /\ \A j \in 1 .. Len(r.order) : j # k => \E i \in 1 .. Len(rest) : at(i) = j
    <3> HIDE DEF rest
    <3>1. ASSUME NEW j \in 1 .. Len(r.order), j # k
          PROVE  \E i \in 1 .. Len(rest) : at(i) = j
      <4>1. CASE j < k
        BY <1>1, <2>5, <3>1, <4>1
      <4>2. CASE j > k
        <5>1. j - 1 \in 1 .. Len(rest) /\ at(j - 1) = j
          BY <1>1, <2>5, <3>1, <4>2
        <5> QED
          BY <5>1
      <4> QED
        BY <1>1, <3>1, <4>1, <4>2
    <3> QED
      BY <1>1, <2>5, <3>1
  <2> HIDE DEF rest, moved, found, at
  <2>7. ASSUME NEW i \in 1 .. Len(rest) PROVE T[rest[i]].in
    <3>1. rest[i] = r.order[at(i)] /\ at(i) \in 1 .. Len(r.order) /\ at(i) # k
      BY <2>6
    <3>2. rest[i] \in Flows \ {f} /\ r.table[rest[i]].in
      BY <1>5, <2>2, <3>1
    <3> QED
      BY <1>4, <3>2
  <2>8. ASSUME NEW g \in Flows, T[g].in PROVE \E i \in 1 .. Len(rest) : rest[i] = g
    <3>1. g # f /\ r.table[g].in
      BY <1>3, <1>4, <2>8
    <3>2. PICK j \in 1 .. Len(r.order) : r.order[j] = g
      BY <1>5, <3>1
    <3>3. PICK i \in 1 .. Len(rest) : at(i) = j
      BY <2>1, <2>6, <3>1, <3>2
    <3> QED
      BY <2>6, <3>2, <3>3
  <2>9. ASSUME NEW i \in 1 .. Len(rest), NEW j \in 1 .. Len(rest), rest[i] = rest[j]
        PROVE  i = j
    <3>1. r.order[at(i)] = r.order[at(j)]
      BY <2>6, <2>9
    <3>2. at(i) = at(j)
      BY <1>5, <2>6, <3>1
    <3> QED
      BY <2>6, <3>2
  <2>10. r.order # <<>> /\ Len(rest) \in Nat
    BY <1>1, <2>1, <2>5
  <2> QED
    BY <1>6, <2>4, <2>5, <2>7, <2>8, <2>9, <2>10
<1> QED
  BY <1>7, <1>8

\* Whatever the visit did to the cursor, the event is armed on an entry again.
LEMMA RearmKeeps ==
    ASSUME NEW r, Listed(r)
    PROVE  Listed(Rearm(r)) /\ Scheduled(Rearm(r))
<1> DEFINE R == Rearm(r)
           cur == IF r.cursor >= Len(r.order) THEN 0 ELSE r.cursor
           sc == IF r.order = <<>> THEN "off" ELSE "armed"
<1>1. r \in Receiver /\ r.order \in Seq(Flows) /\ Len(r.order) \in Nat /\ r.cursor \in Nat
  BY DEF Listed, Receiver
<1>2. R = [r EXCEPT !.cursor = cur, !.scan = sc]
  BY DEF Rearm
<1>3. cur \in Nat /\ (cur = 0 \/ cur < Len(r.order)) /\ sc \in {"off", "armed", "due"}
      /\ (sc = "off" <=> r.order = <<>>)
  BY <1>1
<1> HIDE DEF cur, sc, R
<1>4. R \in Receiver
  BY <1>1, <1>2, <1>3 DEF Receiver
<1>5. R.table = r.table /\ R.order = r.order /\ R.cursor = cur /\ R.scan = sc
  BY <1>1, <1>2, Zenon DEF Receiver
<1>6. Listed(R)
  BY <1>4, <1>5, ListedSame
<1> QED
  BY <1>3, <1>5, <1>6 DEF Scheduled, R

\* A visit leaves the order and the table together.
LEMMA VisitKeeps ==
    ASSUME NEW r, Listed(r), Scheduled(r), NEW f \in Flows
    PROVE  Listed(Visit(r, f))
<1> DEFINE R == Visit(r, f)
           T == [r.table EXCEPT ![f] = [r.table[f] EXCEPT !.pending = FALSE, !.age = 0]]
<1>1. r \in Receiver /\ r.cursor + 1 \in Nat /\ r.table \in [Flows -> Entry]
  <2>1. r \in Receiver /\ r.cursor \in Nat
    BY DEF Listed, Receiver
  <2> QED
    BY <2>1 DEF Receiver
<1>2. CASE CnpDue(r.table[f])
  <2>1. R = [r EXCEPT !.table = T, !.cursor = @ + 1]
    BY <1>1, <1>2, Zenon DEF Visit, Receiver
  <2>2. T \in [Flows -> Entry] /\ \A g \in Flows : T[g].in <=> r.table[g].in
    <3>1. 0 \in 0 .. EntryTimeout + 1
      BY DcqcnAssumption
    <3> QED
      BY <1>1, <3>1, Zenon DEF Entry
  <2> HIDE DEF T, R
  <2>3. R \in Receiver
    BY <1>1, <2>1, <2>2 DEF Receiver
  <2>4. R.table = T /\ R.order = r.order
    BY <1>1, <2>1, Zenon DEF Receiver
  <2> QED
    BY <2>2, <2>3, <2>4, ListedSame DEF R
<1>3. CASE ~CnpDue(r.table[f]) /\ r.table[f].age > EntryTimeout
  BY <1>3, RemoveKeeps DEF Visit
<1>4. CASE ~CnpDue(r.table[f]) /\ ~(r.table[f].age > EntryTimeout)
  <2>1. R = [r EXCEPT !.cursor = @ + 1]
    BY <1>4 DEF Visit
  <2> HIDE DEF R
  <2>2. R \in Receiver /\ R.table = r.table /\ R.order = r.order
    BY <1>1, <2>1 DEF Receiver
  <2> QED
    BY <2>2, ListedSame DEF R
<1> QED
  BY <1>2, <1>3, <1>4

-----------------------------------------------------------------------------
(* Rate control *)

\* The fields of a sender.
LEMMA SenderFields ==
    ASSUME NEW q, RatesIn(q)
    PROVE  /\ q \in Sender /\ q.rate \in Nat /\ q.target \in Nat
           /\ q.stage \in 0 .. RpgThreshold + 1 /\ q.timers \in SUBSET Timers
BY Zenon DEF RatesIn, Sender

\* What is below a lifted rate is lifted too.
LEMMA LiftedBelow ==
    ASSUME NEW x \in Nat, NEW r \in Nat, x <= r, Lifted(r)
    PROVE  Lifted(x)
<1>1. PICK s \in ParameterSets : r <= s.minRate
  BY DEF Lifted
<1>2. s.minRate \in Nat
  BY DcqcnAssumption
<1> QED
  BY <1>1, <1>2 DEF Lifted

\* A cut leaves a rate of at least 1 that is the old one at most, or lifted.
LEMMA CutRange ==
    ASSUME par \in ParameterSets, NEW q, RatesIn(q), NEW x \in Cuts(q.rate)
    PROVE  x \in 1 .. LineRate /\ (x > q.rate => Lifted(x))
<1>1. q.rate \in Nat /\ q.rate <= LineRate /\ LineRate \in Nat
  BY SenderFields, DcqcnAssumption DEF RatesIn
<1>2. par.minRate \in 1 .. LineRate
  BY DcqcnAssumption
<1>3. PICK r \in (q.rate \div 2) .. q.rate : x = AtLeast(par.minRate, r)
  BY DEF Cuts
<1>4. r \in Nat /\ r <= q.rate
  BY <1>1, <1>3
<1>5. x \in 1 .. LineRate /\ (x <= q.rate \/ x <= par.minRate)
  BY <1>1, <1>2, <1>3, <1>4 DEF AtLeast
<1> QED
  BY <1>1, <1>5 DEF Lifted

\* A CNP keeps the rates in range; it starts the timers of a QP unless DCQCN has
\* started them before.
LEMMA CnpKeeps ==
    ASSUME par \in ParameterSets, NEW q, RatesIn(q), NEW p \in cnp_received_mlx(q)
    PROVE  /\ RatesIn(p) /\ p.open = q.open /\ p.ghost = q.ghost
           /\ ~plus /\ ~q.first => p.timers = q.timers
<1>1. /\ q \in Sender /\ q.rate \in Nat /\ q.timers \cup {"alpha", "increase"} \in SUBSET Timers
      /\ q.timers \cup {"alpha", "decrease"} \in SUBSET Timers
      /\ 0 \in 0 .. RpgThreshold + 1
      /\ q.rate \in 1 .. LineRate /\ q.target \in 1 .. LineRate /\ LineRate \in Nat
      /\ q.rate > q.target => Lifted(q.rate)
  BY SenderFields, DcqcnAssumption DEF RatesIn, Timers
<1>2. CASE plus
  <2>1. PICK x \in Cuts(q.rate) :
           p = [q EXCEPT !.target = q.rate, !.rate = x, !.stage = 0, !.first = FALSE,
                         !.timers = @ \cup {"alpha", "increase"}]
    BY <1>2 DEF cnp_received_mlx, CnpReceivedPlus
  <2>2. x \in Nat /\ x \in 1 .. LineRate /\ (x > q.rate => Lifted(x))
    BY CutRange
  <2>3. p \in Sender
    BY <1>1, <2>1, <2>2, Zenon DEF Sender
  <2>4. p.open = q.open /\ p.ghost = q.ghost /\ p.rate = x /\ p.target = q.rate
    BY <1>1, <2>1, Zenon DEF Sender
  <2>5. RatesIn(p)
    BY <1>1, <2>2, <2>3, <2>4 DEF RatesIn
  <2> QED
    BY <1>2, <2>4, <2>5
<1>3. CASE ~plus /\ q.first
  <2>1. PICK x \in 1 .. q.rate :
           p = [q EXCEPT !.cnp = TRUE, !.target = x, !.rate = x, !.first = FALSE,
                         !.timers = @ \cup {"alpha", "decrease"}]
    BY <1>3 DEF cnp_received_mlx, CnpReceivedMlx
  <2>2. x \in Nat /\ x \in 1 .. LineRate
    BY <1>1
  <2>3. p \in Sender
    BY <1>1, <2>1, <2>2, Zenon DEF Sender
  <2>4. p.open = q.open /\ p.ghost = q.ghost /\ p.rate = x /\ p.target = x
    BY <1>1, <2>1, Zenon DEF Sender
  <2>5. RatesIn(p)
    BY <1>1, <2>2, <2>3, <2>4 DEF RatesIn
  <2> QED
    BY <1>3, <2>4, <2>5
<1>4. CASE ~plus /\ ~q.first
  <2>1. p = [q EXCEPT !.cnp = TRUE]
    BY <1>4 DEF cnp_received_mlx, CnpReceivedMlx
  <2>2. p \in Sender
    BY <1>1, <2>1, Zenon DEF Sender
  <2>3. /\ p.open = q.open /\ p.ghost = q.ghost /\ p.rate = q.rate /\ p.target = q.target
        /\ p.timers = q.timers
    BY <1>1, <2>1, Zenon DEF Sender
  <2>4. RatesIn(p)
    BY <1>1, <2>2, <2>3 DEF RatesIn
  <2> QED
    BY <2>3, <2>4
<1> QED
  BY <1>2, <1>3, <1>4

\* The periodic cut of DCQCN.
LEMMA DecreaseKeeps ==
    ASSUME par \in ParameterSets, NEW q, RatesIn(q), NEW p \in DecreaseRate(q)
    PROVE  RatesIn(p) /\ p.open = q.open /\ p.ghost = q.ghost
<1> DEFINE to == IF ClampTgtRate \/ q.stage # 0 THEN q.rate ELSE q.target
<1>1. /\ q \in Sender /\ q.rate \in Nat /\ q.timers \cup {"increase"} \in SUBSET Timers
      /\ 0 \in 0 .. RpgThreshold + 1 /\ LineRate \in Nat
      /\ to \in Nat /\ to \in 1 .. LineRate /\ (q.rate > to => Lifted(q.rate))
  BY SenderFields, DcqcnAssumption DEF RatesIn, Timers
<1>2. PICK x \in Cuts(q.rate) :
        p = [q EXCEPT !.target = to, !.rate = x, !.stage = 0, !.cnp = FALSE,
                      !.timers = @ \cup {"increase"}]
  BY DEF DecreaseRate
<1>3. x \in Nat /\ x \in 1 .. LineRate /\ (x > q.rate => Lifted(x))
  BY CutRange
<1> HIDE DEF to
<1>6. x > to => Lifted(x)
  <2>1. CASE x > q.rate
    BY <2>1, <1>3
  <2>2. CASE x <= q.rate /\ q.rate > to
    BY <2>2, <1>1, <1>3, LiftedBelow
  <2> QED
    BY <2>1, <2>2, <1>1, <1>3
<1>4. p \in Sender
  BY <1>1, <1>2, <1>3, Zenon DEF Sender
<1>5. p.open = q.open /\ p.ghost = q.ghost /\ p.rate = x /\ p.target = to
  BY <1>1, <1>2, Zenon DEF Sender
<1> QED
  BY <1>3, <1>1, <1>4, <1>5, <1>6 DEF RatesIn

\* The increase moves the rate half way to a target that never exceeds the link.
LEMMA IncreaseKeeps ==
    ASSUME par \in ParameterSets, NEW q, RatesIn(q)
    PROVE  LET p == RateIncEventMlx(q)
           IN  RatesIn(p) /\ p.open = q.open /\ p.ghost = q.ghost /\ p.timers = q.timers
<1> DEFINE p == RateIncEventMlx(q)
           step == IF q.stage < RpgThreshold THEN 0
                   ELSE IF q.stage = RpgThreshold THEN IF plus THEN PlusActiveStep ELSE par.rai
                   ELSE IF plus THEN PlusHyperStep ELSE par.rhai
           to == AtMost(LineRate, q.target + step)
           half == (q.rate + to) \div 2
           stage == AtMost(RpgThreshold + 1, q.stage + 1)
<1>1. /\ q \in Sender /\ q.rate \in Nat /\ q.target \in Nat /\ q.stage \in 0 .. RpgThreshold + 1
      /\ LineRate \in Nat /\ RpgThreshold \in Nat
      /\ q.rate \in 1 .. LineRate /\ q.target \in 1 .. LineRate
      /\ q.rate > q.target => Lifted(q.rate)
  BY SenderFields, DcqcnAssumption DEF RatesIn
<1>2. step \in Nat
  <2>1. par.rai \in Nat /\ par.rhai \in Nat
    BY DcqcnAssumption
  <2> QED
    BY <2>1, DcqcnAssumption
<1> HIDE DEF step
<1>3. to \in Nat /\ q.target <= to /\ to \in 1 .. LineRate
  BY <1>1, <1>2 DEF AtMost
<1>4. stage \in 0 .. RpgThreshold + 1
  BY <1>1 DEF AtMost
<1> HIDE DEF to, stage
<1>5. /\ half \in Nat /\ half \in 1 .. LineRate
      /\ half > to => half <= q.rate /\ q.rate > q.target
  BY <1>1, <1>3
<1>6. p = [q EXCEPT !.target = to, !.rate = half, !.stage = stage]
  BY DEF RateIncEventMlx, to, step, stage
<1> HIDE DEF half, p
<1>7. p \in Sender
  BY <1>1, <1>3, <1>4, <1>5, <1>6, Zenon DEF Sender
<1>8. p.open = q.open /\ p.ghost = q.ghost /\ p.rate = half /\ p.target = to
      /\ p.timers = q.timers
  BY <1>1, <1>6, Zenon DEF Sender
<1>9. RatesIn(p)
  <2>1. half > to => Lifted(half)
    BY <1>1, <1>5, LiftedBelow
  <2> QED
    BY <2>1, <1>1, <1>3, <1>5, <1>7, <1>8 DEF RatesIn
<1> QED
  BY <1>8, <1>9 DEF p

-----------------------------------------------------------------------------
(* Replies under way *)

\* The reply at the head is taken off.
LEMMA TailInOrder ==
    ASSUME NEW b, NEW l, NEW p, InOrder(b, l, p), b # <<>>
    PROVE  /\ InOrder(Tail(b), l, p)
           /\ Head(b) = b[1] /\ 1 \in 1 .. Len(b)
           /\ \A i \in 1 .. Len(Tail(b)) : i + 1 \in 1 .. Len(b) /\ Tail(b)[i] = b[i + 1]
<1>1. b \in Seq(Reply) /\ Len(b) \in Nat
  BY DEF InOrder
<1>2. /\ Head(b) = b[1] /\ 1 \in 1 .. Len(b)
      /\ Tail(b) \in Seq(Reply) /\ Len(Tail(b)) = Len(b) - 1
      /\ \A i \in 1 .. Len(Tail(b)) : Tail(b)[i] = b[i + 1]
  BY <1>1, HeadTailProperties
<1>3. \A i \in 1 .. Len(Tail(b)) : i + 1 \in 1 .. Len(b) /\ Tail(b)[i] = b[i + 1]
  BY <1>1, <1>2
<1>4. \A i \in 1 .. Len(Tail(b)) : Tail(b)[i].last => l
  BY <1>3 DEF InOrder
<1>5. ASSUME NEW i \in 1 .. Len(Tail(b)), NEW j \in 1 .. Len(Tail(b)),
             Tail(b)[i].last, Tail(b)[j].kind = "ack"
      PROVE  j <= i
  <2>1. j + 1 <= i + 1
    BY <1>3, <1>5 DEF InOrder
  <2> QED
    BY <1>1, <1>2, <2>1
<1>6. \A i \in 1 .. Len(Tail(b)) : Tail(b)[i].kind = "ack" /\ Tail(b)[i].cnp => ~p
  BY <1>3 DEF InOrder
<1> QED
  BY <1>2, <1>3, <1>4, <1>5, <1>6 DEF InOrder

\* A reply m is appended: an acknowledgement only while no last one is there.
LEMMA AppendInOrder ==
    ASSUME NEW b, NEW l, NEW p, InOrder(b, l, p), NEW m \in Reply, NEW k,
           m.kind = "ack" => ~l /\ (m.cnp => ~p),
           l \/ m.last => k
    PROVE  InOrder(Append(b, m), k, p)
<1>1. b \in Seq(Reply) /\ Len(b) \in Nat
  BY DEF InOrder
<1> DEFINE a == Append(b, m)
<1>2. /\ a \in Seq(Reply) /\ Len(a) = Len(b) + 1 /\ a[Len(b) + 1] = m
      /\ \A i \in 1 .. Len(b) : a[i] = b[i]
  BY <1>1, AppendProperties
<1> HIDE DEF a
<1>3. \A i \in 1 .. Len(a) : i \in 1 .. Len(b) \/ i = Len(b) + 1
  BY <1>1, <1>2
<1>4. ASSUME NEW i \in 1 .. Len(a) PROVE a[i].last => k
  BY <1>2, <1>3, Zenon DEF InOrder
<1>5. ASSUME NEW i \in 1 .. Len(a), NEW j \in 1 .. Len(a), a[i].last, a[j].kind = "ack"
      PROVE  j <= i
  <2>1. CASE i = Len(b) + 1
    BY <1>1, <1>2, <2>1
  <2>2. CASE i \in 1 .. Len(b) /\ j \in 1 .. Len(b)
    BY <1>2, <1>5, <2>2 DEF InOrder
  <2>3. CASE i \in 1 .. Len(b) /\ j = Len(b) + 1
    <3>1. a[i] = b[i] /\ a[j] = m
      BY <1>2, <2>3
    <3>2. l
      BY <1>5, <2>3, <3>1 DEF InOrder
    <3> QED
      BY <1>5, <3>1, <3>2
  <2> QED
    BY <1>3, <2>1, <2>2, <2>3
<1>6. ASSUME NEW i \in 1 .. Len(a), a[i].kind = "ack", a[i].cnp PROVE ~p
  <2>1. CASE i \in 1 .. Len(b)
    BY <1>2, <1>6, <2>1 DEF InOrder
  <2>2. CASE i = Len(b) + 1
    BY <1>2, <1>6, <2>2
  <2> QED
    BY <1>3, <2>1, <2>2
<1> QED
  BY <1>2, <1>4, <1>5, <1>6 DEF InOrder, a

-----------------------------------------------------------------------------
(* The initial states and the steps *)

\* Nothing is scheduled, marked or under way at first.
LEMMA InitIInv == Init => IInv
<1> SUFFICES ASSUME Init PROVE IInv
  OBVIOUS
<1>1. Listed(rcv) /\ Scheduled(rcv)
  <2> DEFINE T == [f \in Flows |-> Absent]
  <2>1. 0 \in 0 .. EntryTimeout + 1
    BY DcqcnAssumption
  <2>2. T \in [Flows -> Entry] /\ \A f \in Flows : ~T[f].in
    BY <2>1, Zenon DEF Absent, Entry
  <2>3. rcv = [table |-> T, order |-> <<>>, cursor |-> 0, scan |-> "off"]
    BY DEF Init
  <2> HIDE DEF T
  <2>4. rcv \in Receiver
    BY <2>2, <2>3 DEF Receiver
  <2>5. rcv.table = T /\ rcv.order = <<>> /\ rcv.cursor = 0 /\ rcv.scan = "off"
    BY <2>3
  <2> QED
    BY <2>2, <2>4, <2>5 DEF Listed, Scheduled
<1>2. sent \in [Flows -> Arrivals]
  <2>1. 0 \in 0 .. MaxLate /\ MaxLate \in 0 .. MaxLate
    BY DcqcnAssumption
  <2>2. PICK s : sent = [f \in Flows |-> [last |-> f \notin s,
                                         late |-> IF f \in s THEN 0 ELSE MaxLate]]
    BY DEF Init
  <2>3. \A f \in Flows : [last |-> f \notin s, late |-> IF f \in s THEN 0 ELSE MaxLate] \in Arrivals
    BY <2>1 DEF Arrivals
  <2> QED
    BY <2>2, <2>3, Zenon
<1>3. back \in [Flows -> Seq(Reply)] /\ \A f \in Flows : back[f] = <<>>
  BY DEF Init
<1> DEFINE q == [open |-> TRUE, rate |-> LineRate, target |-> LineRate, stage |-> 0,
                 first |-> TRUE, cnp |-> FALSE, timers |-> {}, ghost |-> FALSE]
<1>4. qp = [f \in Flows |-> q]
  BY DEF Init
<1>5. q \in Sender /\ q.open /\ q.rate = LineRate /\ q.target = LineRate
  <2>1. LineRate \in Nat /\ 0 \in 0 .. RpgThreshold + 1 /\ {} \in SUBSET Timers
    BY DcqcnAssumption
  <2> QED
    BY <2>1, Zenon DEF Sender
<1> HIDE DEF q
<1>6. RatesIn(q)
  BY <1>5, DcqcnAssumption DEF RatesIn
<1>7. ASSUME NEW f \in Flows PROVE FlowInv(f)
  <2>1. qp[f] = q /\ back[f] = <<>>
    BY <1>3, <1>4
  <2>2. InOrder(<<>>, sent[f].last, plus)
    BY DEF InOrder
  <2> QED
    BY <1>5, <1>6, <2>1, <2>2 DEF FlowInv, Complete
<1>8. qp \in [Flows -> Sender]
  BY <1>4, <1>5
<1> QED
  BY <1>1, <1>2, <1>3, <1>7, <1>8 DEF IInv, Init

\* A step that concerns the flow f leaves the others alone.
LEMMA FlowStep ==
    ASSUME IInv, NEW f \in Flows, UNCHANGED <<plus, par>>,
           Listed(rcv'), Scheduled(rcv'), sent' \in [Flows -> Arrivals],
           NEW b \in Seq(Reply), back' = [back EXCEPT ![f] = b],
           NEW q \in Sender, qp' = [qp EXCEPT ![f] = q],
           \A g \in Flows \ {f} : sent'[g] = sent[g],
           RatesIn(q), InOrder(b, sent'[f].last, plus), Complete(q, b, sent'[f].last, plus)
    PROVE  IInv'
<1>1. /\ back' \in [Flows -> Seq(Reply)] /\ back'[f] = b
      /\ \A g \in Flows \ {f} : back'[g] = back[g]
  BY DEF IInv
<1>2. /\ qp' \in [Flows -> Sender] /\ qp'[f] = q
      /\ \A g \in Flows \ {f} : qp'[g] = qp[g]
  BY DEF IInv
<1>3. FlowInv(f)'
  BY <1>1, <1>2 DEF FlowInv
<1>4. ASSUME NEW g \in Flows \ {f} PROVE FlowInv(g)'
  BY <1>1, <1>2 DEF IInv, FlowInv
<1> QED
  BY <1>1, <1>2, <1>3, <1>4 DEF IInv

\* The parts of the invariant that a step of the flow f starts from.
LEMMA FlowFacts ==
    ASSUME IInv, NEW f \in Flows
    PROVE  /\ RatesIn(qp[f]) /\ qp[f] \in Sender /\ back[f] \in Seq(Reply)
           /\ InOrder(back[f], sent[f].last, plus)
           /\ Complete(qp[f], back[f], sent[f].last, plus)
           /\ sent[f] \in Arrivals /\ par \in ParameterSets
           /\ back = [back EXCEPT ![f] = back[f]] /\ qp = [qp EXCEPT ![f] = qp[f]]
BY DEF IInv, FlowInv

\* A packet at the receiver enters its flow in the scheduler or refreshes it.
LEMMA ReceiveUdpStep ==
    ASSUME IInv, NEW f \in Flows, NEW ecn \in BOOLEAN, NEW last \in BOOLEAN,
           ReceiveUdp(f, ecn, last)
    PROVE  IInv'
<1> DEFINE m == [kind |-> "ack", cnp |-> ~plus /\ ecn, last |-> last]
           b == Append(back[f], m)
<1>1. UNCHANGED <<plus, par, qp>> /\ ~sent[f].last /\ back' = [back EXCEPT ![f] = b]
  BY DEF ReceiveUdp, IInv
<1>2. Listed(rcv') /\ Scheduled(rcv')
  BY TrackKeeps DEF ReceiveUdp, IInv
<1>3. /\ sent' \in [Flows -> Arrivals] /\ sent'[f].last = last
      /\ \A g \in Flows \ {f} : sent'[g] = sent[g]
  BY Zenon DEF ReceiveUdp, IInv, Arrivals
<1>4. m \in Reply /\ m.kind = "ack" /\ m.last = last /\ (m.cnp => ~plus)
  <2>1. (~plus /\ ecn) \in BOOLEAN
    OBVIOUS
  <2> QED
    BY <2>1, Zenon DEF Reply
<1> HIDE DEF m
<1>5. InOrder(b, last, plus)
  BY <1>1, <1>4, FlowFacts, AppendInOrder
<1>6. b \in Seq(Reply)
  BY <1>5 DEF InOrder
<1>7. qp[f].open
  BY <1>1, FlowFacts DEF Complete
<1> HIDE DEF b
<1>8. Complete(qp[f], b, last, plus)
  BY <1>7 DEF Complete
<1>9. qp' = [qp EXCEPT ![f] = qp[f]]
  BY <1>1, FlowFacts
<1> QED
  BY <1>1, <1>2, <1>3, <1>5, <1>6, <1>8, <1>9, FlowFacts, FlowStep

\* A packet of a flow that is over changes only the scheduler of the receiver.
LEMMA ReceiveLateUdpStep ==
    ASSUME IInv, NEW f \in Flows, ReceiveLateUdp(f) PROVE IInv'
<1>1. UNCHANGED <<plus, par, back, qp>>
  BY DEF ReceiveLateUdp
<1>2. Listed(rcv') /\ Scheduled(rcv')
  BY TrackKeeps DEF ReceiveLateUdp, IInv
<1>3. sent[f].late + 1 \in 0 .. MaxLate
  <2>1. sent[f].late \in 0 .. MaxLate
    BY FlowFacts, Zenon DEF Arrivals
  <2> QED
    BY <2>1, DcqcnAssumption DEF ReceiveLateUdp
<1>4. /\ sent' \in [Flows -> Arrivals] /\ sent'[f].last = sent[f].last
      /\ \A g \in Flows \ {f} : sent'[g] = sent[g]
  BY <1>3, Zenon DEF ReceiveLateUdp, IInv, Arrivals
<1>5. back' = [back EXCEPT ![f] = back[f]] /\ qp' = [qp EXCEPT ![f] = qp[f]]
  BY <1>1, FlowFacts
<1> QED
  BY <1>1, <1>2, <1>4, <1>5, FlowFacts, FlowStep

\* Time passes: the entries age and the scan that was armed becomes due.
LEMMA TickStep == ASSUME IInv, Tick PROVE IInv'
<1> DEFINE T == [f \in Flows |-> [rcv.table[f] EXCEPT !.age =
                   IF rcv.table[f].in THEN AtMost(EntryTimeout + 1, @ + 1) ELSE @]]
<1>1. rcv \in Receiver /\ rcv.table \in [Flows -> Entry] /\ rcv.order # <<>>
  BY DEF IInv, Listed, Scheduled, Receiver, Tick
<1>2. ASSUME NEW f \in Flows PROVE T[f] \in Entry /\ (T[f].in <=> rcv.table[f].in)
  <2> DEFINE n == IF rcv.table[f].in THEN AtMost(EntryTimeout + 1, rcv.table[f].age + 1)
                  ELSE rcv.table[f].age
  <2>1. rcv.table[f] \in Entry
    BY <1>1
  <2>2. rcv.table[f].age \in 0 .. EntryTimeout + 1
    BY <2>1, Zenon DEF Entry
  <2>3. n \in 0 .. EntryTimeout + 1
    BY <2>2, DcqcnAssumption DEF AtMost
  <2>4. T[f] = [rcv.table[f] EXCEPT !.age = n]
    OBVIOUS
  <2> HIDE DEF n, T
  <2> QED
    BY <2>1, <2>3, <2>4, Zenon DEF Entry
<1>3. T \in [Flows -> Entry]
  BY <1>2
<1>4. rcv' = [rcv EXCEPT !.table = T, !.scan = "due"]
  BY DEF Tick
<1> HIDE DEF T
<1>5. rcv' \in Receiver
  BY <1>1, <1>3, <1>4 DEF Receiver
<1>6. rcv'.table = T /\ rcv'.order = rcv.order /\ rcv'.cursor = rcv.cursor /\ rcv'.scan = "due"
  BY <1>1, <1>4, Zenon DEF Receiver
<1>7. Listed(rcv')
  BY <1>2, <1>5, <1>6, ListedSame DEF IInv
<1>8. Scheduled(rcv')
  BY <1>1, <1>6 DEF IInv, Scheduled
<1> QED
  BY <1>7, <1>8 DEF IInv, Tick, FlowInv

\* The scan stands on an entry when it runs; a CNP joins the replies of its flow.
LEMMA SchedulerStep == ASSUME IInv, RunDcqcnPlusReceiverScheduler PROVE IInv'
<1> DEFINE f == rcv.order[rcv.cursor + 1]
           m == [kind |-> "cnp", cnp |-> TRUE, last |-> FALSE]
<1>1. rcv.order \in Seq(Flows) /\ rcv.order # <<>> /\ rcv.cursor \in Nat
      /\ (rcv.cursor = 0 \/ rcv.cursor < Len(rcv.order))
  BY DEF IInv, Listed, Scheduled, Receiver, RunDcqcnPlusReceiverScheduler
<1>2. f \in Flows
  <2>1. rcv.cursor + 1 \in 1 .. Len(rcv.order)
    BY <1>1
  <2> QED
    BY <1>1, <2>1
<1>3. /\ rcv' = Rearm(Visit(rcv, f)) /\ UNCHANGED <<plus, par, sent, qp>>
      /\ back' = [back EXCEPT ![f] = Append(@, m)] \/ back' = back
  BY DEF RunDcqcnPlusReceiverScheduler
<1> HIDE DEF f
<1>4. Listed(rcv') /\ Scheduled(rcv')
  BY <1>2, <1>3, VisitKeeps, RearmKeeps DEF IInv
<1>5. m \in Reply /\ m.kind = "cnp" /\ ~m.last
  BY Zenon DEF Reply
<1> HIDE DEF m
<1>6. CASE back' = back
  BY <1>3, <1>4, <1>6 DEF IInv, FlowInv
<1>7. CASE back' = [back EXCEPT ![f] = Append(@, m)]
  <2> DEFINE b == Append(back[f], m)
  <2>1. InOrder(b, sent[f].last, plus)
    BY <1>2, <1>5, FlowFacts, AppendInOrder
  <2>2. b \in Seq(Reply)
    BY <2>1 DEF InOrder
  <2>3. back[f] \in Seq(Reply)
    BY <1>2, FlowFacts
  <2>4. /\ Len(b) = Len(back[f]) + 1 /\ b[Len(back[f]) + 1] = m
        /\ \A i \in 1 .. Len(back[f]) : b[i] = back[f][i]
    BY <1>5, <2>3, AppendProperties
  <2>5. \A i \in 1 .. Len(b) : i \in 1 .. Len(back[f]) \/ i = Len(back[f]) + 1
    BY <2>3, <2>4
  <2>6. back' = [back EXCEPT ![f] = b]
    BY <1>7
  <2> HIDE DEF b
  <2>7. Complete(qp[f], b, sent[f].last, plus)
    <3>1. Complete(qp[f], back[f], sent[f].last, plus)
      BY <1>2, FlowFacts
    <3> QED
      BY <1>5, <2>4, <2>5, <3>1, Zenon DEF Complete
  <2>8. qp' = [qp EXCEPT ![f] = qp[f]] /\ sent' = sent /\ sent \in [Flows -> Arrivals]
    BY <1>2, <1>3, FlowFacts DEF IInv
  <2> QED
    BY <1>2, <1>3, <1>4, <2>1, <2>2, <2>6, <2>7, <2>8, FlowFacts, FlowStep
<1> QED
  BY <1>3, <1>6, <1>7

\* What taking off the head of the replies leaves of a complete or an open QP.
LEMMA TailComplete ==
    ASSUME IInv, NEW f \in Flows, back[f] # <<>>,
           NEW q, q.open = qp[f].open, q.ghost = qp[f].ghost,
           ~q.open => q.timers = qp[f].timers
    PROVE  Complete(q, Tail(back[f]), sent[f].last, plus)
<1>1. /\ Complete(qp[f], back[f], sent[f].last, plus)
      /\ InOrder(back[f], sent[f].last, plus)
  BY FlowFacts
<1>2. \A i \in 1 .. Len(Tail(back[f])) :
         i + 1 \in 1 .. Len(back[f]) /\ Tail(back[f])[i] = back[f][i + 1]
  BY <1>1, TailInOrder
<1> QED
  BY <1>1, <1>2 DEF Complete

\* A CNP at the sender starts the timers of its queue pair or marks a cut as due.
LEMMA ReceiveCnpStep == ASSUME IInv, NEW f \in Flows, ReceiveCnp(f) PROVE IInv'
<1> DEFINE b == Tail(back[f])
<1>1. /\ back[f] # <<>> /\ back' = [back EXCEPT ![f] = b]
      /\ UNCHANGED <<plus, par, rcv, sent>>
  BY DEF ReceiveCnp, IInv
<1>2. InOrder(b, sent[f].last, plus) /\ b \in Seq(Reply)
  <2>1. InOrder(b, sent[f].last, plus)
    BY <1>1, FlowFacts, TailInOrder
  <2> QED
    BY <2>1 DEF InOrder
<1>3. Listed(rcv') /\ Scheduled(rcv') /\ sent' \in [Flows -> Arrivals]
  BY <1>1 DEF IInv
<1>4. PICK q : /\ qp' = [qp EXCEPT ![f] = q]
               /\ q = qp[f] \/ (qp[f].open /\ q \in cnp_received_mlx(qp[f]))
  BY FlowFacts DEF ReceiveCnp
<1>5. RatesIn(q) /\ q.open = qp[f].open /\ q.ghost = qp[f].ghost
      /\ (~q.open => q.timers = qp[f].timers)
  BY <1>4, FlowFacts, CnpKeeps
<1>6. Complete(q, b, sent[f].last, plus)
  BY <1>1, <1>5, TailComplete
<1>7. q \in Sender
  BY <1>5 DEF RatesIn
<1> HIDE DEF b
<1> QED
  BY <1>1, <1>2, <1>3, <1>4, <1>5, <1>6, <1>7, FlowStep

\* The alpha and rate decrease check of one queue pair.
LEMMA CheckRateDecreaseStep == ASSUME IInv, NEW f \in Flows, CheckRateDecreaseMlx(f) PROVE IInv'
<1>1. UNCHANGED <<plus, par, rcv, sent, back>> /\ qp[f].timers # {}
  BY DEF CheckRateDecreaseMlx
<1>2. PICK q \in DecreaseRate(qp[f]) : qp' = [qp EXCEPT ![f] = q]
  BY DEF CheckRateDecreaseMlx
<1>3. RatesIn(q) /\ q.open = qp[f].open /\ q.ghost = qp[f].ghost
  BY FlowFacts, DecreaseKeeps
<1>4. Complete(q, back[f], sent[f].last, plus)
  BY <1>1, <1>3, FlowFacts DEF Complete
<1>5. q \in Sender
  BY <1>3 DEF RatesIn
<1>6. Listed(rcv') /\ Scheduled(rcv') /\ sent' \in [Flows -> Arrivals]
      /\ back' = [back EXCEPT ![f] = back[f]]
  BY <1>1, FlowFacts DEF IInv
<1> QED
  BY <1>1, <1>2, <1>3, <1>4, <1>5, <1>6, FlowFacts, FlowStep

\* The rate increase timer of one queue pair.
LEMMA RateIncStep == ASSUME IInv, NEW f \in Flows, RateIncEventTimerMlx(f) PROVE IInv'
<1> DEFINE q == RateIncEventMlx(qp[f])
<1>1. UNCHANGED <<plus, par, rcv, sent, back>> /\ qp' = [qp EXCEPT ![f] = q]
  BY DEF RateIncEventTimerMlx
<1>2. RatesIn(q) /\ q.open = qp[f].open /\ q.ghost = qp[f].ghost /\ q.timers = qp[f].timers
  BY FlowFacts, IncreaseKeeps
<1> HIDE DEF q
<1>3. Complete(q, back[f], sent[f].last, plus)
  BY <1>2, FlowFacts DEF Complete
<1>4. q \in Sender
  BY <1>2 DEF RatesIn
<1>5. Listed(rcv') /\ Scheduled(rcv') /\ sent' \in [Flows -> Arrivals]
      /\ back' = [back EXCEPT ![f] = back[f]]
  BY <1>1, FlowFacts DEF IInv
<1> QED
  BY <1>1, <1>2, <1>3, <1>4, <1>5, FlowFacts, FlowStep

\* The acknowledgement at the head: the last one completes the QP, and no other
\* follows it.
LEMMA ReceiveAckStep == ASSUME IInv, NEW f \in Flows, ReceiveAck(f) PROVE IInv'
<1> DEFINE a == Head(back[f])
           b == Tail(back[f])
           q1 == IF a.last THEN QpComplete(qp[f]) ELSE qp[f]
           gh == a.last /\ a.cnp /\ q1.first
           q2 == [q1 EXCEPT !.ghost = gh]
<1>1. /\ back[f] # <<>> /\ a.kind = "ack" /\ back' = [back EXCEPT ![f] = b]
      /\ UNCHANGED <<plus, par, sent>>
  BY DEF ReceiveAck, IInv
<1>2. /\ InOrder(back[f], sent[f].last, plus) /\ Complete(qp[f], back[f], sent[f].last, plus)
      /\ RatesIn(qp[f]) /\ qp[f] \in Sender
  BY FlowFacts
<1>3. /\ InOrder(b, sent[f].last, plus) /\ a = back[f][1] /\ 1 \in 1 .. Len(back[f])
      /\ \A i \in 1 .. Len(b) : i + 1 \in 1 .. Len(back[f]) /\ b[i] = back[f][i + 1]
  BY <1>1, <1>2, TailInOrder
<1>4. back[f] \in Seq(Reply) /\ b \in Seq(Reply) /\ a \in Reply
  BY <1>2, <1>3 DEF InOrder
<1>5. /\ a.last => sent[f].last
      /\ a.cnp => ~plus
      /\ a.last => \A i \in 1 .. Len(b) : b[i].kind = "cnp"
  <2>1. (a.last => sent[f].last) /\ (a.cnp => ~plus)
    BY <1>1, <1>2, <1>3 DEF InOrder
  <2>2. ASSUME a.last, NEW i \in 1 .. Len(b) PROVE b[i].kind = "cnp"
    <3>4. b[i] \in Reply
      BY <1>4
    <3>1. b[i].kind \in {"ack", "cnp"}
      BY <3>4, Zenon DEF Reply
    <3>2. i + 1 <= 1 \/ back[f][i + 1].kind # "ack"
      BY <1>2, <1>3, <2>2 DEF InOrder
    <3>3. Len(b) \in Nat /\ ~(i + 1 <= 1)
      BY <1>4
    <3> QED
      BY <1>3, <3>1, <3>2, <3>3
  <2> QED
    BY <2>1, <2>2
<1>6. qp[f].open
  BY <1>1, <1>2, <1>3 DEF Complete
<1>7. Listed(rcv') /\ Scheduled(rcv') /\ sent' \in [Flows -> Arrivals]
  BY <1>1, RemoveKeeps DEF ReceiveAck, IInv
<1>8. q1 \in Sender /\ q1.rate = qp[f].rate /\ q1.target = qp[f].target
      /\ (q1.open <=> ~a.last) /\ (a.last => q1.timers = {})
  BY <1>2, <1>6, Zenon DEF QpComplete, Sender
<1> HIDE DEF q1
<1>9. q2 \in Sender /\ q2.rate = q1.rate /\ q2.target = q1.target /\ q2.open = q1.open
      /\ q2.timers = q1.timers /\ q2.ghost = gh /\ q2.first = q1.first
  <2>1. gh \in BOOLEAN
    BY <1>4, <1>8, Zenon DEF Reply, Sender
  <2> HIDE DEF gh
  <2> QED
    BY <1>8, <2>1, Zenon DEF Sender
<1>10. RatesIn(q2)
  BY <1>2, <1>8, <1>9 DEF RatesIn
<1>11. PICK q : /\ qp' = [qp EXCEPT ![f] = q]
                /\ (a.cnp /\ q \in cnp_received_mlx(q2)) \/ (~a.cnp /\ q = q2)
  BY DEF ReceiveAck, q1
<1> HIDE DEF q2
<1>12. /\ RatesIn(q) /\ q.open = q2.open /\ q.ghost = q2.ghost
       /\ ~a.cnp => q.timers = q2.timers
       /\ ~plus /\ ~q2.first => q.timers = q2.timers
  BY <1>10, <1>11, FlowFacts, CnpKeeps
<1>13. q \in Sender
  BY <1>12 DEF RatesIn
<1>14. Complete(q, b, sent[f].last, plus)
  <2>1. SUFFICES ASSUME ~q.open
                 PROVE  /\ sent[f].last /\ \A i \in 1 .. Len(b) : b[i].kind = "cnp"
                        /\ q.timers # {} => ~plus /\ q.ghost
    BY DEF Complete
  <2>2. a.last
    BY <1>8, <1>9, <1>12, <2>1
  <2>3. ASSUME q.timers # {} PROVE ~plus /\ q.ghost
    <3>1. q.timers # q2.timers
      BY <1>8, <1>9, <2>2, <2>3
    <3>2. a.cnp /\ ~plus
      BY <1>5, <1>12, <3>1
    <3>3. q1.first
      BY <1>9, <1>12, <3>1, <3>2
    <3> QED
      BY <1>9, <1>12, <2>2, <3>2, <3>3
  <2> QED
    BY <1>5, <2>2, <2>3
<1> HIDE DEF b
<1> QED
  BY <1>1, <1>3, <1>4, <1>7, <1>11, <1>12, <1>13, <1>14, FlowStep

\* New parameters leave the QPs alone, and what holds of their rates does not
\* depend on which are in force.
LEMMA ChangeParametersStep == ASSUME IInv, ChangeParameters PROVE IInv'
BY DEF IInv, FlowInv, ChangeParameters

-----------------------------------------------------------------------------
(* Theorems *)

\* Every event keeps the invariant.
LEMMA NextIInv == IInv /\ [Next]_vars => IInv'
<1> SUFFICES ASSUME IInv, [Next]_vars PROVE IInv'
  OBVIOUS
<1>1. CASE Tick
  BY <1>1, TickStep
<1>2. CASE RunDcqcnPlusReceiverScheduler
  BY <1>2, SchedulerStep
<1>5. CASE ChangeParameters
  BY <1>5, ChangeParametersStep
<1>3. ASSUME NEW f \in Flows,
             \/ \E ecn \in BOOLEAN, last \in BOOLEAN : ReceiveUdp(f, ecn, last)
             \/ ReceiveLateUdp(f) \/ ReceiveCnp(f) \/ ReceiveAck(f)
             \/ CheckRateDecreaseMlx(f) \/ RateIncEventTimerMlx(f)
      PROVE  IInv'
  BY <1>3, ReceiveUdpStep, ReceiveLateUdpStep, ReceiveCnpStep, ReceiveAckStep,
     CheckRateDecreaseStep, RateIncStep
<1>4. CASE UNCHANGED vars
  BY <1>4 DEF vars, IInv, FlowInv
<1> QED
  BY <1>1, <1>2, <1>3, <1>4, <1>5 DEF Next

\* The invariant holds in every reachable state.
THEOREM Invariance == Spec => []IInv
BY InitIInv, NextIInv, PTL DEF Spec

\* For any rates, steps and thresholds: however cuts, increases and changes of the
\* parameters alternate, rate and target of a QP stay between 1 and the rate of
\* the link, and the rate passes the target only up to a minimum rate of the tuner.
THEOREM TypeCorrect == Spec => []TypeOK
<1>1. ASSUME IInv PROVE TypeOK
  <2>1. /\ rcv.table \in [Flows -> Entry] /\ rcv.order \in Seq(Flows) /\ rcv.cursor \in Nat
        /\ rcv.scan \in {"off", "armed", "due"}
    BY <1>1, Zenon DEF IInv, Listed, Receiver
  <2>2. ASSUME NEW f \in Flows
        PROVE  /\ qp[f].timers \subseteq {"alpha", "decrease", "increase"}
               /\ {qp[f].open, qp[f].first, qp[f].cnp, qp[f].ghost} \subseteq BOOLEAN
               /\ qp[f].stage \in 0 .. RpgThreshold + 1
    <3>1. qp[f] \in Sender
      BY <1>1 DEF IInv
    <3> QED
      BY <3>1, Zenon DEF Sender, Timers
  <2>3. ASSUME NEW f \in Flows
        PROVE  /\ back[f] \in Seq(Reply)
               /\ qp[f].rate \in 1 .. LineRate /\ qp[f].target \in 1 .. LineRate
               /\ qp[f].rate > qp[f].target => \E s \in ParameterSets : qp[f].rate <= s.minRate
    BY <1>1 DEF IInv, FlowInv, RatesIn, Lifted
  <2>4. plus \in BOOLEAN /\ par \in ParameterSets /\ sent \in [Flows -> Arrivals]
    BY <1>1 DEF IInv
  <2> QED
    BY <2>1, <2>2, <2>3, <2>4, Zenon DEF TypeOK, Entry, Reply, Arrivals
<1> QED
  BY <1>1, Invariance, PTL

\* For any number of flows: the round robin of DCQCN+ visits every entry of the
\* receiver table once, stands on one of them and runs while there is one.
THEOREM SchedulerIsConsistent == Spec => []SchedulerConsistent
<1>1. ASSUME IInv PROVE SchedulerConsistent
  <2> DEFINE S == ToSet(rcv.order)
             n == Len(rcv.order)
  <2>1. rcv.order \in Seq(Flows) /\ n \in Nat /\ DOMAIN rcv.order = 1 .. n
    BY <1>1 DEF IInv, Listed, Receiver
  <2>2. S = {rcv.order[i] : i \in 1 .. n}
    BY <2>1 DEF ToSet
  <2>3. S = {f \in Flows : rcv.table[f].in}
    <3>1. ASSUME NEW f \in S PROVE f \in Flows /\ rcv.table[f].in
      <4>1. PICK i \in 1 .. n : f = rcv.order[i]
        BY <2>2
      <4>2. \A j \in 1 .. n : rcv.table[rcv.order[j]].in
        BY <1>1 DEF IInv, Listed
      <4> QED
        BY <4>1, <4>2, <2>1
    <3>2. ASSUME NEW f \in Flows, rcv.table[f].in PROVE f \in S
      <4>1. PICK i \in 1 .. n : rcv.order[i] = f
        BY <1>1, <3>2 DEF IInv, Listed
      <4> QED
        BY <4>1, <2>2
    <3> QED
      BY <3>1, <3>2
  <2>4. Cardinality(S) = n
    <3> DEFINE F == [i \in 1 .. n |-> rcv.order[i]]
    <3>1. F \in [1 .. n -> S] /\ \A x \in S : \E i \in 1 .. n : F[i] = x
      BY <2>2
    <3>2. \A i, j \in 1 .. n : F[i] = F[j] => i = j
      BY <1>1 DEF IInv, Listed
    <3>3. F \in Bijection(1 .. n, S)
      BY <3>1, <3>2 DEF Bijection, Injection, IsInjective, Surjection
    <3>4. ExistsBijection(1 .. n, S)
      BY <3>3 DEF ExistsBijection
    <3> QED
      BY <2>1, <3>4, FS_CountingElements
  <2> QED
    BY <1>1, <2>3, <2>4 DEF SchedulerConsistent, IInv, Scheduled
<1> QED
  BY <1>1, Invariance, PTL

\* For any number of flows and any replies under way: a completed QP has no timer
\* armed, but for the one that its last acknowledgement starts.
THEOREM TimersEnd == Spec => []TimersEndWithQp
<1>1. IInv => TimersEndWithQp
  BY DEF IInv, FlowInv, Complete, TimersEndWithQp
<1> QED
  BY <1>1, Invariance, PTL

=============================================================================
