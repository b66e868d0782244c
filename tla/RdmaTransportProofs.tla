------------------------- MODULE RdmaTransportProofs -------------------------
(***************************************************************************)
(* What the transport promises, for any flows, windows and losses.         *)
(***************************************************************************)
EXTENDS RdmaTransport, CountingProofs, SequenceTheorems, TLAPS

QpType == [nxt : Nat, una : Nat, avail : BOOLEAN, state : {"new", "open", "done"}]
TxPacket == [flow : Flows, seq : 0 .. SeqRange - 1, len : 0 .. Mtu]
NicType == [grp : Seq(Flows), rrlast : Nat, tx : {<<>>} \cup {<<p>> : p \in TxPacket},
            paused : SUBSET Classes, nextSend : SUBSET Flows, fault : BOOLEAN]
RxType == [exists : BOOLEAN, expected : 0 .. SeqRange - 1,
           nackDue : BOOLEAN, lastNACK : 0 .. SeqRange - 1]

Types ==
    /\ qp \in [Flows -> QpType] /\ nic \in NicType /\ rx \in [Flows -> RxType]
    /\ data \in [Flows -> Seq(Packet)] /\ acks \in [Flows -> Seq(Reply)]
    /\ taken \in [Flows -> Nat]
    /\ losses \in 0 .. MaxLoss /\ pauses \in 0 .. MaxPause

-----------------------------------------------------------------------------
(* Whatever is lost *)

\* Nothing is sent beyond the end of a flow.
QpBounded(Q, f) == Q[f].nxt <= Size[f]
TxBounded(N) == N.tx # <<>> => N.tx[1].seq + N.tx[1].len <= Size[N.tx[1].flow]
DataBounded(d, f) == \A i \in 1 .. Len(d) : d[i].seq + d[i].len <= Size[f]

\* Nothing is expected next or acknowledged beyond the bytes t that have come in.
RxBounded(r, t) == r.expected <= t /\ (~r.exists => r.expected = 0)
AcksBounded(a, t) == \A i \in 1 .. Len(a) : a[i].seq <= t

Bounded(f) ==
    /\ QpBounded(qp, f) /\ DataBounded(data[f], f)
    /\ qp[f].una <= taken[f] /\ taken[f] <= Size[f]
    /\ RxBounded(rx[f], taken[f]) /\ AcksBounded(acks[f], taken[f])

\* A queue pair whose snd_nxt is behind snd_una is held back by its window, for
\* the difference wraps.
Windowed == \A f \in Flows : Win[f] # 0 /\ Win[f] + Size[f] <= CounterRange

-----------------------------------------------------------------------------
(* As long as nothing is lost *)

\* The packets d are all the bytes between from and to, each of them once.
Line(d, from, to) ==
    /\ \A i \in 1 .. Len(d) : d[i].len > 0 /\ from <= d[i].seq /\ d[i].seq + d[i].len <= to
    /\ \A i, j \in 1 .. Len(d) : i < j => d[i].seq + d[i].len <= d[j].seq
    /\ \A i, j \in 1 .. Len(d) : j = i + 1 => d[j].seq = d[i].seq + d[i].len
    /\ d = <<>> => from = to
    /\ d # <<>> => d[1].seq = from /\ d[Len(d)].seq + d[Len(d)].len = to

Sending(N, f) == N.tx # <<>> /\ N.tx[1].flow = f
\* The bytes that have left the NIC.
Left(Q, N, f) == IF Sending(N, f) THEN N.tx[1].seq ELSE Q[f].nxt

\* The sending host has sent up to snd_nxt, and no more than its window.
HostInOrder(Q, N, f) ==
    /\ Sending(N, f) => N.tx[1].len > 0 /\ N.tx[1].seq + N.tx[1].len = Q[f].nxt
    /\ Win[f] # 0 => Q[f].nxt - Q[f].una < Win[f] + Mtu

Ends(q, r, t, f) ==
    /\ q.state # "done" => r.expected = t
    /\ q.state = "done" => q.una >= Size[f] /\ ~r.exists

InOrder(f) ==
    /\ HostInOrder(qp, nic, f)
    /\ Line(data[f], taken[f], Left(qp, nic, f))
    /\ \A i \in 1 .. Len(acks[f]) : acks[f][i].kind = "ack"
    /\ Ends(qp[f], rx[f], taken[f], f)

IInv ==
    /\ Types
    /\ TxBounded(nic)
    /\ \A f \in Flows : Bounded(f)
    /\ losses = 0 => \A f \in Flows : InOrder(f)
    /\ losses = 0 \/ Windowed => ~nic.fault

-----------------------------------------------------------------------------
(* The round robin *)

\* The queue pairs that may send have something left to be acknowledged.
Tame(Q, N) == \A f \in Flows : Ready(Q, N, f) => ~IsFinished(Q, f)

\* The round robin looks at positions of the group only.
LEMMA PositionInGroup ==
    ASSUME NEW N \in NicType, NEW k \in 1 .. Len(N.grp)
    PROVE  Position(N, k) \in 1 .. Len(N.grp)
<1>1. N.grp \in Seq(Flows) /\ N.rrlast \in Nat
  BY DEF NicType
<1>2. Len(N.grp) \in Nat \ {0} /\ k + N.rrlast \in Nat
  BY <1>1
<1>3. (k + N.rrlast) % Len(N.grp) \in 0 .. Len(N.grp) - 1
  BY <1>2
<1> QED
  BY <1>2, <1>3 DEF Position

\* A pick that is ready to send, and its position in the group.
LEMMA PickIsReady ==
    ASSUME NEW Q \in [Flows -> QpType], NEW N \in NicType, Hits(Q, N) # {}
    PROVE  LET p == Position(N, Min(Hits(Q, N)))
           IN  p \in 1 .. Len(N.grp) /\ Ready(Q, N, N.grp[p])
<1>1. N.grp \in Seq(Flows)
  BY DEF NicType
<1>2. Hits(Q, N) \subseteq 1 .. Len(N.grp) /\ Hits(Q, N) \subseteq Nat
  BY <1>1 DEF Hits
<1>3. Min(Hits(Q, N)) \in Hits(Q, N)
  BY <1>2, MinIsLeast
<1> QED
  BY <1>2, <1>3, PositionInGroup DEF Hits

\* Of the positions that stay, one that was in the group is found again.
LEMMA KeptGroup ==
    ASSUME NEW grp \in Seq(Flows), NEW S \in SUBSET (1 .. Len(grp))
    PROVE  /\ Kept(grp, S) \in Seq(Flows)
           /\ \A i \in S : /\ Rank(S, i) \in 1 .. Len(Kept(grp, S))
                           /\ Kept(grp, S)[Rank(S, i)] = grp[i]
<1>1. S \in SUBSET Nat /\ IsFiniteSet(S) /\ Cardinality(S) \in Nat
  <2>1. Len(grp) \in Nat
    OBVIOUS
  <2>2. IsFiniteSet(1 .. Len(grp))
    BY <2>1, FS_Interval
  <2>3. S \in SUBSET Nat
    BY <2>1
  <2> QED
    BY <2>2, <2>3, FS_Subset, FS_CardinalityType
<1>2. ASSUME NEW k \in 1 .. Cardinality(S) PROVE grp[Nth(S, k)] \in Flows
  <2>1. Nth(S, k) \in 1 .. Len(grp)
    BY <1>1, NthIsMember
  <2> QED
    BY <2>1, ElementOfSeq
<1>3. Kept(grp, S) \in Seq(Flows) /\ Len(Kept(grp, S)) = Cardinality(S)
  BY <1>1, <1>2, IsASeq, LenProperties DEF Kept
<1>4. ASSUME NEW i \in S
      PROVE  Rank(S, i) \in 1 .. Cardinality(S) /\ Kept(grp, S)[Rank(S, i)] = grp[i]
  <2>1. Rank(S, i) \in 1 .. Cardinality(S) /\ Nth(S, Rank(S, i)) = i
    BY <1>1, NthOfRank
  <2> QED
    BY <2>1 DEF Kept
<1> QED
  BY <1>3, <1>4

\* GetNextQindex leaves a group of queue pairs.  If no queue pair that may send
\* is finished, it picks none or one that may send, and returns the position
\* that it has after the finished ones were removed.
LEMMA NextQindex ==
    ASSUME NEW Q \in [Flows -> QpType], NEW N \in NicType
    PROVE  LET next == GetNextQindex(Q, N)
           IN  /\ next.grp \in Seq(Flows) /\ next.res \in Nat
               /\ Tame(Q, N) /\ next.res # Unpicked =>
                     /\ next.res \in 1 .. Len(next.grp)
                     /\ Ready(Q, N, next.grp[next.res])
<1> DEFINE hits == Hits(Q, N)
           met == FinishedMet(Q, N, hits)
           pick == IF hits = {} THEN Unpicked ELSE Position(N, Min(hits))
           stays == Stays(Q, N.grp, Min(met))
           next == GetNextQindex(Q, N)
<1>1. N.grp \in Seq(Flows)
  BY DEF NicType
<1>2. /\ pick \in Nat
      /\ pick # Unpicked => pick \in 1 .. Len(N.grp) /\ Ready(Q, N, N.grp[pick])
  BY PickIsReady DEF Unpicked
<1>3. CASE met = {}
  <2>1. next = [grp |-> N.grp, res |-> pick]
    BY <1>3 DEF GetNextQindex
  <2> QED
    BY <1>1, <1>2, <2>1
<1>4. CASE met # {}
  <2>1. next = [grp |-> Kept(N.grp, stays),
                res |-> IF pick \in stays THEN Rank(stays, pick) ELSE pick]
    BY <1>4 DEF GetNextQindex, Cleared
  <2>2. stays \in SUBSET (1 .. Len(N.grp))
    BY DEF Stays
  <2>3. /\ Kept(N.grp, stays) \in Seq(Flows)
        /\ pick \in stays => /\ Rank(stays, pick) \in 1 .. Len(Kept(N.grp, stays))
                             /\ Kept(N.grp, stays)[Rank(stays, pick)] = N.grp[pick]
    BY <1>1, <2>2, KeptGroup
  <2>4. next.res \in Nat
    BY <1>2, <2>1, <2>3
  <2>5. ASSUME Tame(Q, N), pick # Unpicked PROVE pick \in stays
    BY <1>1, <1>2, <2>5 DEF Tame, Stays
  <2>6. Unpicked \notin stays
    BY <2>2 DEF Unpicked
  <2> HIDE DEF hits, met, stays, pick, next
  <2>7. ASSUME Tame(Q, N), next.res # Unpicked
        PROVE  next.res \in 1 .. Len(next.grp) /\ Ready(Q, N, next.grp[next.res])
    <3>1. pick # Unpicked
      BY <2>1, <2>6, <2>7
    <3> QED
      BY <1>2, <2>1, <2>3, <2>5, <2>7, <3>1
  <2> QED
    BY <2>1, <2>3, <2>4, <2>7 DEF next
<1> QED
  BY <1>3, <1>4

-----------------------------------------------------------------------------
(* DequeueAndTransmit *)

HostType == [qp : [Flows -> QpType], nic : NicType]

\* Nothing is sent, or one packet of the queue pair of flow g.
Quiet(s, t) == t.qp = s.qp /\ t.nic.tx = s.nic.tx
Sends(s, t, g) ==
    /\ s.nic.tx = <<>>
    /\ t.qp = [s.qp EXCEPT ![g] = t.qp[g]]
    /\ t.qp[g].una = s.qp[g].una /\ t.qp[g].state = s.qp[g].state
    /\ t.nic.tx = <<[flow |-> g, seq |-> s.qp[g].nxt, len |-> t.nic.tx[1].len]>>
    /\ t.nic.tx[1].len \in 0 .. Mtu
    /\ t.qp[g].nxt = s.qp[g].nxt + t.nic.tx[1].len
    /\ t.qp[g].nxt <= Size[g]
    /\ Tame(s.qp, s.nic) => t.nic.tx[1].len > 0 /\ ~IsWinBound(s.qp, g)

\* A number below the modulus is its own remainder.
LEMMA SmallMod ==
    ASSUME NEW a \in Nat, NEW b \in Nat, a < b
    PROVE  a % b = a
OBVIOUS

\* The sequence number and the length of a packet do not wrap.
LEMMA SendStep ==
    ASSUME NEW s \in HostType, NEW g \in Flows, NEW pos \in Nat \ {0},
           QpBounded(s.qp, g), s.nic.tx = <<>>,
           Tame(s.qp, s.nic) => Ready(s.qp, s.nic, g)
    PROVE  LET t == SendNxtPacket(s, g, pos)
           IN  t \in HostType /\ Sends(s, t, g) /\ t.nic.fault = s.nic.fault
<1> DEFINE left == GetBytesLeft(s.qp, g) % SeqRange
           len == IF Mtu < left THEN Mtu ELSE left
           pkt == [flow |-> g, seq |-> s.qp[g].nxt % SeqRange, len |-> len]
           q == [s.qp[g] EXCEPT !.nxt = @ + len, !.avail = FALSE]
           n == [s.nic EXCEPT !.rrlast = pos - 1, !.tx = <<pkt>>]
           t == SendNxtPacket(s, g, pos)
<1>1. /\ s.qp \in [Flows -> QpType] /\ s.qp[g] \in QpType /\ s.nic \in NicType
      /\ s.qp[g].nxt \in Nat
  BY DEF HostType, QpType
<1>2. /\ Size[g] \in Nat /\ Mtu \in Nat \ {0} /\ SeqRange \in Nat /\ Size[g] < SeqRange
      /\ s.qp[g].nxt <= Size[g]
  BY TransportAssumption DEF QpBounded
<1>3. GetBytesLeft(s.qp, g) = Size[g] - s.qp[g].nxt
  BY <1>1, <1>2 DEF GetBytesLeft
<1>4. left = Size[g] - s.qp[g].nxt /\ s.qp[g].nxt % SeqRange = s.qp[g].nxt
  <2>1. Size[g] - s.qp[g].nxt \in Nat /\ Size[g] - s.qp[g].nxt < SeqRange
    BY <1>1, <1>2
  <2>2. s.qp[g].nxt < SeqRange
    BY <1>1, <1>2
  <2> QED
    BY <1>1, <1>2, <1>3, <2>1, <2>2, SmallMod
<1> HIDE DEF left
<1>5. len \in 0 .. Mtu /\ s.qp[g].nxt + len <= Size[g] /\ s.qp[g].nxt + len \in Nat
  <2>0. left = Size[g] - s.qp[g].nxt
    BY <1>4
  <2>1. left \in Nat /\ s.qp[g].nxt + left = Size[g]
    BY <1>1, <1>2, <2>0
  <2>2. len \in Nat /\ len <= Mtu /\ len <= left
    BY <1>2, <2>1
  <2> HIDE DEF len
  <2> QED
    BY <1>1, <1>2, <2>1, <2>2
<1>6. Tame(s.qp, s.nic) => len > 0 /\ ~IsWinBound(s.qp, g)
  BY <1>1, <1>2, <1>3, <1>4 DEF Ready
<1>7. t = [qp |-> [s.qp EXCEPT ![g] = q], nic |-> n]
  BY DEF SendNxtPacket, left
<1>8. pkt \in TxPacket /\ pkt.flow = g /\ pkt.seq = s.qp[g].nxt /\ pkt.len = len
  <2>1. s.qp[g].nxt \in 0 .. SeqRange - 1
    BY <1>1, <1>2
  <2> QED
    BY <1>4, <1>5, <2>1 DEF TxPacket
<1> HIDE DEF len, left
<1>9. q \in QpType /\ q.una = s.qp[g].una /\ q.state = s.qp[g].state
      /\ q.nxt = s.qp[g].nxt + len
  BY <1>1, <1>5, Zenon DEF QpType
<1> HIDE DEF pkt
<1>10. n \in NicType /\ n.tx = <<pkt>> /\ n.fault = s.nic.fault
  <2>1. pos - 1 \in Nat
    OBVIOUS
  <2>2. <<pkt>> \in {<<p>> : p \in TxPacket}
    BY <1>8
  <2> QED
    BY <1>1, <2>1, <2>2, Zenon DEF NicType
<1> HIDE DEF q, n, t
<1>11. t.qp = [s.qp EXCEPT ![g] = q] /\ t.nic = n /\ t.qp[g] = q
  BY <1>1, <1>7
<1>12. t \in HostType
  BY <1>1, <1>7, <1>9, <1>10 DEF HostType
<1>13. t.nic.tx[1] = pkt
  BY <1>10, <1>11
<1>14. <<pkt>> = <<[flow |-> g, seq |-> s.qp[g].nxt, len |-> pkt.len]>>
  BY <1>4, <1>8 DEF pkt
<1>15. Sends(s, t, g)
  BY <1>5, <1>6, <1>8, <1>9, <1>10, <1>11, <1>13, <1>14 DEF Sends
<1> QED
  BY <1>10, <1>11, <1>12, <1>15 DEF t

\* A send event changes nothing that matters for what is sent.
LEMMA ScheduleStep ==
    ASSUME NEW s \in HostType
    PROVE  LET t == ScheduleNextSend(s)
           IN  t \in HostType /\ Quiet(s, t) /\ t.nic.fault = s.nic.fault
<1> DEFINE W == {f \in Flows : /\ GetBytesLeft(s.qp, f) > 0
                               /\ \E i \in 1 .. Len(s.nic.grp) : s.nic.grp[i] = f}
           t == ScheduleNextSend(s)
           n == [s.nic EXCEPT !.nextSend = W]
<1>1. W \in SUBSET Flows /\ s.nic \in NicType
  BY DEF HostType
<1>2. t = s \/ t = [s EXCEPT !.nic.nextSend = W]
  BY DEF ScheduleNextSend
<1> HIDE DEF W, t
<1>3. n \in NicType /\ n.tx = s.nic.tx /\ n.fault = s.nic.fault
  BY <1>1, Zenon DEF NicType
<1>4. CASE t = s
  BY <1>4 DEF Quiet, t
<1>5. CASE t = [s EXCEPT !.nic.nextSend = W]
  <2>1. t = [s EXCEPT !.nic = n]
    BY <1>1, <1>5 DEF HostType
  <2> HIDE DEF n
  <2> QED
    BY <1>3, <2>1 DEF HostType, Quiet, t
<1> QED
  BY <1>2, <1>4, <1>5

\* DequeueAndTransmit sends one packet at most, and reads m_qps within its bounds
\* if no queue pair that may send is finished.
LEMMA DequeueStep ==
    ASSUME NEW s \in HostType, \A f \in Flows : QpBounded(s.qp, f)
    PROVE  LET t == DequeueAndTransmit(s)
           IN  /\ t \in HostType
               /\ Quiet(s, t) \/ \E g \in Flows : Sends(s, t, g)
               /\ Tame(s.qp, s.nic) => t.nic.fault = s.nic.fault
<1> DEFINE t == DequeueAndTransmit(s)
           next == GetNextQindex(s.qp, s.nic)
           n == [s.nic EXCEPT !.grp = next.grp]
           u == [s EXCEPT !.nic.grp = next.grp]
<1>1. s.qp \in [Flows -> QpType] /\ s.nic \in NicType
  BY DEF HostType
<1>2. CASE s.nic.tx # <<>>
  BY <1>2 DEF DequeueAndTransmit, Quiet
<1>3. CASE s.nic.tx = <<>>
  <2>1. /\ next.grp \in Seq(Flows) /\ next.res \in Nat
        /\ Tame(s.qp, s.nic) /\ next.res # Unpicked =>
              /\ next.res \in 1 .. Len(next.grp)
              /\ Ready(s.qp, s.nic, next.grp[next.res])
    BY <1>1, NextQindex
  <2>2. t = DequeueQindex(s, next)
    BY <1>3 DEF DequeueAndTransmit
  <2> HIDE DEF next, t
  <2>3. n \in NicType /\ n.tx = <<>> /\ n.fault = s.nic.fault /\ n.paused = s.nic.paused
    BY <1>1, <1>3, <2>1, Zenon DEF NicType
  <2>4. u \in HostType /\ u.qp = s.qp /\ u.nic = n
    <3>1. u = [s EXCEPT !.nic = n]
      BY <1>1 DEF HostType
    <3> HIDE DEF n, u
    <3> QED
      BY <1>1, <2>3, <3>1 DEF HostType
  <2> HIDE DEF n
  <2>5. \A f \in Flows : Ready(u.qp, u.nic, f) <=> Ready(s.qp, s.nic, f)
    BY <2>3, <2>4 DEF Ready
  <2>6. Tame(u.qp, u.nic) <=> Tame(s.qp, s.nic)
    BY <2>4, <2>5 DEF Tame
  <2>7. CASE next.res = Unpicked
    <3>1. t = ScheduleNextSend(u)
      BY <2>2, <2>7 DEF DequeueQindex
    <3> HIDE DEF u
    <3>2. t \in HostType /\ Quiet(u, t) /\ t.nic.fault = u.nic.fault
      BY <2>4, <3>1, ScheduleStep
    <3> QED
      BY <1>3, <2>3, <2>4, <3>2 DEF Quiet, t
  <2>8. CASE next.res # Unpicked /\ next.res > Len(next.grp)
    <3> DEFINE m == [n EXCEPT !.fault = TRUE]
    <3>1. t = [s EXCEPT !.nic.grp = next.grp, !.nic.fault = TRUE]
      BY <2>2, <2>8 DEF DequeueQindex
    <3>2. t = [u EXCEPT !.nic = m]
      BY <1>1, <2>4, <3>1 DEF HostType
    <3>3. m \in NicType /\ m.tx = <<>>
      BY <2>3, Zenon DEF NicType
    <3> HIDE DEF m, u
    <3>4. t \in HostType /\ t.qp = u.qp /\ t.nic = m
      BY <2>4, <3>2, <3>3 DEF HostType
    <3>5. ~Tame(s.qp, s.nic)
      BY <2>1, <2>8
    <3> QED
      BY <1>3, <2>4, <3>3, <3>4, <3>5 DEF Quiet, t
  <2>9. CASE next.res # Unpicked /\ ~(next.res > Len(next.grp))
    <3> DEFINE g == next.grp[next.res]
    <3>1. t = SendNxtPacket(u, g, next.res)
      BY <2>2, <2>9 DEF DequeueQindex
    <3>2. g \in Flows /\ next.res \in Nat \ {0}
      BY <2>1, <2>9 DEF Unpicked
    <3>3. Tame(u.qp, u.nic) => Ready(u.qp, u.nic, g)
      BY <2>1, <2>5, <2>6, <2>9, <3>2
    <3> HIDE DEF g, u
    <3>4. t \in HostType /\ Sends(u, t, g) /\ t.nic.fault = u.nic.fault
      BY <2>3, <2>4, <3>1, <3>2, <3>3, SendStep
    <3>5. Sends(s, t, g)
      BY <1>3, <2>4, <2>6, <3>4 DEF Sends, IsWinBound, GetOnTheFly
    <3> QED
      BY <2>3, <2>4, <3>2, <3>4, <3>5 DEF t
  <2> QED
    BY <2>7, <2>8, <2>9
<1> QED
  BY <1>2, <1>3

\* What an event leaves of the host, before it calls DequeueAndTransmit.
HostReady(s) ==
    /\ s \in HostType /\ ~s.nic.fault
    /\ TxBounded(s.nic)
    /\ \A f \in Flows : QpBounded(s.qp, f) /\ s.qp[f].una <= taken[f]
    /\ losses = 0 => \A f \in Flows : /\ HostInOrder(s.qp, s.nic, f)
                                      /\ taken[f] <= Left(s.qp, s.nic, f)

\* No queue pair that may send is finished, if nothing was lost or if there are
\* windows.
LEMMA HostIsTame ==
    ASSUME Types, \A f \in Flows : taken[f] <= Size[f],
           NEW s, HostReady(s), losses = 0 \/ Windowed
    PROVE  Tame(s.qp, s.nic)
<1> SUFFICES ASSUME NEW f \in Flows, Ready(s.qp, s.nic, f)
             PROVE  ~IsFinished(s.qp, f)
  BY DEF Tame
<1> DEFINE nxt == s.qp[f].nxt
           una == s.qp[f].una
<1>1. /\ nxt \in Nat /\ una \in Nat /\ taken[f] \in Nat /\ Size[f] \in Nat
      /\ nxt <= Size[f] /\ una <= taken[f] /\ taken[f] <= Size[f]
  BY TransportAssumption DEF HostReady, HostType, QpType, Types, QpBounded
<1>2. nxt < Size[f]
  BY <1>1 DEF Ready, GetBytesLeft
<1>3. una <= nxt
  <2>1. CASE losses = 0
    <3>1. taken[f] <= Left(s.qp, s.nic, f) /\ HostInOrder(s.qp, s.nic, f)
      BY <2>1 DEF HostReady
    <3>2. s.nic.tx # <<>> => s.nic.tx[1] \in TxPacket
      BY DEF HostReady, HostType, NicType
    <3>3. CASE Sending(s.nic, f)
      <4>1. s.nic.tx[1].seq \in Int /\ s.nic.tx[1].len \in Int
        BY <3>2, <3>3, TransportAssumption DEF Sending, TxPacket
      <4>2. /\ taken[f] <= s.nic.tx[1].seq /\ s.nic.tx[1].len > 0
            /\ s.nic.tx[1].seq + s.nic.tx[1].len = nxt
        BY <3>1, <3>3 DEF Left, HostInOrder
      <4> QED
        BY <1>1, <4>1, <4>2
    <3>4. CASE ~Sending(s.nic, f)
      BY <1>1, <3>1, <3>4 DEF Left
    <3> QED
      BY <3>3, <3>4
  <2>2. CASE Windowed
    <3>1. Win[f] \in Nat /\ Win[f] # 0 /\ Win[f] + Size[f] <= CounterRange
          /\ CounterRange \in Nat
      BY <2>2, TransportAssumption DEF Windowed
    <3>2. (nxt - una) % CounterRange < Win[f]
      <4>1. ~(GetOnTheFly(s.qp, f) >= Win[f])
        BY <3>1 DEF Ready, IsWinBound
      <4>2. GetOnTheFly(s.qp, f) = (nxt - una) % CounterRange
        BY DEF GetOnTheFly
      <4> HIDE DEF nxt, una
      <4>3. (nxt - una) % CounterRange \in 0 .. CounterRange - 1
        BY <1>1, <3>1
      <4> QED
        BY <3>1, <4>1, <4>2, <4>3
    <3> HIDE DEF nxt, una
    <3>3. ASSUME una > nxt PROVE FALSE
      <4>1. (nxt - una) % CounterRange = nxt - una + CounterRange
        BY <1>1, <3>1, <3>3
      <4> QED
        BY <1>1, <3>1, <3>2, <3>3, <4>1
    <3> QED
      BY <1>1, <3>3
  <2> QED
    BY <2>1, <2>2
<1> QED
  BY <1>1, <1>2, <1>3 DEF IsFinished

\* The host after an event that brought it to s, and transmitted or not.
HostAfter(s) ==
    /\ qp' \in [Flows -> QpType] /\ nic' \in NicType /\ TxBounded(nic')
    /\ \A f \in Flows :
          /\ QpBounded(qp', f)
          /\ qp'[f].una = s.qp[f].una /\ qp'[f].state = s.qp[f].state
          /\ Left(qp', nic', f) = Left(s.qp, s.nic, f)
    /\ losses = 0 => \A f \in Flows : HostInOrder(qp', nic', f)
    /\ losses = 0 \/ Windowed => ~nic'.fault

\* What is true of the host before DequeueAndTransmit is true after it.
LEMMA TransmitFrame ==
    ASSUME Types, \A f \in Flows : taken[f] <= Size[f],
           NEW s, HostReady(s), Transmits(s.qp, s.nic)
    PROVE  HostAfter(s)
<1> DEFINE t == DequeueAndTransmit(s)
<1>1. /\ s \in HostType /\ ~s.nic.fault /\ TxBounded(s.nic)
      /\ \A f \in Flows : QpBounded(s.qp, f)
  BY DEF HostReady
<1>2. qp' = t.qp /\ nic' = t.nic
  <2>1. s = [qp |-> s.qp, nic |-> s.nic]
    BY <1>1 DEF HostType
  <2> QED
    BY <2>1 DEF Transmits
<1>3. losses = 0 \/ Windowed => Tame(s.qp, s.nic)
  BY HostIsTame
<1>4. /\ t \in HostType
      /\ Quiet(s, t) \/ \E g \in Flows : Sends(s, t, g)
      /\ Tame(s.qp, s.nic) => t.nic.fault = s.nic.fault
  BY <1>1, DequeueStep
<1> HIDE DEF t
<1>5. qp' \in [Flows -> QpType] /\ nic' \in NicType
  BY <1>2, <1>4 DEF HostType
<1>6. losses = 0 \/ Windowed => ~nic'.fault
  BY <1>1, <1>2, <1>3, <1>4
<1>7. CASE Quiet(s, t)
  <2>1. qp' = s.qp /\ nic'.tx = s.nic.tx
    BY <1>2, <1>7 DEF Quiet
  <2>2. TxBounded(nic')
    BY <1>1, <2>1 DEF TxBounded
  <2>3. \A f \in Flows : Left(qp', nic', f) = Left(s.qp, s.nic, f)
    BY <2>1 DEF Left, Sending
  <2>4. losses = 0 => \A f \in Flows : HostInOrder(qp', nic', f)
    BY <2>1 DEF HostReady, HostInOrder, Sending
  <2> QED
    BY <1>1, <1>5, <1>6, <2>1, <2>2, <2>3, <2>4 DEF HostAfter
<1>8. ASSUME NEW g \in Flows, Sends(s, t, g)
      PROVE  /\ TxBounded(nic')
             /\ \A f \in Flows :
                   /\ QpBounded(qp', f)
                   /\ qp'[f].una = s.qp[f].una /\ qp'[f].state = s.qp[f].state
                   /\ Left(qp', nic', f) = Left(s.qp, s.nic, f)
             /\ losses = 0 => \A f \in Flows : HostInOrder(qp', nic', f)
  <2> DEFINE p == nic'.tx[1]
  <2>1. /\ s.nic.tx = <<>> /\ nic'.tx # <<>>
        /\ p.flow = g /\ p.seq = s.qp[g].nxt /\ p.len \in 0 .. Mtu
    BY <1>2, <1>8 DEF Sends
  <2>2. /\ qp'[g].nxt = s.qp[g].nxt + p.len /\ qp'[g].nxt <= Size[g]
        /\ qp'[g].una = s.qp[g].una /\ qp'[g].state = s.qp[g].state
    BY <1>2, <1>8 DEF Sends
  <2>3. \A f \in Flows : f # g => qp'[f] = s.qp[f]
    BY <1>1, <1>2, <1>8 DEF Sends, HostType
  <2>4. losses = 0 => p.len > 0 /\ ~IsWinBound(s.qp, g)
    BY <1>2, <1>3, <1>8 DEF Sends
  <2> HIDE DEF p
  <2>5. TxBounded(nic')
    BY <2>1, <2>2 DEF TxBounded, p
  <2>6. \A f \in Flows : ~Sending(s.nic, f) /\ (Sending(nic', f) <=> f = g)
    BY <2>1 DEF Sending, p
  <2>7. \A f \in Flows : Left(qp', nic', f) = Left(s.qp, s.nic, f)
    BY <2>1, <2>3, <2>6 DEF Left, p
  <2>8. \A f \in Flows : QpBounded(qp', f) /\ qp'[f].una = s.qp[f].una
                         /\ qp'[f].state = s.qp[f].state
    BY <1>1, <2>2, <2>3 DEF QpBounded
  <2>9. ASSUME losses = 0, NEW f \in Flows PROVE HostInOrder(qp', nic', f)
    <3>1. HostInOrder(s.qp, s.nic, f) /\ s.qp[f].una <= taken[f]
          /\ taken[f] <= Left(s.qp, s.nic, f)
      BY <2>9 DEF HostReady
    <3>2. CASE f # g
      BY <2>3, <2>6, <3>1, <3>2 DEF HostInOrder
    <3>3. CASE f = g
      <4> DEFINE nxt == s.qp[g].nxt
                 una == s.qp[g].una
      <4>1. /\ nxt \in Nat /\ una \in Nat /\ taken[g] \in Nat /\ Size[g] \in Nat
            /\ Mtu \in Nat /\ Win[g] \in Nat /\ CounterRange \in Nat
            /\ Size[g] < CounterRange /\ p.len \in Nat /\ p.len <= Mtu
        <5>1. nxt \in Nat /\ una \in Nat /\ taken[g] \in Nat
          BY <1>1 DEF HostType, QpType, Types
        <5>2. /\ Size[g] \in Nat /\ Mtu \in Nat /\ Win[g] \in Nat /\ CounterRange \in Nat
              /\ SeqRange \in Nat /\ Size[g] + Mtu < SeqRange /\ SeqRange <= CounterRange
          BY TransportAssumption
        <5>3. p.len \in Nat /\ p.len <= Mtu
          BY <2>1, <5>2
        <5> QED
          BY <5>1, <5>2, <5>3
      <4>2. una <= nxt /\ nxt <= Size[g]
        BY <1>1, <2>6, <3>1, <3>3, <4>1 DEF Left, QpBounded
      <4>3. ASSUME Win[g] # 0 PROVE nxt - una < Win[g]
        <5>1. ~((nxt - una) % CounterRange >= Win[g])
          BY <2>4, <2>9, <4>3 DEF IsWinBound, GetOnTheFly
        <5> HIDE DEF nxt, una
        <5>2. nxt - una \in Nat /\ nxt - una < CounterRange
          BY <4>1, <4>2
        <5>3. (nxt - una) % CounterRange = nxt - una
          BY <4>1, <5>2, SmallMod
        <5> QED
          BY <4>1, <5>1, <5>2, <5>3
      <4>4. qp'[g].nxt = nxt + p.len /\ qp'[g].una = una /\ p.seq = nxt /\ p.len > 0
        BY <2>1, <2>2, <2>4, <2>9
      <4> HIDE DEF nxt, una
      <4>5. Win[g] # 0 => qp'[g].nxt - qp'[g].una < Win[g] + Mtu
        BY <4>1, <4>2, <4>3, <4>4
      <4> QED
        BY <3>3, <4>4, <4>5 DEF HostInOrder, p
    <3> QED
      BY <3>2, <3>3
  <2> QED
    BY <2>5, <2>7, <2>8, <2>9
<1> QED
  BY <1>4, <1>5, <1>6, <1>7, <1>8 DEF HostAfter

-----------------------------------------------------------------------------
(* Events *)

\* The event brings the host to s, and transmits or not.
Reaches(s) == Transmits(s.qp, s.nic) \/ (qp' = s.qp /\ nic' = s.nic)

\* An event that brings the host to s keeps the invariant, if what it does to the
\* channels and to the receivers agrees with s.
LEMMA HostFrame ==
    ASSUME IInv, NEW s, HostReady(s), Reaches(s),
           rx' \in [Flows -> RxType], data' \in [Flows -> Seq(Packet)],
           acks' \in [Flows -> Seq(Reply)], UNCHANGED <<taken, losses, pauses>>,
           \A f \in Flows : /\ DataBounded(data'[f], f)
                            /\ RxBounded(rx'[f], taken[f])
                            /\ AcksBounded(acks'[f], taken[f]),
           losses = 0 => \A f \in Flows :
               /\ Line(data'[f], taken[f], Left(s.qp, s.nic, f))
               /\ \A i \in 1 .. Len(acks'[f]) : acks'[f][i].kind = "ack"
               /\ Ends(s.qp[f], rx'[f], taken[f], f)
    PROVE  IInv'
<1>1. Types /\ \A f \in Flows : taken[f] <= Size[f]
  BY DEF IInv, Bounded
<1>2. HostAfter(s)
  <2>1. CASE Transmits(s.qp, s.nic)
    BY <1>1, <2>1, TransmitFrame
  <2>2. CASE qp' = s.qp /\ nic' = s.nic
    BY <2>2 DEF HostAfter, HostReady, HostType
  <2> QED
    BY <2>1, <2>2 DEF Reaches
<1>3. taken' = taken /\ losses' = losses /\ pauses' = pauses
  OBVIOUS
<1>4. Types'
  BY <1>1, <1>2, <1>3 DEF Types, HostAfter
<1>5. TxBounded(nic)'
  BY <1>2 DEF HostAfter, TxBounded
<1>6. ASSUME NEW f \in Flows PROVE Bounded(f)'
  <2>1. qp'[f].una <= taken[f] /\ QpBounded(qp', f)
    BY <1>2 DEF HostAfter, HostReady
  <2> QED
    BY <1>1, <1>3, <2>1 DEF Bounded, QpBounded, DataBounded, RxBounded, AcksBounded
<1>7. ASSUME losses = 0, NEW f \in Flows PROVE InOrder(f)'
  <2>1. HostInOrder(qp', nic', f) /\ Left(qp', nic', f) = Left(s.qp, s.nic, f)
        /\ qp'[f].una = s.qp[f].una /\ qp'[f].state = s.qp[f].state
    BY <1>2, <1>7 DEF HostAfter
  <2>2. Ends(qp'[f], rx'[f], taken[f], f)
    BY <1>7, <2>1 DEF Ends
  <2>3. Line(data'[f], taken'[f], Left(qp', nic', f))
    BY <1>3, <1>7, <2>1
  <2> QED
    BY <1>3, <1>7, <2>1, <2>2, <2>3 DEF InOrder, HostInOrder, Sending, Left, Ends, Line
<1>8. losses' = 0 \/ Windowed' => ~nic'.fault
  BY <1>2, <1>3 DEF HostAfter, Windowed
<1> QED
  BY <1>3, <1>4, <1>5, <1>6, <1>7, <1>8 DEF IInv

\* The numbers of packets.
LEMMA PacketNumbers ==
    /\ \A p \in Packet : p.seq \in Nat /\ p.len \in Nat /\ p.seq < SeqRange /\ p.len <= Mtu
    /\ \A d \in Seq(Packet) : \A i \in 1 .. Len(d) :
          d[i] \in Packet /\ d[i].seq \in Nat /\ d[i].len \in Nat
<1>1. SeqRange \in Nat /\ Mtu \in Nat
  BY TransportAssumption
<1>2. ASSUME NEW p \in Packet
      PROVE  p.seq \in Nat /\ p.len \in Nat /\ p.seq < SeqRange /\ p.len <= Mtu
  <2>1. p.seq \in 0 .. SeqRange - 1 /\ p.len \in 0 .. Mtu
    BY DEF Packet
  <2> QED
    BY <1>1, <2>1
<1>3. ASSUME NEW d \in Seq(Packet), NEW i \in 1 .. Len(d) PROVE d[i] \in Packet
  OBVIOUS
<1> QED
  BY <1>2, <1>3

\* A line of packets does not end before it begins.
LEMMA LineOrder ==
    ASSUME NEW d \in Seq(Packet), NEW from \in Nat, NEW to \in Nat, Line(d, from, to)
    PROVE  from <= to
<1>1. CASE d = <<>>
  BY <1>1 DEF Line
<1>2. CASE d # <<>>
  <2>1. d[1] \in Packet /\ 1 \in 1 .. Len(d)
    BY <1>2
  <2>2. d[1].len \in Nat /\ d[1].seq \in Nat
    BY <2>1, TransportAssumption DEF Packet
  <2> QED
    BY <1>2, <2>1, <2>2 DEF Line
<1> QED
  BY <1>1, <1>2

\* What has left the NIC is a number up to snd_nxt.
LEMMA LeftType ==
    ASSUME IInv, NEW f \in Flows
    PROVE  Left(qp, nic, f) \in Nat /\ qp[f].nxt \in Nat /\ qp[f].una \in Nat
<1>1. qp[f] \in QpType /\ nic \in NicType
  BY DEF IInv, Types
<1>2. nic.tx # <<>> => nic.tx[1] \in TxPacket
  BY <1>1 DEF NicType
<1>3. nic.tx # <<>> => nic.tx[1].seq \in Nat
  BY <1>2, TransportAssumption DEF TxPacket
<1> QED
  BY <1>1, <1>3 DEF Left, Sending, QpType

\* A host that has sent and got acknowledged what the host has now, is ready.
LEMMA HostChange ==
    ASSUME IInv, ~nic.fault, NEW s \in HostType, s.nic.tx = nic.tx, ~s.nic.fault,
           \A f \in Flows : s.qp[f].nxt = qp[f].nxt /\ s.qp[f].una = qp[f].una
    PROVE  HostReady(s) /\ \A f \in Flows : Left(s.qp, s.nic, f) = Left(qp, nic, f)
<1>1. TxBounded(s.nic)
  BY DEF IInv, TxBounded
<1>2. \A f \in Flows : QpBounded(s.qp, f) /\ s.qp[f].una <= taken[f]
  BY DEF IInv, Bounded, QpBounded
<1>3. \A f \in Flows : Left(s.qp, s.nic, f) = Left(qp, nic, f)
  BY DEF Left, Sending
<1>4. ASSUME losses = 0, NEW f \in Flows
      PROVE  HostInOrder(s.qp, s.nic, f) /\ taken[f] <= Left(s.qp, s.nic, f)
  <2>1. HostInOrder(qp, nic, f) /\ Line(data[f], taken[f], Left(qp, nic, f))
    BY <1>4 DEF IInv, InOrder
  <2>2. data[f] \in Seq(Packet) /\ taken[f] \in Nat
    BY DEF IInv, Types
  <2>3. taken[f] <= Left(qp, nic, f)
    BY <2>1, <2>2, LeftType, LineOrder
  <2> QED
    BY <1>3, <2>1, <2>3 DEF HostInOrder, Sending
<1> QED
  BY <1>1, <1>2, <1>3, <1>4 DEF HostReady

\* Such a change of the host alone, followed by DequeueAndTransmit or not.
LEMMA HostOnly ==
    ASSUME IInv, ~nic.fault, NEW s \in HostType, s.nic.tx = nic.tx, ~s.nic.fault,
           \A f \in Flows : /\ s.qp[f].nxt = qp[f].nxt /\ s.qp[f].una = qp[f].una
                            /\ s.qp[f].state = "done" <=> qp[f].state = "done",
           Reaches(s),
           UNCHANGED <<rx, data, acks, taken, losses, pauses>>
    PROVE  IInv'
<1>1. HostReady(s) /\ \A f \in Flows : Left(s.qp, s.nic, f) = Left(qp, nic, f)
  BY HostChange
<1>2. /\ rx' \in [Flows -> RxType] /\ data' \in [Flows -> Seq(Packet)]
      /\ acks' \in [Flows -> Seq(Reply)]
  BY DEF IInv, Types
<1>3. \A f \in Flows : /\ DataBounded(data'[f], f) /\ RxBounded(rx'[f], taken[f])
                       /\ AcksBounded(acks'[f], taken[f])
  BY DEF IInv, Bounded
<1>4. ASSUME losses = 0, NEW f \in Flows
      PROVE  /\ Line(data'[f], taken[f], Left(s.qp, s.nic, f))
             /\ \A i \in 1 .. Len(acks'[f]) : acks'[f][i].kind = "ack"
             /\ Ends(s.qp[f], rx'[f], taken[f], f)
  <2>1. InOrder(f)
    BY <1>4 DEF IInv
  <2>2. Ends(s.qp[f], rx'[f], taken[f], f)
    BY <2>1 DEF InOrder, Ends
  <2> QED
    BY <1>1, <2>1, <2>2 DEF InOrder
<1> QED
  BY <1>1, <1>2, <1>3, <1>4, HostFrame

\* The record of a queue pair, and of the NIC, with one field changed.
LEMMA QpChange ==
    ASSUME NEW q \in QpType
    PROVE  /\ [q EXCEPT !.state = "open"] \in QpType
           /\ [q EXCEPT !.state = "done"] \in QpType
           /\ [q EXCEPT !.avail = TRUE] \in QpType
           /\ \A n \in Nat : [q EXCEPT !.una = n] \in QpType /\ [q EXCEPT !.nxt = n] \in QpType
BY Zenon DEF QpType

\* The NIC with one field changed.
LEMMA NicChange ==
    ASSUME NEW n \in NicType
    PROVE  /\ \A g \in Seq(Flows) : [n EXCEPT !.grp = g] \in NicType
           /\ \A p \in SUBSET Classes : [n EXCEPT !.paused = p] \in NicType
           /\ [n EXCEPT !.nextSend = {}] \in NicType
           /\ [n EXCEPT !.tx = <<>>] \in NicType
BY Zenon DEF NicType

\* A flow starts: its queue pair joins the group.
LEMMA AddQueuePairStep == ASSUME IInv, NEW f \in Flows, AddQueuePair(f) PROVE IInv'
<1> DEFINE Q == [qp EXCEPT ![f].state = "open"]
           N == [nic EXCEPT !.grp = Append(nic.grp, f)]
           s == [qp |-> Q, nic |-> N]
<1>1. /\ ~nic.fault /\ qp[f].state = "new" /\ Transmits(Q, N)
      /\ UNCHANGED <<rx, data, acks, taken, losses, pauses>>
  BY DEF AddQueuePair
<1>2. qp \in [Flows -> QpType] /\ nic \in NicType
  BY DEF IInv, Types
<1>3. Append(nic.grp, f) \in Seq(Flows)
  BY <1>2 DEF NicType
<1>4. Q \in [Flows -> QpType] /\ N \in NicType
  BY <1>2, <1>3, QpChange, NicChange
<1>5. N.tx = nic.tx /\ N.fault = nic.fault
  BY <1>2 DEF NicType
<1>6. \A g \in Flows : /\ Q[g].nxt = qp[g].nxt /\ Q[g].una = qp[g].una
                       /\ Q[g].state = "done" <=> qp[g].state = "done"
  BY <1>1, <1>2 DEF QpType
<1> HIDE DEF Q, N
<1>7. s \in HostType /\ Reaches(s)
  BY <1>1, <1>4 DEF HostType, Reaches
<1> QED
  BY <1>1, <1>5, <1>6, <1>7, HostOnly

\* The sending slot of a queue pair comes, with the send event or without.
LEMMA SlotComesStep == ASSUME IInv, NEW f \in Flows, SlotComes(f) PROVE IInv'
<1> DEFINE Q == [qp EXCEPT ![f].avail = TRUE]
           M == [nic EXCEPT !.nextSend = {}]
<1>1. /\ ~nic.fault /\ UNCHANGED <<rx, data, acks, taken, losses, pauses>>
      /\ Transmits(Q, M) \/ (qp' = Q /\ nic' = nic)
  BY DEF SlotComes
<1>2. qp \in [Flows -> QpType] /\ nic \in NicType
  BY DEF IInv, Types
<1>3. Q \in [Flows -> QpType] /\ M \in NicType
  BY <1>2, QpChange, NicChange
<1>4. M.tx = nic.tx /\ M.fault = nic.fault
  BY <1>2 DEF NicType
<1>5. \A g \in Flows : /\ Q[g].nxt = qp[g].nxt /\ Q[g].una = qp[g].una
                       /\ Q[g].state = "done" <=> qp[g].state = "done"
  BY <1>2 DEF QpType
<1> HIDE DEF Q, M
<1>6. PICK N \in {M, nic} : Reaches([qp |-> Q, nic |-> N])
  BY <1>1 DEF Reaches
<1> DEFINE s == [qp |-> Q, nic |-> N]
<1>7. s \in HostType /\ Reaches(s) /\ s.nic.tx = nic.tx /\ s.nic.fault = nic.fault
  BY <1>2, <1>3, <1>4, <1>6 DEF HostType
<1> QED
  BY <1>1, <1>5, <1>7, HostOnly

\* A class is resumed.
LEMMA ReceiveResumeStep == ASSUME IInv, NEW c \in Classes, ReceiveResume(c) PROVE IInv'
<1> DEFINE N == [nic EXCEPT !.paused = nic.paused \ {c}]
           s == [qp |-> qp, nic |-> N]
<1>1. /\ ~nic.fault /\ Transmits(qp, N)
      /\ UNCHANGED <<rx, data, acks, taken, losses, pauses>>
  BY DEF ReceiveResume
<1>2. qp \in [Flows -> QpType] /\ nic \in NicType /\ nic.paused \ {c} \in SUBSET Classes
  BY DEF IInv, Types, NicType
<1>3. N \in NicType
  BY <1>2, NicChange
<1>4. N.tx = nic.tx /\ N.fault = nic.fault
  BY <1>2 DEF NicType
<1> HIDE DEF N
<1>5. s \in HostType /\ Reaches(s)
  BY <1>1, <1>2, <1>3 DEF HostType, Reaches
<1> QED
  BY <1>1, <1>4, <1>5, HostOnly

\* The line grows by the packet that leaves the NIC.
LEMMA LineAppend ==
    ASSUME NEW d \in Seq(Packet), NEW from \in Nat, NEW p \in Packet,
           Line(d, from, p.seq), p.len > 0
    PROVE  Line(Append(d, p), from, p.seq + p.len)
<1> DEFINE e == Append(d, p)
           n == Len(d)
<1>1. /\ n \in Nat /\ e \in Seq(Packet) /\ Len(e) = n + 1
      /\ \A i \in 1 .. n : e[i] = d[i]
      /\ e[n + 1] = p /\ e # <<>>
  OBVIOUS
<1>2. /\ p.seq \in Nat /\ p.len \in Nat
      /\ \A i \in 1 .. n : d[i].seq \in Nat /\ d[i].len \in Nat
  BY PacketNumbers
<1>3. from <= p.seq
  BY <1>2, LineOrder
<1> HIDE DEF e, n
<1>4. \A i \in 1 .. Len(e) : i \in 1 .. n \/ i = n + 1
  BY <1>1
<1>5. \A i \in 1 .. n : d[i].len > 0 /\ from <= d[i].seq /\ d[i].seq + d[i].len <= p.seq
  BY DEF Line, n
<1>6. ASSUME NEW i \in 1 .. Len(e)
      PROVE  e[i].len > 0 /\ from <= e[i].seq /\ e[i].seq + e[i].len <= p.seq + p.len
  <2>1. CASE i \in 1 .. n
    <3>1. /\ e[i] = d[i] /\ d[i].seq \in Nat /\ d[i].len \in Nat /\ d[i].len > 0
          /\ from <= d[i].seq /\ d[i].seq + d[i].len <= p.seq
      BY <1>1, <1>2, <1>5, <2>1
    <3> QED
      BY <1>2, <3>1
  <2>2. CASE i = n + 1
    BY <1>1, <1>2, <1>3, <2>2
  <2> QED
    BY <1>4, <2>1, <2>2
<1>7. ASSUME NEW i \in 1 .. Len(e), NEW j \in 1 .. Len(e), i < j
      PROVE  e[i].seq + e[i].len <= e[j].seq
  <2>1. CASE j \in 1 .. n
    BY <1>1, <1>4, <1>7, <2>1 DEF Line, n
  <2>2. CASE j = n + 1
    BY <1>1, <1>4, <1>5, <1>7, <2>2
  <2> QED
    BY <1>4, <2>1, <2>2
<1>8. ASSUME NEW i \in 1 .. Len(e), NEW j \in 1 .. Len(e), j = i + 1
      PROVE  e[j].seq = e[i].seq + e[i].len
  <2>1. CASE j \in 1 .. n
    BY <1>1, <1>4, <1>8, <2>1 DEF Line, n
  <2>2. CASE j = n + 1
    <3>1. i = n /\ n \in 1 .. n /\ d # <<>>
      BY <1>1, <1>8, <2>2 DEF n
    <3>2. d[n].seq + d[n].len = p.seq
      BY <3>1 DEF Line, n
    <3> QED
      BY <1>1, <2>2, <3>1, <3>2
  <2> QED
    BY <1>4, <2>1, <2>2
<1>9. e[1].seq = from
  <2>1. CASE d = <<>>
    BY <1>1, <2>1 DEF Line, n
  <2>2. CASE d # <<>>
    <3>1. 1 \in 1 .. n /\ d[1].seq = from
      BY <2>2 DEF Line, n
    <3> QED
      BY <1>1, <3>1
  <2> QED
    BY <2>1, <2>2
<1>10. e[Len(e)].seq + e[Len(e)].len = p.seq + p.len
  BY <1>1
<1> QED
  BY <1>1, <1>6, <1>7, <1>8, <1>9, <1>10 DEF Line, e

\* The line without its first packet, which begins where the line did.
LEMMA LineTail ==
    ASSUME NEW d \in Seq(Packet), d # <<>>, NEW from \in Nat, NEW to \in Nat, Line(d, from, to)
    PROVE  /\ Head(d).seq = from /\ Head(d).len > 0
           /\ Line(Tail(d), from + Head(d).len, to)
<1> DEFINE e == Tail(d)
           n == Len(d)
<1>1. /\ n \in Nat /\ n > 0 /\ e \in Seq(Packet) /\ Len(e) = n - 1
      /\ \A i \in 1 .. Len(e) : e[i] = d[i + 1] /\ i + 1 \in 1 .. n
      /\ Head(d) = d[1] /\ 1 \in 1 .. n
  OBVIOUS
<1>2. \A i \in 1 .. n : d[i].seq \in Nat /\ d[i].len \in Nat
  BY PacketNumbers
<1>3. d[1].seq = from /\ d[1].len > 0 /\ d[n].seq + d[n].len = to
  BY <1>1 DEF Line, n
<1>4. \A i, j \in 1 .. n : i < j => d[i].seq + d[i].len <= d[j].seq
  BY DEF Line, n
<1>5. \A i, j \in 1 .. n : j = i + 1 => d[j].seq = d[i].seq + d[i].len
  BY DEF Line, n
<1>6. \A i \in 1 .. n : d[i].len > 0 /\ d[i].seq + d[i].len <= to
  BY DEF Line, n
<1> HIDE DEF e, n
<1>7. e = <<>> <=> n = 1
  <2>1. e = <<>> <=> Len(e) = 0
    BY <1>1, EmptySeq
  <2> QED
    BY <1>1, <2>1
<1>8. ASSUME NEW i \in 1 .. Len(e)
      PROVE  /\ e[i].len > 0 /\ from + d[1].len <= e[i].seq
             /\ e[i].seq + e[i].len <= to
  <2>1. e[i] = d[i + 1] /\ i + 1 \in 1 .. n /\ 1 < i + 1
    BY <1>1
  <2> QED
    BY <1>1, <1>3, <1>4, <1>6, <2>1
<1>9. ASSUME NEW i \in 1 .. Len(e), NEW j \in 1 .. Len(e)
      PROVE  /\ i < j => e[i].seq + e[i].len <= e[j].seq
             /\ j = i + 1 => e[j].seq = e[i].seq + e[i].len
  <2>1. /\ e[i] = d[i + 1] /\ i + 1 \in 1 .. n /\ e[j] = d[j + 1] /\ j + 1 \in 1 .. n
    BY <1>1
  <2>2. (i < j <=> i + 1 < j + 1) /\ (j = i + 1 <=> j + 1 = (i + 1) + 1)
    BY <1>1
  <2> QED
    BY <1>4, <1>5, <2>1, <2>2
<1>10. e = <<>> => from + d[1].len = to
  BY <1>3, <1>7
<1>11. ASSUME e # <<>>
       PROVE  e[1].seq = from + d[1].len /\ e[Len(e)].seq + e[Len(e)].len = to
  <2>1. 1 \in 1 .. Len(e) /\ 2 \in 1 .. n /\ e[1] = d[2] /\ e[Len(e)] = d[n]
    BY <1>1, <1>7, <1>11
  <2> QED
    BY <1>1, <1>3, <1>5, <2>1
<1>12. Line(e, from + d[1].len, to)
  BY <1>8, <1>9, <1>10, <1>11 DEF Line
<1> QED
  BY <1>1, <1>3, <1>12 DEF e

\* The packet in the transmitter reaches the link, and its flow's line.
LEMMA TransmitCompleteStep == ASSUME IInv, TransmitComplete PROVE IInv'
<1> DEFINE p == nic.tx[1]
           g == p.flow
           k == [seq |-> p.seq, len |-> p.len]
           N == [nic EXCEPT !.tx = <<>>]
           s == [qp |-> qp, nic |-> N]
<1>1. /\ ~nic.fault /\ nic.tx # <<>> /\ Transmits(qp, N)
      /\ UNCHANGED <<rx, acks, taken, losses, pauses>>
      /\ data' = [data EXCEPT ![g] = Append(data[g], k)]
  BY DEF TransmitComplete
<1>2. /\ qp \in [Flows -> QpType] /\ nic \in NicType /\ rx \in [Flows -> RxType]
      /\ data \in [Flows -> Seq(Packet)] /\ acks \in [Flows -> Seq(Reply)]
      /\ taken \in [Flows -> Nat]
  BY DEF IInv, Types
<1>3. p \in TxPacket
  BY <1>1, <1>2 DEF NicType
<1>4. g \in Flows /\ k \in Packet /\ k.seq = p.seq /\ k.len = p.len
  BY <1>3 DEF TxPacket, Packet
<1>5. p.seq \in Nat /\ p.len \in Nat /\ p.seq + p.len <= Size[g]
  BY <1>1, <1>4, PacketNumbers DEF IInv, TxBounded
<1>6. N \in NicType
  BY <1>2, NicChange
<1>7. N.tx = <<>> /\ N.fault = nic.fault
  BY <1>2 DEF NicType
<1>8. \A f \in Flows : Sending(nic, f) <=> f = g
  BY <1>1 DEF Sending
<1> HIDE DEF N, k, p, g
<1>9. s \in HostType /\ Reaches(s)
  BY <1>1, <1>2, <1>6 DEF HostType, Reaches
<1>10. \A f \in Flows : ~Sending(N, f) /\ Left(qp, N, f) = qp[f].nxt
  BY <1>7 DEF Sending, Left
<1>11. ASSUME losses = 0
       PROVE  /\ p.len > 0 /\ p.seq + p.len = qp[g].nxt /\ Left(qp, nic, g) = p.seq
              /\ Line(data[g], taken[g], p.seq)
              /\ \A f \in Flows : f # g => Left(qp, nic, f) = qp[f].nxt
  <2>1. InOrder(g) /\ Sending(nic, g)
    BY <1>4, <1>8, <1>11 DEF IInv
  <2> QED
    BY <1>8, <2>1 DEF InOrder, HostInOrder, Left, p
<1>12. data' \in [Flows -> Seq(Packet)] /\ \A f \in Flows : f # g => data'[f] = data[f]
  BY <1>1, <1>2, <1>4
<1>13. data'[g] = Append(data[g], k) /\ data[g] \in Seq(Packet) /\ taken[g] \in Nat
  BY <1>1, <1>2, <1>4
<1>14. ASSUME losses = 0, NEW f \in Flows
       PROVE  Line(data'[f], taken[f], qp[f].nxt)
  <2>1. CASE f = g
    BY <1>4, <1>11, <1>13, <1>14, <2>1, LineAppend
  <2>2. CASE f # g
    BY <1>11, <1>12, <1>14, <2>2 DEF IInv, InOrder
  <2> QED
    BY <2>1, <2>2
<1>15. ASSUME NEW f \in Flows PROVE DataBounded(data'[f], f)
  <2>1. DataBounded(data[f], f)
    BY DEF IInv, Bounded
  <2>2. CASE f = g
    <3>1. Len(data'[f]) = Len(data[f]) + 1 /\ data'[f][Len(data[f]) + 1] = k
      BY <1>4, <1>13, <2>2
    <3>2. \A i \in 1 .. Len(data[f]) : data'[f][i] = data[f][i]
      BY <1>4, <1>13, <2>2
    <3> QED
      BY <1>4, <1>5, <1>13, <2>1, <2>2, <3>1, <3>2 DEF DataBounded
  <2> QED
    BY <1>12, <2>1, <2>2
<1>16. HostReady(s)
  <2>1. TxBounded(N)
    BY <1>7 DEF TxBounded
  <2>2. \A f \in Flows : QpBounded(qp, f) /\ qp[f].una <= taken[f]
    BY DEF IInv, Bounded
  <2>3. ASSUME losses = 0, NEW f \in Flows
        PROVE  HostInOrder(qp, N, f) /\ taken[f] <= Left(qp, N, f)
    <3>1. HostInOrder(qp, N, f)
      BY <1>10, <2>3 DEF IInv, InOrder, HostInOrder
    <3>2. taken[f] <= qp[f].nxt
      BY <1>2, <1>12, <1>14, <2>3, LeftType, LineOrder
    <3> QED
      BY <1>10, <3>1, <3>2
  <2> QED
    BY <1>1, <1>7, <1>9, <2>1, <2>2, <2>3 DEF HostReady
<1>17. \A f \in Flows : RxBounded(rx[f], taken[f]) /\ AcksBounded(acks[f], taken[f])
  BY DEF IInv, Bounded
<1>18. ASSUME losses = 0, NEW f \in Flows
       PROVE  /\ Line(data'[f], taken[f], Left(s.qp, s.nic, f))
              /\ \A i \in 1 .. Len(acks'[f]) : acks'[f][i].kind = "ack"
              /\ Ends(s.qp[f], rx'[f], taken[f], f)
  BY <1>1, <1>10, <1>14, <1>18 DEF IInv, InOrder
<1>19. rx' = rx /\ acks' = acks /\ UNCHANGED <<taken, losses, pauses>>
  BY <1>1
<1> HIDE DEF s
<1> QED
  BY <1>2, <1>9, <1>12, <1>15, <1>16, <1>17, <1>18, <1>19, HostFrame

\* A class is paused.
LEMMA ReceivePauseStep == ASSUME IInv, NEW c \in Classes, ReceivePause(c) PROVE IInv'
<1> DEFINE N == [nic EXCEPT !.paused = nic.paused \cup {c}]
<1>1. /\ nic' = N /\ pauses' = pauses + 1 /\ pauses < MaxPause
      /\ UNCHANGED <<qp, rx, data, acks, taken, losses>>
  BY DEF ReceivePause
<1>2. nic \in NicType /\ nic.paused \cup {c} \in SUBSET Classes
  BY DEF IInv, Types, NicType
<1>3. nic' \in NicType
  BY <1>1, <1>2, NicChange
<1>4. nic'.tx = nic.tx /\ nic'.fault = nic.fault
  BY <1>1, <1>2 DEF NicType
<1> HIDE DEF N
<1>5. pauses' \in 0 .. MaxPause
  BY <1>1, TransportAssumption DEF IInv, Types
<1>6. Types'
  BY <1>1, <1>3, <1>5 DEF IInv, Types
<1>7. TxBounded(nic)' /\ (losses' = 0 \/ Windowed' => ~nic'.fault)
  BY <1>1, <1>4 DEF IInv, TxBounded, Windowed
<1>8. ASSUME NEW f \in Flows PROVE Bounded(f)'
  BY <1>1 DEF IInv, Bounded, QpBounded, DataBounded, RxBounded, AcksBounded
<1>9. ASSUME losses = 0, NEW f \in Flows PROVE InOrder(f)'
  <2>1. InOrder(f)
    BY <1>9 DEF IInv
  <2> QED
    BY <1>1, <1>4, <2>1 DEF InOrder, HostInOrder, Left, Sending, Line, Ends
<1> QED
  BY <1>1, <1>6, <1>7, <1>8, <1>9 DEF IInv

\* The larger of two numbers.
LEMMA MaxOfTwo ==
    ASSUME NEW a \in Nat, NEW b \in Nat
    PROVE  Max({a, b}) = IF a >= b THEN a ELSE b
BY DEF Max

\* Rounding down to a multiple does not round up.
LEMMA RoundDown ==
    ASSUME NEW a \in Nat, NEW c \in Nat \ {0}
    PROVE  (a \div c) * c \in Nat /\ (a \div c) * c <= a
OBVIOUS

-----------------------------------------------------------------------------
(* The receiver *)

\* The bytes without a gap after packet p, if there were t of them.
Taken(t, p) == IF p.seq <= t THEN Max({t, p.seq + p.len}) ELSE t

\* Those bytes only grow, within the flow.
LEMMA TakenGrows ==
    ASSUME NEW t \in Nat, NEW p \in Packet, NEW size \in Nat, t <= size, p.seq + p.len <= size
    PROVE  /\ Taken(t, p) \in Nat /\ t <= Taken(t, p) /\ Taken(t, p) <= size
           /\ p.seq <= t => p.seq + p.len <= Taken(t, p)
           /\ p.seq = t => Taken(t, p) = t + p.len
<1>1. p.seq \in Nat /\ p.len \in Nat /\ p.seq + p.len \in Nat
  BY PacketNumbers
<1>2. Max({t, p.seq + p.len}) = IF t >= p.seq + p.len THEN t ELSE p.seq + p.len
  BY <1>1, MaxOfTwo
<1> QED
  BY <1>1, <1>2 DEF Taken

\* ReceiverCheckSeq never expects, and so never acknowledges, a byte that has not
\* come in; the packet it expects is not refused.
LEMMA CheckSeq ==
    ASSUME NEW q \in RxType, NEW p \in Packet, NEW t \in Nat, NEW size \in Nat,
           q.expected <= t, t <= size, p.seq + p.len <= size, size < SeqRange
    PROVE  LET r == ReceiverCheckSeq(q, p)
           IN  /\ r.q \in RxType /\ r.q.exists = q.exists
               /\ r.q.expected <= Taken(t, p)
               /\ r.reply \in {"none", "ack", "nack"}
               /\ p.seq = q.expected =>
                     r.reply # "nack" /\ r.q.expected = q.expected + p.len
<1> DEFINE next == (q.expected + p.len) % SeqRange
           goBack == IF BackTo0 THEN (q.expected \div Chunk) * Chunk ELSE q.expected
           q1 == [q EXCEPT !.expected = next]
           q2 == [q EXCEPT !.nackDue = FALSE, !.lastNACK = q.expected, !.expected = goBack]
           r == ReceiverCheckSeq(q, p)
<1>1. q.expected \in 0 .. SeqRange - 1 /\ SeqRange \in Nat /\ Chunk \in Nat \ {0}
  BY TransportAssumption DEF RxType
<1>2. q.expected \in Nat /\ q.expected < SeqRange
  BY <1>1
<1>3. p.seq \in Nat /\ p.len \in Nat
  BY PacketNumbers
<1>4. /\ Taken(t, p) \in Nat /\ t <= Taken(t, p)
      /\ p.seq <= t => p.seq + p.len <= Taken(t, p)
  BY TakenGrows
<1>5. goBack \in Nat /\ goBack <= q.expected
  <2>1. (q.expected \div Chunk) * Chunk \in Nat /\ (q.expected \div Chunk) * Chunk <= q.expected
    BY <1>1, <1>2, RoundDown
  <2> QED
    BY <1>2, <2>1
<1> HIDE DEF goBack
<1>6. goBack \in 0 .. SeqRange - 1
  BY <1>1, <1>2, <1>5
<1>7. ASSUME p.seq = q.expected PROVE next = q.expected + p.len /\ next \in 0 .. SeqRange - 1
  <2>1. q.expected + p.len \in Nat /\ q.expected + p.len < SeqRange
    BY <1>1, <1>2, <1>3, <1>7
  <2> QED
    BY <1>1, <2>1, SmallMod
<1>8. CASE p.seq = q.expected
  <2>1. r.q = q1 /\ r.reply \in {"none", "ack"}
    BY <1>8 DEF ReceiverCheckSeq
  <2> HIDE DEF next, r
  <2>2. q1 \in RxType /\ q1.exists = q.exists /\ q1.expected = next
    BY <1>7, <1>8, Zenon DEF RxType
  <2>3. next <= Taken(t, p)
    BY <1>2, <1>3, <1>4, <1>7, <1>8
  <2> HIDE DEF q1
  <2> QED
    BY <1>7, <1>8, <2>1, <2>2, <2>3 DEF r
<1>9. CASE p.seq # q.expected
  <2>1. r.q \in {q, q2} /\ r.reply \in {"none", "nack"}
    BY <1>9 DEF ReceiverCheckSeq, goBack
  <2> HIDE DEF r
  <2>2. q2 \in RxType /\ q2.exists = q.exists /\ q2.expected = goBack
    BY <1>1, <1>6, Zenon DEF RxType
  <2>3. q.expected <= Taken(t, p) /\ goBack <= Taken(t, p)
    BY <1>2, <1>4, <1>5
  <2> HIDE DEF q2
  <2> QED
    BY <1>9, <2>1, <2>2, <2>3 DEF r
<1> QED
  BY <1>8, <1>9

\* The queue pair of GetRxQp expects what the one in the table expects.
LEMMA GetRxQpType ==
    ASSUME IInv, NEW f \in Flows
    PROVE  /\ GetRxQp(f) \in RxType /\ GetRxQp(f).exists
           /\ GetRxQp(f).expected = rx[f].expected
<1>1. rx[f] \in RxType /\ (~rx[f].exists => rx[f].expected = 0)
  BY DEF IInv, Types, Bounded, RxBounded
<1>2. 0 \in 0 .. SeqRange - 1
  BY TransportAssumption
<1>3. NewRxQp \in RxType /\ NewRxQp.expected = 0 /\ NewRxQp.exists
  BY <1>2, Zenon DEF NewRxQp, RxType
<1> QED
  BY <1>1, <1>3 DEF GetRxQp

\* Without loss the line ends within the flow.
LEMMA LeftBounded ==
    ASSUME IInv, losses = 0, NEW f \in Flows
    PROVE  Left(qp, nic, f) <= Size[f]
<1>1. qp[f].nxt <= Size[f] /\ HostInOrder(qp, nic, f) /\ nic \in NicType
  BY DEF IInv, Bounded, QpBounded, InOrder, Types
<1>2. CASE Sending(nic, f)
  <2>1. nic.tx[1] \in TxPacket
    BY <1>1, <1>2 DEF Sending, NicType
  <2>2. nic.tx[1].seq \in Nat /\ nic.tx[1].len \in Nat
    BY <2>1, TransportAssumption DEF TxPacket
  <2>3. nic.tx[1].seq + nic.tx[1].len = qp[f].nxt /\ Left(qp, nic, f) = nic.tx[1].seq
    BY <1>1, <1>2 DEF HostInOrder, Left
  <2> QED
    BY <1>1, <2>2, <2>3, LeftType, TransportAssumption
<1> QED
  BY <1>1, <1>2 DEF Left

\* Without loss the first packet on its way is the one that the receiver expects,
\* and its flow is not complete.
LEMMA FirstIsExpected ==
    ASSUME IInv, losses = 0, NEW f \in Flows, data[f] # <<>>
    PROVE  /\ Head(data[f]).seq = taken[f] /\ rx[f].expected = taken[f]
           /\ qp[f].state # "done"
           /\ Line(Tail(data[f]), taken[f] + Head(data[f]).len, Left(qp, nic, f))
<1> DEFINE p == Head(data[f])
<1>1. /\ data[f] \in Seq(Packet) /\ taken[f] \in Nat /\ p \in Packet
      /\ Tail(data[f]) \in Seq(Packet)
  BY DEF IInv, Types
<1>2. InOrder(f) /\ qp[f].una <= taken[f]
  BY DEF IInv, Bounded
<1>3. Left(qp, nic, f) \in Nat /\ qp[f].una \in Nat
  BY LeftType
<1>4. /\ p.seq = taken[f] /\ p.len > 0
      /\ Line(Tail(data[f]), taken[f] + p.len, Left(qp, nic, f))
  BY <1>1, <1>2, <1>3, LineTail DEF InOrder
<1>5. p.len \in Nat /\ Size[f] \in Nat
  BY <1>1, PacketNumbers, TransportAssumption
<1> HIDE DEF p
<1>6. taken[f] + p.len <= Left(qp, nic, f)
  <2>1. taken[f] + p.len \in Nat
    BY <1>1, <1>5
  <2> QED
    BY <1>1, <1>3, <1>4, <2>1, LineOrder
<1>7. taken[f] < Size[f]
  BY <1>1, <1>3, <1>4, <1>5, <1>6, LeftBounded
<1>8. qp[f].state # "done"
  BY <1>1, <1>2, <1>3, <1>5, <1>7 DEF InOrder, Ends
<1> QED
  BY <1>2, <1>4, <1>8 DEF InOrder, Ends, p

\* A packet reaches its receiver, which answers or not.
LEMMA ReceiveUdpStep == ASSUME IInv, NEW f \in Flows, ReceiveUdp(f) PROVE IInv'
<1> DEFINE p == Head(data[f])
           r == ReceiverCheckSeq(GetRxQp(f), p)
           t == Taken(taken[f], p)
           a == [kind |-> r.reply, seq |-> r.q.expected]
<1>1. /\ ~nic.fault /\ data[f] # <<>> /\ data' = [data EXCEPT ![f] = Tail(data[f])]
      /\ rx' = [rx EXCEPT ![f] = r.q]
      /\ acks' = IF r.reply = "none" THEN acks ELSE [acks EXCEPT ![f] = Append(acks[f], a)]
      /\ taken' = [taken EXCEPT ![f] = t]
      /\ UNCHANGED <<qp, nic, losses, pauses>>
  BY DEF ReceiveUdp, Taken
<1>2. Types /\ TxBounded(nic) /\ \A g \in Flows : Bounded(g)
  BY DEF IInv
<1>3. /\ data \in [Flows -> Seq(Packet)] /\ rx \in [Flows -> RxType]
      /\ acks \in [Flows -> Seq(Reply)] /\ taken \in [Flows -> Nat]
  BY <1>2 DEF Types
<1>4. /\ data[f] \in Seq(Packet) /\ p \in Packet /\ Tail(data[f]) \in Seq(Packet)
      /\ acks[f] \in Seq(Reply) /\ taken[f] \in Nat
      /\ 1 \in 1 .. Len(data[f]) /\ p = data[f][1]
      /\ Len(Tail(data[f])) = Len(data[f]) - 1
      /\ \A i \in 1 .. Len(Tail(data[f])) : Tail(data[f])[i] = data[f][i + 1]
  BY <1>1, <1>3
<1>5. /\ p.seq + p.len <= Size[f] /\ taken[f] <= Size[f] /\ rx[f].expected <= taken[f]
      /\ DataBounded(data[f], f) /\ AcksBounded(acks[f], taken[f])
  BY <1>2, <1>4 DEF Bounded, DataBounded, RxBounded
<1>6. /\ Size[f] \in Nat /\ Size[f] < SeqRange
  BY TransportAssumption
<1>7. /\ t \in Nat /\ taken[f] <= t /\ t <= Size[f]
      /\ p.seq = taken[f] => t = taken[f] + p.len
  BY <1>4, <1>5, <1>6, TakenGrows
<1>8. /\ r.q \in RxType /\ r.q.exists /\ r.q.expected <= t
      /\ r.reply \in {"none", "ack", "nack"}
      /\ p.seq = rx[f].expected => r.reply # "nack" /\ r.q.expected = rx[f].expected + p.len
  BY <1>4, <1>5, <1>6, GetRxQpType, CheckSeq
<1>9. r.reply # "none" => a \in Reply
  <2>1. r.q.expected \in 0 .. SeqRange - 1
    BY <1>8 DEF RxType
  <2> QED
    BY <1>8, <2>1 DEF Reply
<1> HIDE DEF r, t
<1>10. /\ data' \in [Flows -> Seq(Packet)] /\ rx' \in [Flows -> RxType]
       /\ taken' \in [Flows -> Nat]
  BY <1>1, <1>3, <1>4, <1>7, <1>8
<1>11. /\ data'[f] = Tail(data[f]) /\ rx'[f] = r.q /\ taken'[f] = t
       /\ \A g \in Flows : g # f => /\ data'[g] = data[g] /\ rx'[g] = rx[g]
                                    /\ taken'[g] = taken[g] /\ acks'[g] = acks[g]
  BY <1>1, <1>3
<1>12. acks'[f] = acks[f] \/ (r.reply # "none" /\ acks'[f] = Append(acks[f], a))
  BY <1>1, <1>3
<1>13. acks' \in [Flows -> Seq(Reply)]
  BY <1>1, <1>3, <1>4, <1>9
<1>14. Types'
  BY <1>1, <1>2, <1>10, <1>13 DEF Types
<1>15. DataBounded(data'[f], f)
  BY <1>4, <1>5, <1>11 DEF DataBounded
<1>16. /\ \A i \in 1 .. Len(acks[f]) : acks[f][i].seq \in Nat
       /\ r.q.expected \in Nat
  <2>1. SeqRange \in Nat
    BY TransportAssumption
  <2>2. \A i \in 1 .. Len(acks[f]) : acks[f][i] \in Reply
    BY <1>4
  <2>3. \A b \in Reply : b.seq \in Nat
    BY <2>1 DEF Reply
  <2> QED
    BY <1>8, <2>1, <2>2, <2>3 DEF RxType
<1>17. AcksBounded(acks'[f], t)
  <2>1. \A i \in 1 .. Len(acks[f]) : acks[f][i].seq <= t
    BY <1>4, <1>5, <1>7, <1>16 DEF AcksBounded
  <2>2. a.seq <= t
    BY <1>8
  <2> HIDE DEF a
  <2>3. CASE acks'[f] = acks[f]
    BY <2>1, <2>3 DEF AcksBounded
  <2>4. CASE r.reply # "none" /\ acks'[f] = Append(acks[f], a)
    <3>1. /\ Len(acks'[f]) = Len(acks[f]) + 1 /\ acks'[f][Len(acks[f]) + 1] = a
          /\ \A i \in 1 .. Len(acks[f]) : acks'[f][i] = acks[f][i]
      BY <1>4, <1>9, <2>4
    <3> QED
      BY <1>4, <2>1, <2>2, <3>1 DEF AcksBounded
  <2> QED
    BY <1>12, <2>3, <2>4
<1>18. ASSUME NEW g \in Flows PROVE Bounded(g)'
  <2>1. CASE g = f
    <3>1. qp[f].una \in Nat /\ qp[f].una <= taken[f] /\ QpBounded(qp, f)
      BY <1>2, LeftType DEF Bounded
    <3>2. qp[f].una <= t
      BY <1>4, <1>7, <3>1
    <3>3. RxBounded(rx'[f], t)
      BY <1>8, <1>11 DEF RxBounded
    <3> QED
      BY <1>1, <1>7, <1>11, <1>15, <1>17, <2>1, <3>1, <3>2, <3>3
         DEF Bounded, QpBounded, DataBounded, RxBounded, AcksBounded
  <2>2. CASE g # f
    BY <1>1, <1>2, <1>11, <2>2
       DEF Bounded, QpBounded, DataBounded, RxBounded, AcksBounded
  <2> QED
    BY <2>1, <2>2
<1>19. ASSUME losses = 0, NEW g \in Flows PROVE InOrder(g)'
  <2>1. InOrder(g)
    BY <1>19 DEF IInv
  <2>2. CASE g = f
    <3>1. /\ p.seq = taken[f] /\ rx[f].expected = taken[f] /\ qp[f].state # "done"
          /\ Line(Tail(data[f]), taken[f] + p.len, Left(qp, nic, f))
      BY <1>1, <1>19, FirstIsExpected
    <3>2. t = taken[f] + p.len /\ r.reply # "nack" /\ r.q.expected = t
      BY <1>7, <1>8, <3>1
    <3>3. Line(data'[f], taken'[f], Left(qp, nic, f))
      BY <1>11, <3>1, <3>2
    <3>4. \A i \in 1 .. Len(acks'[f]) : acks'[f][i].kind = "ack"
      <4>1. \A i \in 1 .. Len(acks[f]) : acks[f][i].kind = "ack"
        BY <2>1, <2>2 DEF InOrder
      <4>2. r.reply # "none" => a.kind = "ack"
        BY <1>8, <3>2
      <4> HIDE DEF a
      <4> QED
        BY <1>4, <1>9, <1>12, <4>1, <4>2
    <3>5. Ends(qp[f], rx'[f], taken'[f], f)
      BY <1>11, <3>1, <3>2 DEF Ends
    <3>6. HostInOrder(qp, nic, f) /\ qp' = qp /\ nic' = nic
      BY <1>1, <2>1, <2>2 DEF InOrder
    <3>7. InOrder(f)'
      BY <3>3, <3>4, <3>5, <3>6 DEF InOrder, HostInOrder, Left, Sending, Line, Ends
    <3> QED
      BY <2>2, <3>7
  <2>3. CASE g # f
    BY <1>1, <1>11, <2>1, <2>3 DEF InOrder, HostInOrder, Left, Sending, Line, Ends
  <2> QED
    BY <2>2, <2>3
<1>20. TxBounded(nic)' /\ (losses' = 0 \/ Windowed' => ~nic'.fault)
  BY <1>1, <1>2 DEF IInv, TxBounded, Windowed
<1> QED
  BY <1>1, <1>14, <1>18, <1>19, <1>20 DEF IInv

-----------------------------------------------------------------------------
(* Replies, timers and losses *)

\* The queue pairs other than that of f are as they were.
Others(Q1, Q2, f) == Q2 \in [Flows -> QpType] /\ \A g \in Flows : g # f => Q2[g] = Q1[g]

\* Acknowledge moves snd_una forward only.
LEMMA AcknowledgeQp ==
    ASSUME NEW Q \in [Flows -> QpType], NEW f \in Flows, NEW ack \in Nat
    PROVE  LET R == Acknowledge(Q, f, ack)
           IN  /\ Others(Q, R, f) /\ R[f].nxt = Q[f].nxt /\ R[f].state = Q[f].state
               /\ R[f].una = IF ack > Q[f].una THEN ack ELSE Q[f].una
<1> DEFINE u == IF ack > Q[f].una THEN ack ELSE Q[f].una
           R == Acknowledge(Q, f, ack)
           q == [Q[f] EXCEPT !.una = u]
<1>1. Q[f] \in QpType /\ u \in Nat
  BY DEF QpType
<1>2. R = [Q EXCEPT ![f] = q]
  BY DEF Acknowledge
<1> HIDE DEF u, R
<1>3. q \in QpType
  BY <1>1, QpChange
<1>4. q.nxt = Q[f].nxt /\ q.state = Q[f].state /\ q.una = u
  BY <1>1 DEF QpType
<1> HIDE DEF q
<1> QED
  BY <1>2, <1>3, <1>4 DEF Others, R, u

AfterReply(R, f, done, nack) ==
    LET S == IF done THEN [R EXCEPT ![f].state = "done"] ELSE R
    IN  IF nack THEN RecoverQueue(S, f) ELSE S

\* The queue pair of a flow after a reply: acknowledged up to u at most, complete
\* if that is all of it, and rewound if the reply is a NACK.
LEMMA ReplyQp ==
    ASSUME NEW Q \in [Flows -> QpType], NEW f \in Flows, NEW R, Others(Q, R, f),
           R[f].nxt = Q[f].nxt, R[f].state = Q[f].state,
           NEW done \in BOOLEAN, NEW nack \in BOOLEAN
    PROVE  LET T == AfterReply(R, f, done, nack)
           IN  /\ Others(Q, T, f) /\ T[f].una = R[f].una
               /\ T[f].nxt = (IF nack THEN R[f].una ELSE Q[f].nxt)
               /\ T[f].state = (IF done THEN "done" ELSE Q[f].state)
<1> DEFINE S == IF done THEN [R EXCEPT ![f].state = "done"] ELSE R
           T == IF nack THEN RecoverQueue(S, f) ELSE S
           q == [R[f] EXCEPT !.state = "done"]
           t == [S[f] EXCEPT !.nxt = S[f].una]
<1>1. R \in [Flows -> QpType] /\ R[f] \in QpType
  BY DEF Others
<1>2. q \in QpType
  BY <1>1, QpChange
<1>3. q.nxt = R[f].nxt /\ q.una = R[f].una /\ q.state = "done"
  BY <1>1 DEF QpType
<1>4. S = IF done THEN [R EXCEPT ![f] = q] ELSE R
  OBVIOUS
<1> HIDE DEF q, S
<1>5. /\ Others(Q, S, f) /\ S[f] \in QpType
      /\ S[f].una = R[f].una /\ S[f].nxt = Q[f].nxt
      /\ S[f].state = (IF done THEN "done" ELSE Q[f].state)
  BY <1>1, <1>2, <1>3, <1>4 DEF Others
<1>6. t \in QpType
  <2>1. S[f].una \in Nat
    BY <1>5 DEF QpType
  <2> QED
    BY <1>5, <2>1, QpChange
<1>7. t.nxt = S[f].una /\ t.una = S[f].una /\ t.state = S[f].state
  BY <1>5 DEF QpType
<1>8. T = IF nack THEN [S EXCEPT ![f] = t] ELSE S
  BY DEF RecoverQueue
<1> HIDE DEF t, T
<1>9. /\ Others(Q, T, f) /\ T[f].una = R[f].una
      /\ T[f].nxt = (IF nack THEN R[f].una ELSE Q[f].nxt)
      /\ T[f].state = (IF done THEN "done" ELSE Q[f].state)
  BY <1>5, <1>6, <1>7, <1>8 DEF Others
<1> QED
  BY <1>9 DEF T, S, AfterReply

\* The nack timer of a receiver expires.
LEMMA NackTimerStep == ASSUME IInv, NEW f \in Flows, NackTimerExpires(f) PROVE IInv'
<1> DEFINE r == [rx[f] EXCEPT !.nackDue = TRUE]
<1>1. /\ rx' = [rx EXCEPT ![f] = r] /\ UNCHANGED <<qp, nic, data, acks, taken, losses, pauses>>
  BY DEF NackTimerExpires
<1>2. Types /\ TxBounded(nic) /\ \A g \in Flows : Bounded(g)
  BY DEF IInv
<1>3. rx \in [Flows -> RxType] /\ rx[f] \in RxType
  BY <1>2 DEF Types
<1>4. r \in RxType
  BY <1>3, Zenon DEF RxType
<1>5. r.expected = rx[f].expected /\ r.exists = rx[f].exists
  BY <1>3 DEF RxType
<1> HIDE DEF r
<1>6. /\ rx' \in [Flows -> RxType]
      /\ \A g \in Flows : rx'[g].expected = rx[g].expected /\ rx'[g].exists = rx[g].exists
  BY <1>1, <1>3, <1>4, <1>5
<1>7. Types'
  BY <1>1, <1>2, <1>6 DEF Types
<1>8. ASSUME NEW g \in Flows PROVE Bounded(g)'
  BY <1>1, <1>2, <1>6 DEF Bounded, QpBounded, DataBounded, RxBounded, AcksBounded
<1>9. ASSUME losses = 0, NEW g \in Flows PROVE InOrder(g)'
  <2>1. InOrder(g)
    BY <1>9 DEF IInv
  <2> QED
    BY <1>1, <1>6, <2>1 DEF InOrder, HostInOrder, Left, Sending, Line, Ends
<1> QED
  BY <1>1, <1>2, <1>7, <1>8, <1>9 DEF IInv, TxBounded, Windowed

\* After a loss only what holds whatever is lost remains to be shown.
LEMMA LossFrame ==
    ASSUME IInv, losses' = losses + 1, losses < MaxLoss, ~nic.fault,
           UNCHANGED <<qp, nic, rx, taken, pauses>>,
           data' \in [Flows -> Seq(Packet)], acks' \in [Flows -> Seq(Reply)],
           \A g \in Flows : DataBounded(data'[g], g) /\ AcksBounded(acks'[g], taken[g])
    PROVE  IInv'
<1>1. losses' \in 0 .. MaxLoss /\ losses' # 0
  BY TransportAssumption DEF IInv, Types
<1>2. Types'
  BY <1>1 DEF IInv, Types
<1>3. ASSUME NEW g \in Flows PROVE Bounded(g)'
  BY DEF IInv, Bounded, QpBounded, DataBounded, RxBounded, AcksBounded
<1> QED
  BY <1>1, <1>2, <1>3 DEF IInv, TxBounded

\* Without the first packet or reply the others are in bounds.
LEMMA TailBounded ==
    ASSUME NEW f, NEW t
    PROVE  /\ \A d \in Seq(Packet) : d # <<>> /\ DataBounded(d, f) =>
                 Tail(d) \in Seq(Packet) /\ DataBounded(Tail(d), f)
           /\ \A a \in Seq(Reply) : a # <<>> /\ AcksBounded(a, t) =>
                 /\ Tail(a) \in Seq(Reply) /\ AcksBounded(Tail(a), t)
                 /\ Head(a) \in Reply /\ Head(a).seq <= t
<1>1. ASSUME NEW d \in Seq(Packet), d # <<>>, DataBounded(d, f)
      PROVE  Tail(d) \in Seq(Packet) /\ DataBounded(Tail(d), f)
  BY <1>1 DEF DataBounded
<1>2. ASSUME NEW a \in Seq(Reply), a # <<>>, AcksBounded(a, t)
      PROVE  /\ Tail(a) \in Seq(Reply) /\ AcksBounded(Tail(a), t)
             /\ Head(a) \in Reply /\ Head(a).seq <= t
  BY <1>2 DEF AcksBounded
<1> QED
  BY <1>1, <1>2

\* A packet is lost.
LEMMA LoseDataStep == ASSUME IInv, NEW f \in Flows, LoseData(f) PROVE IInv'
<1>1. /\ data \in [Flows -> Seq(Packet)] /\ acks \in [Flows -> Seq(Reply)]
      /\ \A g \in Flows : DataBounded(data[g], g) /\ AcksBounded(acks[g], taken[g])
  BY DEF IInv, Types, Bounded
<1>2. data[f] # <<>> /\ data' = [data EXCEPT ![f] = Tail(data[f])] /\ acks' = acks
  BY DEF LoseData
<1>3. Tail(data[f]) \in Seq(Packet) /\ DataBounded(Tail(data[f]), f)
  BY <1>1, <1>2, TailBounded
<1>4. /\ data' \in [Flows -> Seq(Packet)] /\ \A g \in Flows : DataBounded(data'[g], g)
  BY <1>1, <1>2, <1>3
<1> QED
  BY <1>1, <1>2, <1>4, LossFrame DEF LoseData

\* A reply is lost.
LEMMA LoseAckStep == ASSUME IInv, NEW f \in Flows, LoseAck(f) PROVE IInv'
<1>1. /\ data \in [Flows -> Seq(Packet)] /\ acks \in [Flows -> Seq(Reply)]
      /\ \A g \in Flows : DataBounded(data[g], g) /\ AcksBounded(acks[g], taken[g])
  BY DEF IInv, Types, Bounded
<1>2. acks[f] # <<>> /\ acks' = [acks EXCEPT ![f] = Tail(acks[f])] /\ data' = data
  BY DEF LoseAck
<1>3. Tail(acks[f]) \in Seq(Reply) /\ AcksBounded(Tail(acks[f]), taken[f])
  BY <1>1, <1>2, TailBounded
<1>4. /\ acks' \in [Flows -> Seq(Reply)] /\ \A g \in Flows : AcksBounded(acks'[g], taken[g])
  BY <1>1, <1>2, <1>3
<1> QED
  BY <1>1, <1>2, <1>4, LossFrame DEF LoseAck

\* A reply reaches the sender.  It acknowledges no more than the receiver has;
\* with the last byte the flow is complete and the receiving queue pair goes.
LEMMA ReceiveAckStep == ASSUME IInv, NEW f \in Flows, ReceiveAck(f) PROVE IInv'
<1> DEFINE a == Head(acks[f])
           ack == IF BackTo0 THEN (a.seq \div Chunk) * Chunk ELSE a.seq
           R == IF AckInterval = 0 THEN qp ELSE Acknowledge(qp, f, ack)
           done == AckInterval # 0 /\ IsFinished(R, f)
           S == IF done THEN [R EXCEPT ![f].state = "done"] ELSE R
           T == IF a.kind = "nack" THEN RecoverQueue(S, f) ELSE S
           s == IF qp[f].state = "open" THEN [qp |-> T, nic |-> nic]
                                        ELSE [qp |-> qp, nic |-> nic]
<1>1. /\ ~nic.fault /\ acks[f] # <<>> /\ acks' = [acks EXCEPT ![f] = Tail(acks[f])]
      /\ UNCHANGED <<data, taken, losses, pauses>>
  BY DEF ReceiveAck
<1>2. IF qp[f].state # "open" THEN UNCHANGED <<qp, nic, rx>>
      ELSE (rx' = IF done THEN DeleteRxQp(f) ELSE rx) /\ Transmits(T, nic)
  BY DEF ReceiveAck
<1>3. Types /\ TxBounded(nic) /\ \A g \in Flows : Bounded(g)
  BY DEF IInv
<1>4. /\ qp \in [Flows -> QpType] /\ nic \in NicType /\ rx \in [Flows -> RxType]
      /\ data \in [Flows -> Seq(Packet)] /\ acks \in [Flows -> Seq(Reply)]
      /\ taken \in [Flows -> Nat]
  BY <1>3 DEF Types
<1>5. /\ Tail(acks[f]) \in Seq(Reply) /\ AcksBounded(Tail(acks[f]), taken[f])
      /\ a \in Reply /\ a.seq <= taken[f]
  BY <1>1, <1>3, <1>4, TailBounded DEF Bounded
<1>6. a.seq \in Nat /\ taken[f] \in Nat /\ Size[f] \in Nat /\ taken[f] <= Size[f]
  <2>1. SeqRange \in Nat /\ Size[f] \in Nat
    BY TransportAssumption
  <2> QED
    BY <1>3, <1>4, <1>5, <2>1 DEF Reply, Bounded
<1>7. ack \in Nat /\ ack <= taken[f]
  <2>1. Chunk \in Nat \ {0}
    BY TransportAssumption
  <2>2. (a.seq \div Chunk) * Chunk \in Nat /\ (a.seq \div Chunk) * Chunk <= a.seq
    BY <1>6, <2>1, RoundDown
  <2> HIDE DEF a
  <2> QED
    BY <1>5, <1>6, <2>2
<1> HIDE DEF ack
<1>8. /\ qp[f].una \in Nat /\ qp[f].nxt \in Nat /\ qp[f].una <= taken[f]
      /\ qp[f].nxt <= Size[f]
  BY <1>3, LeftType DEF Bounded, QpBounded
<1>9. /\ Others(qp, R, f) /\ R[f].nxt = qp[f].nxt /\ R[f].state = qp[f].state
      /\ R[f].una \in Nat /\ qp[f].una <= R[f].una /\ R[f].una <= taken[f]
  <2>1. CASE AckInterval = 0
    BY <1>4, <1>8, <2>1 DEF Others
  <2>2. CASE AckInterval # 0
    <3> DEFINE A == Acknowledge(qp, f, ack)
    <3>1. /\ Others(qp, A, f) /\ A[f].nxt = qp[f].nxt /\ A[f].state = qp[f].state
          /\ A[f].una = IF ack > qp[f].una THEN ack ELSE qp[f].una
      BY <1>4, <1>7, AcknowledgeQp
    <3>2. R = A
      BY <2>2
    <3> HIDE DEF A, R
    <3>3. A[f].una \in Nat /\ qp[f].una <= A[f].una /\ A[f].una <= taken[f]
      BY <1>6, <1>7, <1>8, <3>1
    <3> QED
      BY <3>1, <3>2, <3>3
  <2> QED
    BY <2>1, <2>2
<1> HIDE DEF R
<1>10. done \in BOOLEAN /\ (done => R[f].una >= Size[f])
  BY DEF IsFinished
<1> HIDE DEF done
<1>11. /\ Others(qp, T, f) /\ T[f].una = R[f].una
       /\ T[f].nxt = (IF a.kind = "nack" THEN R[f].una ELSE qp[f].nxt)
       /\ T[f].state = (IF done THEN "done" ELSE qp[f].state)
  <2> DEFINE nack == a.kind = "nack"
  <2>1. nack \in BOOLEAN
    OBVIOUS
  <2>2. T = AfterReply(R, f, done, nack)
    BY DEF AfterReply
  <2>3. a.kind = "nack" <=> nack
    OBVIOUS
  <2> HIDE DEF nack, S, T
  <2>4. /\ qp \in [Flows -> QpType] /\ Others(qp, R, f) /\ R[f].nxt = qp[f].nxt
        /\ R[f].state = qp[f].state /\ done \in BOOLEAN
    BY <1>4, <1>9, <1>10
  <2>5. /\ Others(qp, T, f) /\ T[f].una = R[f].una
        /\ T[f].nxt = (IF nack THEN R[f].una ELSE qp[f].nxt)
        /\ T[f].state = (IF done THEN "done" ELSE qp[f].state)
    BY <2>1, <2>2, <2>4, ReplyQp
  <2> QED
    BY <2>3, <2>5
<1> HIDE DEF S, T, a
<1>12. acks' \in [Flows -> Seq(Reply)] /\ \A g \in Flows : AcksBounded(acks'[g], taken[g])
  BY <1>1, <1>3, <1>4, <1>5 DEF Bounded
<1>13. s \in HostType /\ s.nic = nic /\ (s.qp = T \/ s.qp = qp)
       /\ (qp[f].state = "open" => s.qp = T) /\ (qp[f].state # "open" => s.qp = qp)
  BY <1>4, <1>11 DEF Others, HostType
<1>14. Reaches(s)
  BY <1>2 DEF Reaches
<1> HIDE DEF s
<1>15. \A g \in Flows : g # f => s.qp[g] = qp[g]
  BY <1>11, <1>13 DEF Others
<1>16. /\ s.qp[f].una \in Nat /\ qp[f].una <= s.qp[f].una /\ s.qp[f].una <= taken[f]
       /\ s.qp[f].nxt \in Nat /\ s.qp[f].nxt <= Size[f]
  <2>1. CASE qp[f].state = "open"
    BY <1>6, <1>8, <1>9, <1>11, <1>13, <2>1
  <2>2. CASE qp[f].state # "open"
    BY <1>8, <1>13, <2>2
  <2> QED
    BY <2>1, <2>2
<1>17. ASSUME losses = 0
       PROVE  s.qp[f].nxt = qp[f].nxt /\ Left(s.qp, nic, f) = Left(qp, nic, f)
  <2>1. a.kind = "ack"
    <3>1. 1 \in 1 .. Len(acks[f]) /\ a = acks[f][1]
      BY <1>1, <1>4 DEF a
    <3> QED
      BY <1>17, <3>1 DEF IInv, InOrder
  <2>2. s.qp[f].nxt = qp[f].nxt
    BY <1>11, <1>13, <2>1
  <2> QED
    BY <2>2 DEF Left
<1>18. HostReady(s)
  <2>1. ASSUME NEW g \in Flows PROVE QpBounded(s.qp, g) /\ s.qp[g].una <= taken[g]
    <3>1. CASE g = f
      BY <1>16, <3>1 DEF QpBounded
    <3>2. CASE g # f
      BY <1>3, <1>15, <3>2 DEF Bounded, QpBounded
    <3> QED
      BY <3>1, <3>2
  <2>2. ASSUME losses = 0, NEW g \in Flows
        PROVE  HostInOrder(s.qp, s.nic, g) /\ taken[g] <= Left(s.qp, s.nic, g)
    <3>1. InOrder(g)
      BY <2>2 DEF IInv
    <3>2. taken[g] <= Left(qp, nic, g)
      BY <1>4, <3>1, LeftType, LineOrder DEF InOrder
    <3>3. CASE g = f
      <4>1. Win[f] \in Nat /\ Mtu \in Nat
        BY TransportAssumption
      <4>2. ASSUME Win[f] # 0 PROVE s.qp[f].nxt - s.qp[f].una < Win[f] + Mtu
        <5>1. qp[f].nxt - qp[f].una < Win[f] + Mtu
          BY <3>1, <3>3, <4>2 DEF InOrder, HostInOrder
        <5> QED
          BY <1>8, <1>16, <1>17, <2>2, <4>1, <5>1
      <4>3. HostInOrder(s.qp, nic, f)
        BY <1>17, <2>2, <3>1, <3>3, <4>2 DEF InOrder, HostInOrder
      <4> QED
        BY <1>13, <1>17, <2>2, <3>2, <3>3, <4>3
    <3>4. CASE g # f
      BY <1>13, <1>15, <3>1, <3>2, <3>4 DEF InOrder, HostInOrder, Left
    <3> QED
      BY <3>3, <3>4
  <2> QED
    BY <1>1, <1>3, <1>13, <2>1, <2>2 DEF HostReady
<1>19. /\ rx' \in [Flows -> RxType] /\ \A g \in Flows : g # f => rx'[g] = rx[g]
       /\ rx'[f] = rx[f] \/ (rx'[f] = NoRxQp /\ done /\ qp[f].state = "open")
       /\ done /\ qp[f].state = "open" => rx'[f] = NoRxQp
  <2>1. 0 \in 0 .. SeqRange - 1
    BY TransportAssumption
  <2>2. NoRxQp \in RxType
    BY <2>1, Zenon DEF NoRxQp, RxType
  <2> QED
    BY <1>2, <1>4, <2>2 DEF DeleteRxQp
<1>20. NoRxQp.expected = 0 /\ ~NoRxQp.exists
  BY DEF NoRxQp
<1>21. ASSUME NEW g \in Flows PROVE RxBounded(rx'[g], taken[g]) /\ DataBounded(data'[g], g)
  <2>1. RxBounded(rx[g], taken[g]) /\ DataBounded(data[g], g) /\ taken[g] \in Nat
    BY <1>3, <1>4 DEF Bounded
  <2> QED
    BY <1>1, <1>19, <1>20, <2>1 DEF RxBounded
<1>22. ASSUME losses = 0, NEW g \in Flows
       PROVE  /\ Line(data'[g], taken[g], Left(s.qp, s.nic, g))
              /\ \A i \in 1 .. Len(acks'[g]) : acks'[g][i].kind = "ack"
              /\ Ends(s.qp[g], rx'[g], taken[g], g)
  <2>1. InOrder(g)
    BY <1>22 DEF IInv
  <2>2. Left(s.qp, s.nic, g) = Left(qp, nic, g)
    BY <1>13, <1>15, <1>17, <1>22 DEF Left
  <2>3. \A i \in 1 .. Len(acks'[g]) : acks'[g][i].kind = "ack"
    <3>1. \A i \in 1 .. Len(acks[g]) : acks[g][i].kind = "ack"
      BY <2>1 DEF InOrder
    <3>2. CASE g = f
      <4>1. acks'[f] = Tail(acks[f]) /\ acks[f] \in Seq(Reply)
        BY <1>1, <1>4
      <4>2. /\ Len(Tail(acks[f])) = Len(acks[f]) - 1 /\ Len(acks[f]) \in Nat
            /\ \A i \in 1 .. Len(Tail(acks[f])) : Tail(acks[f])[i] = acks[f][i + 1]
        BY <1>1, <4>1
      <4> QED
        BY <3>1, <3>2, <4>1, <4>2
    <3>3. CASE g # f
      BY <1>1, <1>4, <3>1, <3>3
    <3> QED
      BY <3>2, <3>3
  <2>4. Ends(s.qp[g], rx'[g], taken[g], g)
    <3>1. Ends(qp[g], rx[g], taken[g], g)
      BY <2>1 DEF InOrder
    <3>2. CASE g # f
      BY <1>15, <1>19, <3>1, <3>2
    <3>3. CASE g = f /\ qp[f].state = "open"
      <4>1. s.qp[f].una = R[f].una /\ s.qp[f].state = (IF done THEN "done" ELSE "open")
        BY <1>11, <1>13, <3>3
      <4> QED
        BY <1>10, <1>19, <1>20, <3>1, <3>3, <4>1 DEF Ends
    <3>4. CASE g = f /\ qp[f].state # "open"
      BY <1>13, <1>19, <3>1, <3>4
    <3> QED
      BY <3>2, <3>3, <3>4
  <2> QED
    BY <1>1, <2>1, <2>2, <2>3, <2>4 DEF InOrder
<1>23. data' \in [Flows -> Seq(Packet)] /\ UNCHANGED <<taken, losses, pauses>>
  BY <1>1, <1>4
<1> QED
  BY <1>12, <1>14, <1>18, <1>19, <1>21, <1>22, <1>23, HostFrame

-----------------------------------------------------------------------------
(* Theorems *)

\* The invariant holds at first, ...
LEMMA InitIInv == Init => IInv
<1> SUFFICES ASSUME Init PROVE IInv
  OBVIOUS
<1>1. 0 \in 0 .. SeqRange - 1 /\ 0 \in 0 .. MaxLoss /\ 0 \in 0 .. MaxPause
  BY TransportAssumption
<1>2. qp \in [Flows -> QpType]
  <2>1. [nxt |-> 0, una |-> 0, avail |-> TRUE, state |-> "new"] \in QpType
    BY Zenon DEF QpType
  <2> QED
    BY <2>1 DEF Init
<1>3. nic \in NicType /\ nic.tx = <<>> /\ ~nic.fault
  <2>1. <<>> \in Seq(Flows) /\ 0 \in Nat
    OBVIOUS
  <2>2. nic \in NicType
    BY <2>1, Zenon DEF Init, NicType
  <2> QED
    BY <2>2 DEF Init
<1>4. rx \in [Flows -> RxType]
  <2>1. NoRxQp \in RxType
    BY <1>1, Zenon DEF NoRxQp, RxType
  <2> QED
    BY <2>1 DEF Init
<1>5. Types
  BY <1>1, <1>2, <1>3, <1>4 DEF Init, Types
<1>6. ASSUME NEW f \in Flows PROVE Bounded(f) /\ InOrder(f)
  <2>1. /\ qp[f].nxt = 0 /\ qp[f].una = 0 /\ qp[f].state = "new" /\ rx[f] = NoRxQp
        /\ data[f] = <<>> /\ acks[f] = <<>> /\ taken[f] = 0
    BY DEF Init
  <2>2. Size[f] \in Nat /\ Win[f] \in Nat /\ Mtu \in Nat
    BY TransportAssumption
  <2>3. NoRxQp.expected = 0
    BY DEF NoRxQp
  <2>4. Bounded(f)
    BY <2>1, <2>2, <2>3 DEF Bounded, QpBounded, DataBounded, RxBounded, AcksBounded
  <2>5. Left(qp, nic, f) = 0 /\ HostInOrder(qp, nic, f)
    BY <1>3, <2>1, <2>2 DEF Left, Sending, HostInOrder
  <2>6. Line(<<>>, 0, 0)
    BY DEF Line
  <2>7. Ends(qp[f], rx[f], taken[f], f)
    BY <2>1, <2>3 DEF Ends
  <2>8. InOrder(f)
    BY <2>1, <2>5, <2>6, <2>7 DEF InOrder
  <2> QED
    BY <2>4, <2>8
<1> QED
  BY <1>3, <1>5, <1>6 DEF IInv, TxBounded

\* ... and every step keeps it.
LEMMA NextIInv == IInv /\ [Next]_vars => IInv'
<1> SUFFICES ASSUME IInv, [Next]_vars PROVE IInv'
  OBVIOUS
<1>1. CASE TransmitComplete
  BY <1>1, TransmitCompleteStep
<1>2. ASSUME NEW c \in Classes, ReceivePause(c) \/ ReceiveResume(c) PROVE IInv'
  BY <1>2, ReceivePauseStep, ReceiveResumeStep
<1>3. ASSUME NEW f \in Flows, AddQueuePair(f) \/ SlotComes(f) PROVE IInv'
  BY <1>3, AddQueuePairStep, SlotComesStep
<1>4. ASSUME NEW f \in Flows, ReceiveUdp(f) \/ ReceiveAck(f) PROVE IInv'
  BY <1>4, ReceiveUdpStep, ReceiveAckStep
<1>5. ASSUME NEW f \in Flows, NackTimerExpires(f) \/ LoseData(f) \/ LoseAck(f) PROVE IInv'
  BY <1>5, NackTimerStep, LoseDataStep, LoseAckStep
<1>6. CASE UNCHANGED vars
  BY <1>6 DEF vars, IInv, Types, TxBounded, Windowed, Bounded, QpBounded, DataBounded,
              RxBounded, AcksBounded, InOrder, HostInOrder, Left, Sending, Line, Ends
<1> QED
  BY <1>1, <1>2, <1>3, <1>4, <1>5, <1>6 DEF Next

\* The inductive invariant holds in every reachable state.
THEOREM Invariance == Spec => []IInv
BY InitIInv, NextIInv, PTL DEF Spec

\* The transmitter holds one packet at most.
LEMMA OnePacket ==
    ASSUME IInv, NEW i \in 1 .. Len(nic.tx)
    PROVE  i = 1 /\ nic.tx # <<>> /\ nic.tx[i] \in TxPacket
<1>1. nic.tx \in {<<>>} \cup {<<p>> : p \in TxPacket}
  BY DEF IInv, Types, NicType
<1>2. nic.tx # <<>>
  <2>1. nic.tx = <<>> => Len(nic.tx) = 0
    OBVIOUS
  <2> QED
    BY <2>1
<1>3. PICK p \in TxPacket : nic.tx = <<p>>
  BY <1>1, <1>2
<1>4. Len(nic.tx) = 1 /\ nic.tx[1] = p
  BY <1>3
<1> QED
  BY <1>2, <1>4

\* Type correctness: snd_una and snd_nxt never become negative, and no number on
\* the wire or at a receiver leaves its width.
THEOREM TypeCorrect == Spec => []TypeOK
<1>1. ASSUME IInv PROVE TypeOK
  <2>1. Types /\ nic \in NicType
    BY <1>1 DEF IInv, Types
  <2>2. /\ nic.grp \in Seq(Flows) /\ nic.rrlast \in Nat
        /\ nic.paused \subseteq Classes /\ nic.nextSend \subseteq Flows
    BY <2>1 DEF NicType
  <2>3. nic.fault \in BOOLEAN
    BY <2>1, Zenon DEF NicType
  <2>4. ASSUME NEW i \in 1 .. Len(nic.tx)
        PROVE  i = 1 /\ nic.tx[i] \in TxPacket
    BY <1>1, OnePacket
  <2> QED
    BY <2>1, <2>2, <2>3, <2>4 DEF TypeOK, Types, QpType, RxType, TxPacket
<1> QED
  BY <1>1, Invariance, PTL

\* Reliability: whatever is lost, and however late the replies are, what the
\* sender takes as acknowledged has reached the receiver without a gap.
THEOREM Reliability == Spec => []AckedIsReceived
<1>1. IInv => AckedIsReceived
  BY DEF IInv, Bounded, AckedIsReceived
<1> QED
  BY <1>1, Invariance, PTL

\* GetNextQindex returns a position of the group, as long as nothing is lost or,
\* with losses, if every flow has a window that the wrapped difference exceeds.
THEOREM PickIsInRange == Spec => [](losses = 0 \/ Windowed => PickInRange)
<1>1. IInv => (losses = 0 \/ Windowed => PickInRange)
  BY DEF IInv, PickInRange
<1> QED
  BY <1>1, Invariance, PTL

\* As long as nothing is lost, the window is exceeded by less than a packet.
THEOREM WindowIsKept == Spec => [](losses = 0 => OnTheFlyBounded)
<1>1. ASSUME IInv, losses = 0 PROVE OnTheFlyBounded
  <2> SUFFICES ASSUME NEW f \in Flows, Win[f] # 0
               PROVE  GetOnTheFly(qp, f) < Win[f] + Mtu
    BY DEF OnTheFlyBounded
  <2> DEFINE nxt == qp[f].nxt
             una == qp[f].una
  <2>1. /\ nxt \in Nat /\ una \in Nat /\ Left(qp, nic, f) \in Nat
        /\ taken[f] \in Nat /\ una <= taken[f] /\ nxt <= Size[f] /\ data[f] \in Seq(Packet)
    BY <1>1, LeftType DEF IInv, Bounded, QpBounded, Types
  <2>2. /\ Size[f] \in Nat /\ CounterRange \in Nat /\ SeqRange \in Nat /\ Mtu \in Nat
        /\ Size[f] + Mtu < SeqRange /\ SeqRange <= CounterRange
    BY TransportAssumption
  <2>3. nxt - una < Win[f] + Mtu /\ Line(data[f], taken[f], Left(qp, nic, f))
    BY <1>1 DEF IInv, InOrder, HostInOrder
  <2>4. Left(qp, nic, f) <= nxt
    <3>1. CASE Sending(nic, f)
      <4>1. nic.tx[1] \in TxPacket
        BY <1>1, <3>1 DEF Sending, NicType, IInv, Types
      <4>2. nic.tx[1].seq \in Nat /\ nic.tx[1].len \in Nat
        BY <4>1, TransportAssumption DEF TxPacket
      <4>3. nic.tx[1].seq + nic.tx[1].len = nxt /\ Left(qp, nic, f) = nic.tx[1].seq
        BY <1>1, <3>1 DEF IInv, InOrder, HostInOrder, Left
      <4> QED
        BY <2>1, <4>2, <4>3
    <3>2. CASE ~Sending(nic, f)
      BY <2>1, <3>2 DEF Left
    <3> QED
      BY <3>1, <3>2
  <2>5. taken[f] <= Left(qp, nic, f)
    BY <2>1, <2>3, LineOrder
  <2>6. GetOnTheFly(qp, f) = (nxt - una) % CounterRange
    BY DEF GetOnTheFly
  <2> HIDE DEF nxt, una
  <2>7. nxt - una \in Nat /\ nxt - una < CounterRange
    BY <2>1, <2>2, <2>4, <2>5
  <2>8. (nxt - una) % CounterRange = nxt - una
    BY <2>2, <2>7, SmallMod
  <2> QED
    BY <2>3, <2>6, <2>8
<1> QED
  BY <1>1, Invariance, PTL

\* Without loss no retransmission is asked for and nothing is sent twice.
THEOREM NothingSentTwice == Spec => []NoSpuriousRetransmission
<1>1. IInv => NoSpuriousRetransmission
  BY DEF IInv, InOrder, Line, NoSpuriousRetransmission
<1> QED
  BY <1>1, Invariance, PTL

\* Without loss nothing of a completed flow is under way, so that its receiving
\* queue pair is not created again.
THEOREM NothingLeftBehind == Spec => []CompletionIsFinal
<1>1. ASSUME IInv, losses = 0, NEW f \in Flows, qp[f].state = "done"
      PROVE  /\ data[f] = <<>> /\ ~rx[f].exists
             /\ \A i \in 1 .. Len(nic.tx) : nic.tx[i].flow # f
  <2>1. data[f] = <<>>
    BY <1>1, FirstIsExpected
  <2>2. InOrder(f)
    BY <1>1 DEF IInv
  <2>3. ~rx[f].exists /\ qp[f].una >= Size[f]
    BY <1>1, <2>2 DEF InOrder, Ends
  <2>4. ~Sending(nic, f)
    <3>1. SUFFICES ASSUME Sending(nic, f) PROVE FALSE
      OBVIOUS
    <3>2. nic.tx[1] \in TxPacket
      BY <1>1, <3>1 DEF Sending, NicType, IInv, Types
    <3>3. nic.tx[1].seq \in Nat /\ nic.tx[1].len \in Nat /\ Size[f] \in Nat
      BY <3>2, TransportAssumption DEF TxPacket
    <3>4. /\ nic.tx[1].len > 0 /\ nic.tx[1].seq + nic.tx[1].len <= Size[f]
          /\ taken[f] = nic.tx[1].seq
      BY <1>1, <2>1, <2>2, <3>1 DEF IInv, Bounded, QpBounded, InOrder, HostInOrder, Left, Line
    <3>5. qp[f].una \in Nat /\ qp[f].una <= taken[f]
      BY <1>1, LeftType DEF IInv, Bounded
    <3> QED
      BY <2>3, <3>3, <3>4, <3>5
  <2>5. ASSUME NEW i \in 1 .. Len(nic.tx) PROVE nic.tx[i].flow # f
    BY <1>1, <2>4, OnePacket DEF Sending
  <2> QED
    BY <2>1, <2>3, <2>5
<1>2. IInv => CompletionIsFinal
  BY <1>1 DEF CompletionIsFinal
<1> QED
  BY <1>2, Invariance, PTL

=============================================================================
