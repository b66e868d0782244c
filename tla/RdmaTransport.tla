---------------------------- MODULE RdmaTransport ----------------------------
(***************************************************************************)
(* The RDMA transport: the queue pairs (QPs) of one sending host, the      *)
(* round robin of its NIC over them, and the receiving ends of the flows   *)
(* (rdma-hw.cc, rdma-queue-pair.cc and the host half of qbb-net-device.cc).*)
(*                                                                         *)
(* Reliability is go-back-N driven by the receiver: in-order data is       *)
(* acknowledged, a gap is answered by a NACK that is repeated only after a *)
(* timer, and the sender then rewinds.  There is no retransmission timer.  *)
(*                                                                         *)
(* The network is one FIFO channel per flow and direction, whose packets   *)
(* the receive error model may drop.  The rate of a QP decides only when   *)
(* its next sending slot (m_nextAvail) comes; here the slot comes at any   *)
(* later time.                                                             *)
(***************************************************************************)
EXTENDS Integers, Sequences, FiniteSets, FiniteSetsExt, Counting

CONSTANTS
    Flows,          \* the flows of the host
    Classes,        \* the priority groups m_pg in use
    Size,           \* m_size of each flow, in bytes
    Pg,             \* m_pg of each flow
    Win,            \* m_win of each flow, 0 for no window
    Mtu,            \* m_mtu
    AckInterval,    \* m_ack_interval
    Chunk,          \* m_chunk
    BackTo0,        \* m_backto0
    SeqRange,       \* 2^32: sequence numbers on the wire and at the receiver
    CounterRange,   \* 2^64: snd_nxt and snd_una
    MaxLoss,        \* bound: packets that the error model drops
    MaxPause        \* bound: PAUSE frames that the host receives

ASSUME TransportAssumption ==
    /\ IsFiniteSet(Flows)
    /\ Size \in [Flows -> Nat \ {0}]
    /\ Pg \in [Flows -> Classes]
    /\ Win \in [Flows -> Nat]
    /\ {Mtu, Chunk, SeqRange, CounterRange} \subseteq Nat \ {0}
    /\ {AckInterval, MaxLoss, MaxPause} \subseteq Nat
    /\ BackTo0 \in BOOLEAN
    /\ \A f \in Flows : Size[f] + Mtu < SeqRange
    /\ SeqRange <= CounterRange

VARIABLES
    qp,       \* the sending QPs
    nic,      \* the egress queue and transmitter of the sending host
    rx,       \* m_rxQpMap of the receivers, by flow
    data,     \* data packets in flight, by flow
    acks,     \* ACKs and NACKs in flight, by flow
    taken,    \* history: bytes that have reached the receiver without a gap
    losses,   \* packets dropped so far
    pauses    \* PAUSE frames received so far

vars == <<qp, nic, rx, data, acks, taken, losses, pauses>>

-----------------------------------------------------------------------------
(* RdmaQueuePair *)

GetBytesLeft(Q, f) == IF Size[f] >= Q[f].nxt THEN Size[f] - Q[f].nxt ELSE 0
GetOnTheFly(Q, f) == (Q[f].nxt - Q[f].una) % CounterRange
\* Mutation: the window is tested with > instead of >=.
IsWinBoundLate(Q, f) == Win[f] # 0 /\ GetOnTheFly(Q, f) > Win[f]
IsWinBound(Q, f) == Win[f] # 0 /\ GetOnTheFly(Q, f) >= Win[f]
IsFinished(Q, f) == Q[f].una >= Size[f]
\* Mutation: an acknowledgement takes snd_nxt along.
AcknowledgeRewinds(Q, f, ack) == [Q EXCEPT ![f].una = ack, ![f].nxt = ack]
Acknowledge(Q, f, ack) == [Q EXCEPT ![f].una = IF ack > @ THEN ack ELSE @]
\* Mutation: the rewind is off by one.
RecoverQueueTooFar(Q, f) == [Q EXCEPT ![f].nxt = Q[f].una - 1]
RecoverQueue(Q, f) == [Q EXCEPT ![f].nxt = Q[f].una]

-----------------------------------------------------------------------------
(* RdmaEgressQueue::GetNextQindex; positions in the group count from 1 *)

Unpicked == 0

\* A QP that may send as far as PFC, data and window are concerned.
Ready(Q, N, f) ==
    /\ Pg[f] \notin N.paused
    /\ GetBytesLeft(Q, f) > 0
    /\ ~IsWinBound(Q, f)

\* The k-th position that the round robin looks at.
Position(N, k) == ((k + N.rrlast) % Len(N.grp)) + 1

\* The steps of the round robin at which a QP could be picked.
Hits(Q, N) ==
    {k \in 1 .. Len(N.grp) :
        LET f == N.grp[Position(N, k)] IN Ready(Q, N, f) /\ Q[f].avail}

\* The finished QPs that the round robin meets before it picks one.
FinishedMet(Q, N, hits) ==
    {Position(N, k) : k \in
        {j \in 1 .. Len(N.grp) :
            LET f == N.grp[Position(N, j)]
            IN  /\ \A h \in hits : j < h
                /\ ~Ready(Q, N, f)
                /\ IsFinished(Q, f)}}

\* "clear the finished qp": from position low on only unfinished QPs stay.
Stays(Q, grp, low) == {i \in 1 .. Len(grp) : i < low \/ ~IsFinished(Q, grp[i])}
Kept(grp, stays) == [k \in 1 .. Cardinality(stays) |-> grp[Nth(stays, k)]]

\* Mutation: the picked position does not move with its QP.
ClearedStalePick(Q, grp, low, pick) ==
    [grp |-> Kept(grp, Stays(Q, grp, low)), res |-> pick]
\* The picked position moves with its QP, unless that is itself removed.
Cleared(Q, grp, low, pick) ==
    LET stays == Stays(Q, grp, low)
    IN  [grp |-> Kept(grp, stays), res |-> IF pick \in stays THEN Rank(stays, pick) ELSE pick]

GetNextQindex(Q, N) ==
    LET hits == Hits(Q, N)
        met == FinishedMet(Q, N, hits)
        pick == IF hits = {} THEN Unpicked ELSE Position(N, Min(hits))
    IN  IF met = {} THEN [grp |-> N.grp, res |-> pick]
                    ELSE Cleared(Q, N.grp, Min(met), pick)

-----------------------------------------------------------------------------
(* QbbNetDevice::DequeueAndTransmit of a host, on the record s of its state *)

\* GetNxtPacket, TransmitStart and PktSent for the QP of flow f.
SendNxtPacket(s, f, pos) ==
    LET left == GetBytesLeft(s.qp, f) % SeqRange
        len == IF Mtu < left THEN Mtu ELSE left
        pkt == [flow |-> f, seq |-> s.qp[f].nxt % SeqRange, len |-> len]
    IN  [qp |-> [s.qp EXCEPT ![f] = [s.qp[f] EXCEPT !.nxt = @ + len, !.avail = FALSE]],
         nic |-> [s.nic EXCEPT !.rrlast = pos - 1, !.tx = <<pkt>>]]

\* Mutation: no send event is scheduled.
ScheduleNoSend(s) == s

\* Nothing to send: a send event is scheduled for the earliest slot of all QPs
\* with data left, unless one is pending or that slot is not in the future.
ScheduleNextSend(s) ==
    LET waiting == {f \in Flows : /\ GetBytesLeft(s.qp, f) > 0
                                  /\ \E i \in 1 .. Len(s.nic.grp) : s.nic.grp[i] = f}
    IN  IF s.nic.nextSend = {} /\ \A f \in waiting : ~s.qp[f].avail
          THEN [s EXCEPT !.nic.nextSend = waiting]
          ELSE s

\* The outcome for the result next of GetNextQindex.
DequeueQindex(s, next) ==
    IF next.res = Unpicked
      THEN ScheduleNextSend([s EXCEPT !.nic.grp = next.grp])
    ELSE IF next.res > Len(next.grp)       \* m_qps[idx] beyond its end
      THEN [s EXCEPT !.nic.grp = next.grp, !.nic.fault = TRUE]
    ELSE SendNxtPacket([s EXCEPT !.nic.grp = next.grp], next.grp[next.res], next.res)

DequeueAndTransmit(s) ==
    IF s.nic.tx # <<>> THEN s ELSE DequeueQindex(s, GetNextQindex(s.qp, s.nic))

-----------------------------------------------------------------------------
(* The receiver *)

NewRxQp == [exists |-> TRUE, expected |-> 0, nackDue |-> TRUE, lastNACK |-> 0]
NoRxQp == [exists |-> FALSE, expected |-> 0, nackDue |-> TRUE, lastNACK |-> 0]

GetRxQp(f) == IF rx[f].exists THEN rx[f] ELSE NewRxQp

\* Mutation: a packet beyond a gap is accepted.
ReceiverSkipsGap(q, pkt) ==
    IF pkt.seq >= q.expected
      THEN [q |-> [q EXCEPT !.expected = (pkt.seq + pkt.len) % SeqRange], reply |-> "ack"]
      ELSE [q |-> q, reply |-> "none"]

\* ReceiverCheckSeq: the new state of the QP and what is sent back.  ReceiveUdp
\* sets m_milestone_rx to the ack interval before each call.
ReceiverCheckSeq(q, pkt) ==
    LET next == (q.expected + pkt.len) % SeqRange
        ackDue == next >= AckInterval \/ next % Chunk = 0
        nackDue == q.nackDue \/ q.lastNACK # q.expected
        goBack == IF BackTo0 THEN (q.expected \div Chunk) * Chunk ELSE q.expected
    IN  IF pkt.seq = q.expected
          THEN [q |-> [q EXCEPT !.expected = next],
                reply |-> IF ackDue THEN "ack" ELSE "none"]
        ELSE IF pkt.seq > q.expected /\ nackDue
          THEN [q |-> [q EXCEPT !.nackDue = FALSE, !.lastNACK = q.expected,
                                !.expected = goBack],
                reply |-> "nack"]
        ELSE [q |-> q, reply |-> "none"]

\* Mutation: completion leaves the receiving QP behind.
KeepRxQp(f) == rx
DeleteRxQp(f) == [rx EXCEPT ![f] = NoRxQp]

-----------------------------------------------------------------------------
(* Events *)

\* The event leaves the sending host with the QPs Q and the NIC N, and then calls
\* DequeueAndTransmit.
Transmits(Q, N) ==
    \E s \in {DequeueAndTransmit([qp |-> Q, nic |-> N])} : qp' = s.qp /\ nic' = s.nic

Init ==
    /\ qp = [f \in Flows |-> [nxt |-> 0, una |-> 0, avail |-> TRUE, state |-> "new"]]
    /\ nic = [grp |-> <<>>, rrlast |-> 0, tx |-> <<>>, paused |-> {},
              nextSend |-> {}, fault |-> FALSE]
    /\ rx = [f \in Flows |-> NoRxQp]
    /\ data = [f \in Flows |-> <<>>]
    /\ acks = [f \in Flows |-> <<>>]
    /\ taken = [f \in Flows |-> 0]
    /\ losses = 0
    /\ pauses = 0

\* The application starts the flow: the QP joins m_qpMap and its NIC's group.
AddQueuePair(f) ==
    /\ ~nic.fault
    /\ qp[f].state = "new"
    /\ Transmits([qp EXCEPT ![f].state = "open"], [nic EXCEPT !.grp = Append(@, f)])
    /\ UNCHANGED <<rx, data, acks, taken, losses, pauses>>

\* The NIC has put the packet on the link and the transmitter is READY again.
TransmitComplete ==
    /\ ~nic.fault
    /\ nic.tx # <<>>
    /\ data' = [data EXCEPT ![nic.tx[1].flow] =
                   Append(@, [seq |-> nic.tx[1].seq, len |-> nic.tx[1].len])]
    /\ Transmits(qp, [nic EXCEPT !.tx = <<>>])
    /\ UNCHANGED <<rx, acks, taken, losses, pauses>>

\* Time reaches m_nextAvail of the QP.  If the pending send event was scheduled
\* for the earliest slot of several QPs and this is the first, it fires now.
SlotComes(f) ==
    LET Q == [qp EXCEPT ![f].avail = TRUE]
    IN  /\ ~nic.fault
        /\ ~qp[f].avail
        /\ IF f \in nic.nextSend
             THEN Transmits(Q, [nic EXCEPT !.nextSend = {}])
             ELSE qp' = Q /\ UNCHANGED nic
        /\ UNCHANGED <<rx, data, acks, taken, losses, pauses>>

\* A PFC frame from the switch pauses or resumes a class.
ReceivePause(c) ==
    /\ ~nic.fault
    /\ c \notin nic.paused /\ pauses < MaxPause
    /\ nic' = [nic EXCEPT !.paused = @ \cup {c}]
    /\ pauses' = pauses + 1
    /\ UNCHANGED <<qp, rx, data, acks, taken, losses>>

ReceiveResume(c) ==
    /\ ~nic.fault
    /\ c \in nic.paused
    /\ Transmits(qp, [nic EXCEPT !.paused = @ \ {c}])
    /\ UNCHANGED <<rx, data, acks, taken, losses, pauses>>

\* ReceiveUdp: creates the receiving QP if need be and answers.
ReceiveUdp(f) ==
    LET pkt == Head(data[f])
        r == ReceiverCheckSeq(GetRxQp(f), pkt)
    IN  /\ ~nic.fault
        /\ data[f] # <<>>
        /\ data' = [data EXCEPT ![f] = Tail(@)]
        /\ rx' = [rx EXCEPT ![f] = r.q]
        /\ acks' = IF r.reply = "none" THEN acks
                   ELSE [acks EXCEPT ![f] =
                            Append(@, [kind |-> r.reply, seq |-> r.q.expected])]
        /\ taken' = [taken EXCEPT ![f] =
                        IF pkt.seq <= @ THEN Max({@, pkt.seq + pkt.len}) ELSE @]
        /\ UNCHANGED <<qp, nic, losses, pauses>>

\* ReceiveAck: acknowledges, completes the QP (qp_finish removes the receiving
\* QP at once), rewinds on a NACK and triggers the NIC.  A reply for a QP that
\* is no longer in m_qpMap is dropped.
ReceiveAck(f) ==
    LET a == Head(acks[f])
        ack == IF BackTo0 THEN (a.seq \div Chunk) * Chunk ELSE a.seq
        q1 == IF AckInterval = 0 THEN qp ELSE Acknowledge(qp, f, ack)
        completes == AckInterval # 0 /\ IsFinished(q1, f)
        q2 == IF completes THEN [q1 EXCEPT ![f].state = "done"] ELSE q1
        q3 == IF a.kind = "nack" THEN RecoverQueue(q2, f) ELSE q2
    IN  /\ ~nic.fault
        /\ acks[f] # <<>>
        /\ acks' = [acks EXCEPT ![f] = Tail(@)]
        /\ IF qp[f].state # "open"
             THEN UNCHANGED <<qp, nic, rx>>
             ELSE /\ rx' = IF completes THEN DeleteRxQp(f) ELSE rx
                  /\ Transmits(q3, nic)
        /\ UNCHANGED <<data, taken, losses, pauses>>

\* The nack interval since the last NACK of the receiving QP has passed.
NackTimerExpires(f) ==
    /\ ~nic.fault
    /\ ~rx[f].nackDue
    /\ rx' = [rx EXCEPT ![f].nackDue = TRUE]
    /\ UNCHANGED <<qp, nic, data, acks, taken, losses, pauses>>

\* The error model of a device on the path drops a packet.
LoseData(f) ==
    /\ ~nic.fault
    /\ losses < MaxLoss
    /\ data[f] # <<>>
    /\ data' = [data EXCEPT ![f] = Tail(@)]
    /\ losses' = losses + 1
    /\ UNCHANGED <<qp, nic, rx, acks, taken, pauses>>

LoseAck(f) ==
    /\ ~nic.fault
    /\ losses < MaxLoss
    /\ acks[f] # <<>>
    /\ acks' = [acks EXCEPT ![f] = Tail(@)]
    /\ losses' = losses + 1
    /\ UNCHANGED <<qp, nic, rx, data, taken, pauses>>

Next ==
    \/ TransmitComplete
    \/ \E c \in Classes : ReceivePause(c) \/ ReceiveResume(c)
    \/ \E f \in Flows :
          \/ AddQueuePair(f)
          \/ SlotComes(f)
          \/ ReceiveUdp(f)
          \/ ReceiveAck(f)
          \/ NackTimerExpires(f)
          \/ LoseData(f)
          \/ LoseAck(f)

Spec == Init /\ [][Next]_vars

\* What the event list of the simulator holds: flows to start, transmissions to
\* end, slots, packets on their way and the RESUME of a class that is paused.
Scheduled ==
    \/ TransmitComplete
    \/ \E c \in Classes : ReceiveResume(c)
    \/ \E f \in Flows : \/ AddQueuePair(f)
                        \/ SlotComes(f)
                        \/ ReceiveUdp(f)
                        \/ ReceiveAck(f)

\* The simulator runs as long as an event is scheduled.
Fairness == WF_vars(Scheduled)

FairSpec == Spec /\ Fairness

-----------------------------------------------------------------------------
(* Properties *)

Packet == [seq : 0 .. SeqRange - 1, len : 0 .. Mtu]
Reply == [kind : {"ack", "nack"}, seq : 0 .. SeqRange - 1]

\* Type correctness of the transport state.
TypeOK ==
    /\ qp \in [Flows -> [nxt : Nat, una : Nat, avail : BOOLEAN,
                         state : {"new", "open", "done"}]]
    /\ nic.grp \in Seq(Flows) /\ nic.rrlast \in Nat
    /\ nic.fault \in BOOLEAN
    /\ \A i \in 1 .. Len(nic.tx) :
          i = 1 /\ nic.tx[i] \in [flow : Flows, seq : 0 .. SeqRange - 1, len : 0 .. Mtu]
    /\ nic.paused \subseteq Classes /\ nic.nextSend \subseteq Flows
    /\ rx \in [Flows -> [exists : BOOLEAN, expected : 0 .. SeqRange - 1,
                         nackDue : BOOLEAN, lastNACK : 0 .. SeqRange - 1]]
    /\ data \in [Flows -> Seq(Packet)]
    /\ acks \in [Flows -> Seq(Reply)]
    /\ taken \in [Flows -> Nat]
    /\ losses \in 0 .. MaxLoss /\ pauses \in 0 .. MaxPause

\* Reliability: what the sender takes as acknowledged (and so a flow that
\* QpComplete reports as finished) has reached the receiver without a gap,
\* whatever is lost, retransmitted twice or answered late.
AckedIsReceived == \A f \in Flows : qp[f].una <= taken[f]

\* qbb-net-device.cc: the picked index is kept up to date "after removing
\* finished qp", so that m_qps is never read beyond its end.
PickInRange == ~nic.fault

\* rdma-queue-pair.h: m_win is the "bound of on-the-fly packets".  The window is
\* tested before a packet is sent, so that one packet may exceed it.
OnTheFlyBounded ==
    \A f \in Flows : Win[f] # 0 => GetOnTheFly(qp, f) < Win[f] + Mtu

\* Without loss the receiver never asks for a retransmission and nothing is
\* sent twice.
NoSpuriousRetransmission ==
    losses = 0 => \A f \in Flows :
        /\ \A i \in 1 .. Len(acks[f]) : acks[f][i].kind = "ack"
        /\ \A i \in 1 .. Len(data[f]) : data[f][i].seq >= taken[f]

\* Without loss, completion leaves nothing behind: no packet of the flow is
\* under way that would make GetRxQp create the receiving QP again.
CompletionIsFinal ==
    losses = 0 => \A f \in Flows : qp[f].state = "done" =>
        /\ data[f] = <<>> /\ ~rx[f].exists
        /\ \A i \in 1 .. Len(nic.tx) : nic.tx[i].flow # f

\* Without loss every flow is completed: neither PFC nor the window nor the
\* rate limiter strands a QP.
AllComplete == \A f \in Flows : <>(qp[f].state = "done")

=============================================================================
