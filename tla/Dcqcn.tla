-------------------------------- MODULE Dcqcn --------------------------------
(***************************************************************************)
(* Congestion control of the hosts, DCQCN and DCQCN+ (rdma-hw.cc).         *)
(*                                                                         *)
(* An ECN mark that reaches the receiver becomes a CNP for the sender.     *)
(* DCQCN sets a flag in the ACK of the marked packet.  DCQCN+ notes the    *)
(* mark in a table; a scan event visits one entry of the table per scan    *)
(* interval, round robin, sends its CNP if one is due and drops entries    *)
(* that have been idle for long.  The sender cuts the rate of the QP on a  *)
(* CNP and raises it from timers that rearm themselves until the QP        *)
(* completes.  Meanwhile the tuner replaces the parameters of the hosts,   *)
(* the minimum rate among them, under QPs whose rates came from others.    *)
(*                                                                         *)
(* Time passes in units of the scan interval.  alpha is left out: it only  *)
(* decides by how much a cut reduces the rate, which may here be any       *)
(* amount the code can compute, so that the alpha timer is armed or not    *)
(* and does nothing else.                                                  *)
(***************************************************************************)
EXTENDS Integers, Sequences, FiniteSets, SequencesExt

CONSTANTS
    Flows,            \* the flows of one sender to one receiver
    Pg,               \* m_pg of each flow
    Started,          \* which flows may have data, without and with DCQCN+
    MinCnpInterval,   \* m_dcqcnPlusMinCnpIntervalUs, in scan intervals
    EntryTimeout,     \* m_dcqcnPlusEntryTimeoutUs
    InitialCnpOffset, \* m_dcqcnPlusInitialCnpOffsetUs
    LineRate,         \* rate of the NIC
    ParameterSets,    \* the values of m_minRate, m_rai and m_rhai the tuner may write
    PlusActiveStep,   \* step of an active increase of DCQCN+
    PlusHyperStep,    \* step of a hyper increase of DCQCN+
    RpgThreshold,     \* m_rpgThreshold
    ClampTgtRate,     \* m_EcnClampTgtRate
    MaxBack,          \* bound: no data arrives while so many replies are under way
    MaxLate           \* bound: marked packets that arrive after the last one

ASSUME DcqcnAssumption ==
    /\ IsFiniteSet(Flows) /\ Pg \in [Flows -> Nat]
    /\ Started \in [BOOLEAN -> SUBSET SUBSET Flows] /\ ClampTgtRate \in BOOLEAN
    /\ {MinCnpInterval, EntryTimeout, InitialCnpOffset, MaxBack, MaxLate} \subseteq Nat
    /\ {LineRate, PlusActiveStep, PlusHyperStep, RpgThreshold} \subseteq Nat \ {0}
    /\ ParameterSets \subseteq [minRate : 1 .. LineRate, rai : Nat \ {0}, rhai : Nat \ {0}]
    /\ MinCnpInterval <= EntryTimeout /\ InitialCnpOffset <= EntryTimeout

VARIABLES
    plus,     \* m_dcqcnPlusEnabled
    par,      \* the parameters in force
    rcv,      \* the receiver table, its visiting order, the cursor and the scan event
    sent,     \* by flow: the last data packet has arrived, and late packets so far
    back,     \* ACKs and CNPs on their way to the sender, by flow
    qp        \* the rate control state of the sending QPs

vars == <<plus, par, rcv, sent, back, qp>>

-----------------------------------------------------------------------------
(* The receiver scheduler of DCQCN+; age is the time since lastCnpTime *)

Absent == [in |-> FALSE, pending |-> FALSE, age |-> 0]

TrackDcqcnPlusReceiverEcn(r, f) ==
    IF r.table[f].in
      THEN [r EXCEPT !.table[f].pending = TRUE]
      ELSE [r EXCEPT !.table[f] = [in |-> TRUE, pending |-> TRUE, age |-> InitialCnpOffset],
                     !.order = Append(@, f),
                     !.scan = IF @ = "off" THEN "armed" ELSE @]

\* Mutation: the cursor stays where it was.
RemoveKeepsCursor(r, f) ==
    LET rest == SelectSeq(r.order, LAMBDA g : g # f)
    IN  [r EXCEPT !.table[f] = Absent, !.order = rest,
                  !.scan = IF rest = <<>> THEN "off" ELSE @]
\* Mutation: a removal cancels the scan even if entries remain.
RemoveCancelsScan(r, f) ==
    LET rest == SelectSeq(r.order, LAMBDA g : g # f)
    IN  [r EXCEPT !.table[f] = Absent, !.order = rest, !.cursor = 0, !.scan = "off"]

\* The first place of f is erased; one before the cursor moves it, and the last
\* entry cancels the scan.
RemoveDcqcnPlusReceiverState(r, f) ==
    LET found == {i \in 1 .. Len(r.order) : r.order[i] = f}
        rest == IF found = {} THEN r.order ELSE RemoveAt(r.order, Min(found))
        cursor == IF found # {} /\ Min(found) <= r.cursor THEN r.cursor - 1 ELSE r.cursor
    IN  [r EXCEPT !.table[f] = Absent,
                  !.order = rest,
                  !.cursor = IF cursor >= Len(rest) THEN 0 ELSE cursor,
                  !.scan = IF rest = <<>> THEN "off" ELSE @]

CnpDue(e) == e.pending /\ e.age > MinCnpInterval

\* What the scan makes of the entry of f, at which the cursor stands.
Visit(r, f) ==
    IF CnpDue(r.table[f])
      THEN [r EXCEPT !.table[f].pending = FALSE, !.table[f].age = 0, !.cursor = @ + 1]
    ELSE IF r.table[f].age > EntryTimeout
      THEN RemoveDcqcnPlusReceiverState(r, f)
    ELSE [r EXCEPT !.cursor = @ + 1]

\* The scan event is scheduled again as long as entries are left.
Rearm(r) ==
    [r EXCEPT !.cursor = IF @ >= Len(r.order) THEN 0 ELSE @,
              !.scan = IF r.order = <<>> THEN "off" ELSE "armed"]

-----------------------------------------------------------------------------
(* Rate control of a sending QP q *)

AtLeast(a, b) == IF a >= b THEN a ELSE b
AtMost(a, b) == IF a <= b THEN a ELSE b

\* Mutation: a cut may go below m_minRate.
CutsUnclamped(rate) == (rate \div 2) .. rate
\* The rates a cut may end in: at most half is taken, but the result is never
\* below the present m_minRate, which may be more than the rate was.
Cuts(rate) == {AtLeast(par.minRate, r) : r \in (rate \div 2) .. rate}

\* cnp_received_mlx.  DCQCN+ cuts at once and restarts both timers; DCQCN leaves
\* the cut to CheckRateDecreaseMlx, which the first CNP starts; that CNP scales
\* the rate by m_rateOnFirstCNP, whatever m_minRate is.
CnpReceivedPlus(q) ==
    {[q EXCEPT !.target = q.rate, !.rate = r, !.stage = 0, !.first = FALSE,
               !.timers = @ \cup {"alpha", "increase"}] : r \in Cuts(q.rate)}
CnpReceivedMlx(q) ==
    IF q.first
      THEN {[q EXCEPT !.cnp = TRUE, !.target = r, !.rate = r, !.first = FALSE,
                      !.timers = @ \cup {"alpha", "decrease"}] : r \in 1 .. q.rate}
      ELSE {[q EXCEPT !.cnp = TRUE]}
cnp_received_mlx(q) == IF plus THEN CnpReceivedPlus(q) ELSE CnpReceivedMlx(q)

\* The part of CheckRateDecreaseMlx that acts on the CNPs since the last one.
DecreaseRate(q) ==
    {[q EXCEPT !.target = IF ClampTgtRate \/ q.stage # 0 THEN q.rate ELSE @,
               !.rate = r, !.stage = 0, !.cnp = FALSE,
               !.timers = @ \cup {"increase"}] : r \in Cuts(q.rate)}

\* RateIncEventMlx: fast recovery, then active, then hyper increase.
RateIncEventMlx(q) ==
    LET step == IF q.stage < RpgThreshold THEN 0
                ELSE IF q.stage = RpgThreshold THEN IF plus THEN PlusActiveStep ELSE par.rai
                ELSE IF plus THEN PlusHyperStep ELSE par.rhai
        target == AtMost(LineRate, q.target + step)
    IN  [q EXCEPT !.target = target,
                  !.rate = (q.rate + target) \div 2,
                  !.stage = AtMost(RpgThreshold + 1, @ + 1)]

QpComplete(q) == [q EXCEPT !.open = FALSE, !.timers = {}]

-----------------------------------------------------------------------------
(* Events *)

\* A flow that has no data has nothing left to send, and nothing to repeat.
Init ==
    /\ plus \in BOOLEAN /\ par \in ParameterSets
    /\ rcv = [table |-> [f \in Flows |-> Absent], order |-> <<>>, cursor |-> 0, scan |-> "off"]
    /\ \E s \in Started[plus] :
          sent = [f \in Flows |-> [last |-> f \notin s, late |-> IF f \in s THEN 0 ELSE MaxLate]]
    /\ back = [f \in Flows |-> <<>>]
    /\ qp = [f \in Flows |-> [open |-> TRUE, rate |-> LineRate, target |-> LineRate,
                              stage |-> 0, first |-> TRUE, cnp |-> FALSE, timers |-> {},
                              ghost |-> FALSE]]

\* ReceiveUdp of a packet of f, with or without an ECN mark, and its ACK.
ReceiveUdp(f, ecn, last) ==
    /\ ~sent[f].last /\ Len(back[f]) < MaxBack
    /\ rcv' = IF plus /\ ecn THEN TrackDcqcnPlusReceiverEcn(rcv, f) ELSE rcv
    /\ back' = [back EXCEPT ![f] =
                  Append(@, [kind |-> "ack", cnp |-> ~plus /\ ecn, last |-> last])]
    /\ sent' = [sent EXCEPT ![f].last = last]
    /\ UNCHANGED <<plus, par, qp>>

\* A marked packet that was sent again arrives after the last one: nothing the
\* sender would act upon is sent back, but DCQCN+ takes note of the mark.
ReceiveLateUdp(f) ==
    /\ plus /\ sent[f].last /\ sent[f].late < MaxLate
    /\ rcv' = TrackDcqcnPlusReceiverEcn(rcv, f)
    /\ sent' = [sent EXCEPT ![f].late = @ + 1]
    /\ UNCHANGED <<plus, par, back, qp>>

\* Time passes; the scan event that was armed becomes due.
Tick ==
    /\ rcv.scan = "armed"
    /\ rcv' = [rcv EXCEPT
                 !.table = [f \in Flows |-> [rcv.table[f] EXCEPT !.age =
                              IF rcv.table[f].in THEN AtMost(EntryTimeout + 1, @ + 1) ELSE @]],
                 !.scan = "due"]
    /\ UNCHANGED <<plus, par, sent, back, qp>>

RunDcqcnPlusReceiverScheduler ==
    LET f == rcv.order[rcv.cursor + 1]
    IN  /\ rcv.scan = "due"
        /\ rcv' = Rearm(Visit(rcv, f))
        /\ back' = IF CnpDue(rcv.table[f])
                     THEN [back EXCEPT ![f] = Append(@, [kind |-> "cnp", cnp |-> TRUE, last |-> FALSE])]
                     ELSE back
        /\ UNCHANGED <<plus, par, sent, qp>>

\* Mutation: a CNP is taken whether or not its QP is still known.
ReceiveCnpAlways(f) ==
    /\ back[f] # <<>> /\ Head(back[f]).kind = "cnp"
    /\ back' = [back EXCEPT ![f] = Tail(@)]
    /\ \E q \in cnp_received_mlx(qp[f]) : qp' = [qp EXCEPT ![f] = q]
    /\ UNCHANGED <<plus, par, rcv, sent>>

\* A CNP for a QP that is no longer known, or of class 1, is ignored.
ReceiveCnp(f) ==
    /\ back[f] # <<>> /\ Head(back[f]).kind = "cnp"
    /\ back' = [back EXCEPT ![f] = Tail(@)]
    /\ IF qp[f].open /\ Pg[f] # 1
         THEN \E q \in cnp_received_mlx(qp[f]) : qp' = [qp EXCEPT ![f] = q]
         ELSE UNCHANGED qp
    /\ UNCHANGED <<plus, par, rcv, sent>>

\* ReceiveAck: the last ACK completes the QP, and qp_finish deletes the
\* receiving QP at once; only then the CNP flag of the ACK is looked at.  ghost
\* notes that it was looked at in vain.
ReceiveAck(f) ==
    LET a == Head(back[f])
        q1 == IF a.last THEN QpComplete(qp[f]) ELSE qp[f]
        q2 == [q1 EXCEPT !.ghost = a.last /\ a.cnp /\ q1.first]
    IN  /\ back[f] # <<>> /\ a.kind = "ack"
        /\ back' = [back EXCEPT ![f] = Tail(@)]
        /\ rcv' = IF a.last THEN RemoveDcqcnPlusReceiverState(rcv, f) ELSE rcv
        /\ \E q \in IF a.cnp THEN cnp_received_mlx(q2) ELSE {q2} : qp' = [qp EXCEPT ![f] = q]
        /\ UNCHANGED <<plus, par, sent>>

\* Mutation: a cut does not start the increase timer.
CheckRateDecreaseNoTimer(f) ==
    /\ "decrease" \in qp[f].timers /\ qp[f].cnp
    /\ \E q \in DecreaseRate(qp[f]) : qp' = [qp EXCEPT ![f] = [q EXCEPT !.timers = qp[f].timers]]
    /\ UNCHANGED <<plus, par, rcv, sent, back>>

\* The timers.  Without a CNP the decrease timer only rearms itself.
CheckRateDecreaseMlx(f) ==
    /\ "decrease" \in qp[f].timers /\ qp[f].cnp
    /\ \E q \in DecreaseRate(qp[f]) : qp' = [qp EXCEPT ![f] = q]
    /\ UNCHANGED <<plus, par, rcv, sent, back>>

RateIncEventTimerMlx(f) ==
    /\ "increase" \in qp[f].timers
    /\ qp' = [qp EXCEPT ![f] = RateIncEventMlx(@)]
    /\ UNCHANGED <<plus, par, rcv, sent, back>>

\* parameter_tuning of third.cc: every host takes the set the tuner wrote; the
\* rates and targets of the QPs stay as the old one left them.
ChangeParameters ==
    /\ par' \in ParameterSets \ {par}
    /\ UNCHANGED <<plus, rcv, sent, back, qp>>

Next ==
    \/ Tick
    \/ ChangeParameters
    \/ RunDcqcnPlusReceiverScheduler
    \/ \E f \in Flows :
          \/ \E ecn \in BOOLEAN, last \in BOOLEAN : ReceiveUdp(f, ecn, last)
          \/ ReceiveLateUdp(f)
          \/ ReceiveCnp(f)
          \/ ReceiveAck(f)
          \/ CheckRateDecreaseMlx(f)
          \/ RateIncEventTimerMlx(f)

Spec == Init /\ [][Next]_vars

\* Scheduled events happen; data and new parameters may stop coming.
Fairness ==
    /\ WF_vars(Tick) /\ WF_vars(RunDcqcnPlusReceiverScheduler)
    /\ \A f \in Flows : /\ WF_vars(ReceiveCnp(f) \/ ReceiveAck(f))
                       /\ WF_vars(CheckRateDecreaseMlx(f))
                       /\ WF_vars(RateIncEventTimerMlx(f))

FairSpec == Spec /\ Fairness

-----------------------------------------------------------------------------
(* Properties *)

\* Type correctness.  Whatever the tuner does to m_minRate and the steps under
\* the QPs, rate and target stay between 1 and the rate of the link, and a rate
\* passes its target only as far as a cut that was lifted to a minimum rate puts
\* it (rdma-hw.cc:913 and 953).  It may well be below m_minRate: a raised
\* minimum is not applied before the next cut, nor to that of the first CNP.
TypeOK ==
    /\ plus \in BOOLEAN /\ par \in ParameterSets
    /\ rcv.table \in [Flows -> [in : BOOLEAN, pending : BOOLEAN, age : 0 .. EntryTimeout + 1]]
    /\ rcv.order \in Seq(Flows) /\ rcv.cursor \in Nat /\ rcv.scan \in {"off", "armed", "due"}
    /\ sent \in [Flows -> [last : BOOLEAN, late : 0 .. MaxLate]]
    /\ \A f \in Flows :
          /\ back[f] \in Seq([kind : {"ack", "cnp"}, cnp : BOOLEAN, last : BOOLEAN])
          /\ qp[f].timers \subseteq {"alpha", "decrease", "increase"}
          /\ {qp[f].open, qp[f].first, qp[f].cnp, qp[f].ghost} \subseteq BOOLEAN
          /\ qp[f].stage \in 0 .. RpgThreshold + 1
          /\ qp[f].rate \in 1 .. LineRate /\ qp[f].target \in 1 .. LineRate
          /\ qp[f].rate > qp[f].target => \E s \in ParameterSets : qp[f].rate <= s.minRate

\* However marks, scans, timeouts and the deletion of receiving QPs interleave,
\* the order lists every entry of the table once, the cursor stands on one of
\* them and a scan is scheduled exactly while there are any.
SchedulerConsistent ==
    /\ ToSet(rcv.order) = {f \in Flows : rcv.table[f].in}
    /\ Cardinality(ToSet(rcv.order)) = Len(rcv.order)
    /\ rcv.cursor = 0 \/ rcv.cursor < Len(rcv.order)
    /\ rcv.scan = "off" <=> rcv.order = <<>>

\* No timer of a completed QP is armed, although CNPs for it may still be under
\* way.  The exception is DCQCN when the ACK that completes the QP carries its
\* first CNP: ReceiveAck then arms timers that nothing cancels any more.
TimersEndWithQp ==
    \A f \in Flows : (~qp[f].open /\ qp[f].timers # {}) => ~plus /\ qp[f].ghost

\* A mark that DCQCN+ has noted is answered by a CNP or dropped with its QP,
\* however busy the other entries are and whatever is removed around the cursor.
MarksAnswered ==
    \A f \in Flows : rcv.table[f].pending ~> ~rcv.table[f].pending

\* A congestion signal for f that the sender has not acted upon.
Signalled(f) ==
    \/ qp[f].cnp \/ rcv.table[f].pending
    \/ \E i \in 1 .. Len(back[f]) : back[f][i].cnp

\* Once a flow is no longer marked its rate recovers to the rate of the link, up
\* to rounding: every cut leaves the increase timer running, and no change of the
\* parameters stops it.
RateRecovers ==
    \A f \in Flows :
        <>[](qp[f].open /\ ~Signalled(f)) => <>[](qp[f].rate >= LineRate - 1)

=============================================================================
