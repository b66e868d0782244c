------------------------------ MODULE SwitchMmu ------------------------------
(***************************************************************************)
(* The shared-buffer memory management unit of a switch (switch-mmu.cc) as *)
(* the switch node drives it: one admission per packet that is enqueued    *)
(* (SwitchNode::SendToDev), one release per packet that is dequeued        *)
(* (SwitchNode::SwitchNotifyDequeue), and the PFC pause state the two      *)
(* maintain per ingress port and priority queue.                           *)
(*                                                                         *)
(* The handlers of the MMU are operators on the record m of its counters,  *)
(* so that a module that composes the MMU with devices can chain them in   *)
(* one step.  The actions of this module are the ways in which a node uses *)
(* them; inQ and outQ are the bytes the node holds, per ingress and per    *)
(* egress queue, and say what a caller may release.                        *)
(***************************************************************************)
EXTENDS Integers, FiniteSets, Counting

CONSTANTS
    Ports,         \* the ports 1..n_port of the switch
    Queues,        \* the priority queues other than queue 0
    PacketSizes,   \* the sizes psize of packets, in bytes
    BufferSize,    \* buffer_size
    Reserve,       \* reserve: bytes reserved for each ingress queue
    Headroom,      \* headroom[port]
    PfcDivisor,    \* 2^pfc_a_shift[port]
    ResumeOffset,  \* resume_offset
    UintRange      \* 2^32: the counters are uint32_t

\* An ingress queue is a port and a priority.
PQ == Ports \X Queues

\* ConfigNPort: the headroom and one reserve of every port.
TotalHdrm == SumOf(Headroom)
TotalRsrv == Cardinality(Ports) * Reserve

\* Mutation: the headroom is not set aside.
SharedPoolWithHeadroom == BufferSize - TotalRsrv

\* What is left of the buffer for sharing when headroom and reserve of every
\* port are set aside.
SharedPool == BufferSize - TotalHdrm - TotalRsrv

ASSUME PortsAssumption == IsFiniteSet(Ports) /\ IsFiniteSet(Queues)

ASSUME SizesAssumption ==
    /\ PacketSizes \subseteq Nat \ {0} /\ PacketSizes # {}
    /\ Reserve \in Nat
    /\ Headroom \in [Ports -> Nat]
    /\ PfcDivisor \in [Ports -> Nat \ {0}]
    /\ ResumeOffset \in Nat
    /\ UintRange \in Nat \ {0}

\* buffer_size is a uint32_t, the configuration leaves a shared pool, and no
\* legal value of a counter plus one packet reaches the width of the counter.
ASSUME WidthAssumption ==
    /\ BufferSize \in 0 .. UintRange - 1
    /\ SharedPool \in 0 .. UintRange - 1
    /\ \A s \in PacketSizes, p \in Ports :
          Reserve + SharedPool + Headroom[p] + s < UintRange

VARIABLES
    mmu,     \* the counters and flags of SwitchMmu
    inQ,     \* bytes the node holds, per ingress queue
    outQ,    \* bytes the node holds, per egress queue
    halted   \* CheckIngressAdmission has called exit(-1)

vars == <<mmu, inQ, outQ, halted>>

-----------------------------------------------------------------------------
(* uint32_t arithmetic *)

Plus(a, b) == (a + b) % UintRange
Minus(a, b) == (a - b) % UintRange
Least(a, b) == IF a <= b THEN a ELSE b

-----------------------------------------------------------------------------
(* The handlers of SwitchMmu, on the record m of its state; an ingress or    *)
(* egress queue x is the pair <<port, qIndex>>.                              *)

SwitchMmuInit ==
    [shared  |-> 0,
     hdrm    |-> [x \in PQ |-> 0],
     ingress |-> [x \in PQ |-> 0],
     paused  |-> [x \in PQ |-> FALSE],
     egress  |-> [x \in PQ |-> 0]]

GetSharedUsed(m, x) ==
    IF m.ingress[x] > Reserve THEN m.ingress[x] - Reserve ELSE 0

GetPfcThreshold(m, p) == Minus(SharedPool, m.shared) \div PfcDivisor[p]

\* Mutation: the packet itself is not counted against the headroom.
AdmitIfHeadroomLeft(m, x, psize) ==
    \/ m.hdrm[x] < Headroom[x[1]]
    \/ psize + GetSharedUsed(m, x) <= GetPfcThreshold(m, x[1])

\* Fails when neither the headroom nor the shared pool takes the packet.
CheckIngressAdmission(m, x, psize) ==
    \/ psize + m.hdrm[x] <= Headroom[x[1]]
    \/ psize + GetSharedUsed(m, x) <= GetPfcThreshold(m, x[1])

\* Mutation: a packet that straddles the reserve is charged in full.
ChargeWholePacket(m, x, psize) ==
    LET newBytes == Plus(m.ingress[x], psize)
    IN  IF newBytes <= Reserve
          THEN [m EXCEPT !.ingress[x] = newBytes]
          ELSE IF newBytes - Reserve <= GetPfcThreshold(m, x[1])
          THEN [m EXCEPT !.ingress[x] = newBytes, !.shared = Plus(@, psize)]
          ELSE [m EXCEPT !.hdrm[x] = Plus(@, psize)]

\* Reserve first, then the shared pool up to the threshold, then headroom.
UpdateIngressAdmission(m, x, psize) ==
    LET newBytes == Plus(m.ingress[x], psize)
        inReserve == newBytes <= Reserve
        inShared == newBytes - Reserve <= GetPfcThreshold(m, x[1])
    IN  IF inReserve
          THEN [m EXCEPT !.ingress[x] = newBytes]
          ELSE IF inShared
          THEN [m EXCEPT !.ingress[x] = newBytes,
                         !.shared = Plus(@, Least(psize, newBytes - Reserve))]
          ELSE [m EXCEPT !.hdrm[x] = Plus(@, psize)]

UpdateEgressAdmission(m, x, psize) ==
    [m EXCEPT !.egress[x] = Plus(@, psize)]

\* Mutation: what the headroom gave back is taken from ingress_bytes too.
RemoveTwice(m, x, psize) ==
    LET fromHdrm == Least(m.hdrm[x], psize)
        fromShared == Least(psize - fromHdrm, GetSharedUsed(m, x))
    IN  [m EXCEPT !.hdrm[x] = Minus(@, fromHdrm),
                  !.ingress[x] = Minus(@, psize),
                  !.shared = Minus(@, fromShared)]

\* Mutation: signed counters, and the shared pool gets everything back.
RemoveSigned(m, x, psize) ==
    LET fromHdrm == Least(m.hdrm[x], psize)
    IN  [m EXCEPT !.hdrm[x] = @ - fromHdrm,
                  !.ingress[x] = @ - (psize - fromHdrm),
                  !.shared = @ - (psize - fromHdrm)]

\* Headroom is given back first, then the shared pool, then the reserve.
RemoveFromIngressAdmission(m, x, psize) ==
    LET fromHdrm == Least(m.hdrm[x], psize)
        fromShared == Least(psize - fromHdrm, GetSharedUsed(m, x))
    IN  [m EXCEPT !.hdrm[x] = Minus(@, fromHdrm),
                  !.ingress[x] = Minus(@, psize - fromHdrm),
                  !.shared = Minus(@, fromShared)]

\* Mutation: egress_bytes is not given back.
KeepEgress(m, x, psize) == m

RemoveFromEgressAdmission(m, x, psize) ==
    [m EXCEPT !.egress[x] = Minus(@, psize)]

CheckShouldPause(m, x) ==
    /\ ~m.paused[x]
    /\ m.hdrm[x] > 0 \/ GetSharedUsed(m, x) >= GetPfcThreshold(m, x[1])

\* Mutation: an empty queue is not resumed while others fill the pool.
ResumeBelowThreshold(m, x) ==
    /\ m.paused[x]
    /\ m.hdrm[x] = 0
    /\ GetSharedUsed(m, x) + ResumeOffset <= GetPfcThreshold(m, x[1])

CheckShouldResume(m, x) ==
    /\ m.paused[x]
    /\ m.hdrm[x] = 0
    /\ \/ GetSharedUsed(m, x) = 0
       \/ GetSharedUsed(m, x) + ResumeOffset <= GetPfcThreshold(m, x[1])

\* CheckAndSendPfc and CheckAndSendResume, as far as the MMU is concerned.
SetPauseIfNeeded(m, x) ==
    IF CheckShouldPause(m, x) THEN [m EXCEPT !.paused[x] = TRUE] ELSE m
SetResumeIfNeeded(m, x) ==
    IF CheckShouldResume(m, x) THEN [m EXCEPT !.paused[x] = FALSE] ELSE m

-----------------------------------------------------------------------------
(* What the node does with them, per packet *)

\* SendToDev, from a successful admission check to CheckAndSendPfc.
Enqueued(m, in, out, q, psize) ==
    SetPauseIfNeeded(
        UpdateEgressAdmission(
            UpdateIngressAdmission(m, <<in, q>>, psize), <<out, q>>, psize),
        <<in, q>>)

\* SwitchNotifyDequeue of a packet that is not in queue 0.
Dequeued(m, in, out, q, psize) ==
    SetResumeIfNeeded(
        RemoveFromEgressAdmission(
            RemoveFromIngressAdmission(m, <<in, q>>, psize), <<out, q>>, psize),
        <<in, q>>)

Init ==
    /\ mmu = SwitchMmuInit
    /\ inQ = [x \in PQ |-> 0]
    /\ outQ = [x \in PQ |-> 0]
    /\ halted = FALSE

\* A packet is admitted and waits in an egress queue.
Admit(in, out, q, psize) ==
    /\ ~halted
    /\ CheckIngressAdmission(mmu, <<in, q>>, psize)
    /\ mmu' = Enqueued(mmu, in, out, q, psize)
    /\ inQ' = [inQ EXCEPT ![<<in, q>>] = @ + psize]
    /\ outQ' = [outQ EXCEPT ![<<out, q>>] = @ + psize]
    /\ UNCHANGED halted

\* The egress device was idle: the packet is dequeued in the same event.
AdmitAndRelease(in, out, q, psize) ==
    /\ ~halted
    /\ CheckIngressAdmission(mmu, <<in, q>>, psize)
    /\ mmu' = Dequeued(Enqueued(mmu, in, out, q, psize), in, out, q, psize)
    /\ UNCHANGED <<inQ, outQ, halted>>

\* Neither headroom nor pool has room: "Headroom full", exit(-1).
Reject(in, q, psize) ==
    /\ ~halted
    /\ ~CheckIngressAdmission(mmu, <<in, q>>, psize)
    /\ halted' = TRUE
    /\ UNCHANGED <<mmu, inQ, outQ>>

\* A packet that was admitted leaves its egress queue.
Release(in, out, q, psize) ==
    /\ ~halted
    /\ psize <= inQ[<<in, q>>]
    /\ psize <= outQ[<<out, q>>]
    /\ mmu' = Dequeued(mmu, in, out, q, psize)
    /\ inQ' = [inQ EXCEPT ![<<in, q>>] = @ - psize]
    /\ outQ' = [outQ EXCEPT ![<<out, q>>] = @ - psize]
    /\ UNCHANGED halted

Next ==
    \E in \in Ports, out \in Ports, q \in Queues, psize \in PacketSizes :
        \/ Admit(in, out, q, psize)
        \/ AdmitAndRelease(in, out, q, psize)
        \/ Reject(in, q, psize)
        \/ Release(in, out, q, psize)

Spec == Init /\ [][Next]_vars

-----------------------------------------------------------------------------
(* Properties *)

\* Type correctness: the counters of switch-mmu.h are uint32_t, the bytes a
\* node holds are natural numbers.
TypeOK ==
    /\ mmu \in [shared  : 0 .. UintRange - 1,
                hdrm    : [PQ -> 0 .. UintRange - 1],
                ingress : [PQ -> 0 .. UintRange - 1],
                paused  : [PQ -> BOOLEAN],
                egress  : [PQ -> 0 .. UintRange - 1]]
    /\ inQ \in [PQ -> Nat]
    /\ outQ \in [PQ -> Nat]
    /\ halted \in BOOLEAN

\* However admissions and releases interleave, what an ingress queue is charged
\* in ingress_bytes and hdrm_bytes together is what the node holds for it:
\* RemoveFromIngressAdmission gives back from the headroom first, which is not
\* where UpdateIngressAdmission charged the packet, and still never takes a
\* counter below zero or leaves bytes behind.
IngressConserved ==
    \A x \in PQ : mmu.ingress[x] + mmu.hdrm[x] = inQ[x]

\* egress_bytes, the queue length ECN marking looks at, is what is queued.
EgressConserved == \A x \in PQ : mmu.egress[x] = outQ[x]

\* Bytes sit in the headroom of an ingress queue only while its upstream
\* neighbour has been told to pause: the first packet that goes to headroom
\* makes CheckShouldPause true in the same event, and CheckShouldResume waits
\* for the headroom to drain.
HeadroomOnlyWhilePaused ==
    \A x \in PQ : mmu.hdrm[x] > 0 => mmu.paused[x]

\* UpdateIngressAdmission never overfills the headroom, although the check that
\* guards it (CheckIngressAdmission) is a disjunction that also lets a packet
\* in when only the shared pool has room.
HeadroomBound == \A x \in PQ : mmu.hdrm[x] <= Headroom[x[1]]

\* A paused ingress queue still holds bytes, so that a later dequeue will run
\* CheckShouldResume for it: the dequeue of its last byte always resumes.
PausedHoldsBytes == \A x \in PQ : mmu.paused[x] => inQ[x] > 0

\* shared_used_bytes is the sum over all ingress queues of the bytes each uses
\* above its reserve, although it is maintained by increments and decrements.
SharedExact == mmu.shared = SumOf([x \in PQ |-> GetSharedUsed(mmu, x)])

\* shared_used_bytes never exceeds the pool: the subtraction in GetPfcThreshold,
\* unsigned in the code, never wraps to a huge threshold.
PoolBound == mmu.shared <= SharedPool

\* config_doc.txt: BUFFER_SIZE is the "buffer size per switch".  What the
\* switch holds, all ingress queues together, fits that buffer.
OccupancyWithinBuffer == SumOf(inQ) <= BufferSize

=============================================================================
