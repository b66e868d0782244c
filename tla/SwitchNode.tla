----------------------------- MODULE SwitchNode -----------------------------
(***************************************************************************)
(* A switch: the node (switch-node.cc), its MMU (SwitchMmu), and for every *)
(* port the device that transmits (qbb-net-device.cc) from a multi-queue   *)
(* egress buffer (broadcom-egress-queue.cc).                               *)
(*                                                                         *)
(* One action is one event of the simulator and runs to completion: the    *)
(* arrival of a packet may admit it, send a PAUSE on the ingress port,     *)
(* enqueue the packet, start its transmission at once, thereby release it  *)
(* and send a RESUME.  The handlers are therefore operators on the record  *)
(* s of the node's state and an action is a chain of them.                 *)
(*                                                                         *)
(* peer is the m_paused flag of the device at the other end of each link:  *)
(* it runs the same code, QbbNetDevice::Receive.                           *)
(***************************************************************************)
EXTENDS Integers, Sequences, FiniteSets, Counting

CONSTANTS
    Ports, Queues, PacketSizes, BufferSize, Reserve, Headroom, PfcDivisor,
    ResumeOffset, UintRange,   \* the parameters of SwitchMmu
    QCnt,           \* qCnt: queues are 0 .. QCnt-1, queue 0 has strict priority
    DataRoutes,     \* pairs <<in, out>> that the routing tables ever allow for data
    Detours,        \* those among them that only the tables of after LINK_DOWN allow
    ControlRoutes,  \* and for ACK, NACK and CNP
    EcnEnabled,     \* m_ecnEnabled
    Kmin, Kmax,     \* ECN thresholds of a port, in bytes
    ControlSize,    \* size of an ACK, NACK or CNP that travels in queue 0
    MaxControl,     \* bound: bytes of such packets accepted per route
    Downable,       \* ports whose link may be taken down (LINK_DOWN)
    PeersObey,      \* neighbours send no data of a class that is paused
    LossyLinks,     \* the receive error model may drop a PFC frame
    MaxPfc          \* bound: no data of a class arrives while so many PFC frames
                    \* for it are on their way to the neighbour

ASSUME NodeAssumption ==
    /\ QCnt \in Nat /\ Queues \subseteq 1 .. QCnt - 1 /\ IsFiniteSet(Ports)
    /\ PacketSizes \subseteq Nat \ {0} /\ Reserve \in Nat /\ UintRange \in Nat \ {0}
    /\ DataRoutes \cup ControlRoutes \subseteq Ports \X Ports
    /\ Detours \subseteq DataRoutes /\ Downable \subseteq Ports
    /\ ControlSize \in Nat \ {0} /\ MaxControl \in Nat /\ MaxPfc \in Nat \ {0}
    /\ {EcnEnabled, PeersObey, LossyLinks} \subseteq BOOLEAN

VARIABLES
    mmu,       \* m_mmu
    halted,    \* the process has called exit(-1)
    dev,       \* m_devices: transmitter, egress queues, pause flags, link
    m_bytes,   \* m_bytes[inDev][outDev][qIndex]
    failed,    \* the NS_ASSERT of a device that has failed, or "no"
    wire,      \* PFC frames in flight to the neighbour on each link
    peer,      \* m_paused of the neighbour on each link, per class
    leaked,    \* bytes of packets that TakeDown dropped, by in, out and queue
    lostPfc    \* history: the error model has dropped a PFC frame

vars == <<mmu, halted, dev, m_bytes, failed, wire, peer, leaked, lostPfc>>

AllQueues == {0} \cup Queues

\* The index triples <<in, out, q>> of m_bytes that a route can reach.
Lanes(S) == {r \in Ports \X Ports \X S :
                <<r[1], r[2]>> \in (IF r[3] = 0 THEN ControlRoutes ELSE DataRoutes)}
DataLanes == Lanes(Queues)

\* Frames: data and control packets know the port they came in by; a PFC frame
\* names the class it pauses or resumes.
Data(in, q, size) == [kind |-> "data", in |-> in, q |-> q, size |-> size, ecn |-> FALSE]
Control(in) == [kind |-> "ctrl", in |-> in, q |-> 0, size |-> ControlSize, ecn |-> FALSE]
Pfc(kind, p, q) == [kind |-> kind, in |-> p, q |-> q, size |-> 0, ecn |-> FALSE]
Idle == [kind |-> "none", in |-> 0, q |-> 0, size |-> 0, ecn |-> FALSE]

-----------------------------------------------------------------------------
(* Bytes the node holds, and the MMU specification on them *)

\* The bytes of the frames that came in by a port.
Bytes(frames, in) ==
    SumOf([i \in 1 .. Len(frames) |-> IF frames[i].in = in THEN frames[i].size ELSE 0])

Held(r) == Bytes(dev[r[2]].fifo[r[3]], r[1]) + leaked[r]
HeldIn == [x \in Ports \X Queues |->
    SumOf([r \in {l \in DataLanes : <<l[1], l[3]>> = x} |-> Held(r)])]
HeldOut == [x \in Ports \X Queues |->
    SumOf([r \in {l \in DataLanes : <<l[2], l[3]>> = x} |-> Held(r)])]

Mmu == INSTANCE SwitchMmu WITH inQ <- HeldIn, outQ <- HeldOut

-----------------------------------------------------------------------------
(* The egress device *)

Enqueue(s, p, q, f) == [s EXCEPT !.dev[p].fifo[q] = Append(@, f)]

\* Mutation: the transmitter is not marked busy.
TransmitStartReady(s, p, f) == [s EXCEPT !.dev[p].current = f]

\* NS_ASSERT_MSG: "Must be READY to transmit".
TransmitStart(s, p, f) ==
    IF s.dev[p].tx = "BUSY"
      THEN [s EXCEPT !.failed = "ready"]
      ELSE [s EXCEPT !.dev[p].tx = "BUSY", !.dev[p].current = f]

\* DequeueAndTransmit when the caller has just put a frame in queue 0, which
\* has strict priority and no regard for m_paused.
TransmitControl(s, p) ==
    IF ~s.dev[p].up \/ s.dev[p].tx = "BUSY"
      THEN s
      ELSE TransmitStart([s EXCEPT !.dev[p].fifo[0] = Tail(@)],
                         p, Head(s.dev[p].fifo[0]))

SendPfc(s, p, q, kind) == TransmitControl(Enqueue(s, p, 0, Pfc(kind, p, q)), p)

CheckAndSendPfc(s, p, q) ==
    IF Mmu!CheckShouldPause(s.mmu, <<p, q>>)
      THEN [SendPfc(s, p, q, "pause") EXCEPT !.mmu.paused[<<p, q>>] = TRUE]
      ELSE s

\* Mutation: the pause flag is cleared and no frame is sent.
ResumeSilently(s, p, q) ==
    IF Mmu!CheckShouldResume(s.mmu, <<p, q>>)
      THEN [s EXCEPT !.mmu.paused[<<p, q>>] = FALSE]
      ELSE s

CheckAndSendResume(s, p, q) ==
    IF Mmu!CheckShouldResume(s.mmu, <<p, q>>)
      THEN [SendPfc(s, p, q, "resume") EXCEPT !.mmu.paused[<<p, q>>] = FALSE]
      ELSE s

\* ShouldSendCN: certain above kmax, possible (coin) above kmin.
ShouldSendCN(s, p, q, coin) ==
    \/ s.mmu.egress[<<p, q>>] > Kmax[p]
    \/ s.mmu.egress[<<p, q>>] > Kmin[p] /\ coin

\* Mutation: the egress bytes of the ingress port are released.
NotifyWrongPort(s, p, f) ==
    LET m1 == Mmu!RemoveFromIngressAdmission(s.mmu, <<f.in, f.q>>, f.size)
        m2 == Mmu!RemoveFromEgressAdmission(m1, <<f.in, f.q>>, f.size)
    IN  [s EXCEPT !.mmu = m2, !.m_bytes[<<f.in, p, f.q>>] = Mmu!Minus(@, f.size)]

\* The accounting part of SwitchNotifyDequeue; queue 0 is not accounted.
SwitchNotifyDequeue(s, p, f) ==
    LET m1 == Mmu!RemoveFromIngressAdmission(s.mmu, <<f.in, f.q>>, f.size)
        m2 == Mmu!RemoveFromEgressAdmission(m1, <<p, f.q>>, f.size)
    IN  [s EXCEPT !.mmu = m2, !.m_bytes[<<f.in, p, f.q>>] = Mmu!Minus(@, f.size)]

\* DoDequeueRR: queue 0 first, else round robin from the queue after m_rrlast.
Eligible(d) == {q \in Queues : ~d.paused[q] /\ d.fifo[q] # <<>>}
\* Mutation: the search always starts at the first queue.
DistanceFromFirst(d, q) == q
Distance(d, q) == (q - d.rrlast - 1) % QCnt
NextQueue(d) ==
    IF d.fifo[0] # <<>> THEN 0
    ELSE CHOOSE q \in Eligible(d) :
            \A r \in Eligible(d) : Distance(d, q) <= Distance(d, r)

DequeueAndTransmit(s, p, coin) ==
    LET d == s.dev[p]
        q == NextQueue(d)
        f == Head(d.fifo[q])
        popped == [s EXCEPT !.dev[p].fifo[q] = Tail(@),
                            !.dev[p].rrlast = IF q = 0 THEN @ ELSE q]
        noted == SwitchNotifyDequeue(popped, p, f)
        mark == EcnEnabled /\ ShouldSendCN(noted, p, q, coin)
    IN  IF ~d.up \/ d.tx = "BUSY" \/ (d.fifo[0] = <<>> /\ Eligible(d) = {})
          THEN s
        ELSE IF q = 0
          THEN TransmitStart(popped, p, f)
        ELSE TransmitStart(CheckAndSendResume(noted, f.in, q), p, [f EXCEPT !.ecn = mark])

\* Mutation: a packet is sent without regard to the state of the transmitter.
SendAtOnce(s, p, q, f, coin) ==
    IF s.dev[p].up THEN TransmitStart(s, p, f) ELSE s
SwitchSend(s, p, q, f, coin) == DequeueAndTransmit(Enqueue(s, p, q, f), p, coin)

-----------------------------------------------------------------------------
(* Events *)

\* The outcomes of the random draw in ShouldSendCN.
Coins == IF EcnEnabled THEN BOOLEAN ELSE {FALSE}

Running == ~halted /\ failed = "no"

State == [mmu |-> mmu, dev |-> dev, m_bytes |-> m_bytes, failed |-> failed]

\* The event ends in the node state s.
Becomes(s) ==
    /\ mmu' = s.mmu
    /\ dev' = s.dev
    /\ m_bytes' = s.m_bytes
    /\ failed' = s.failed

Init ==
    /\ mmu = Mmu!SwitchMmuInit
    /\ halted = FALSE
    /\ dev = [p \in Ports |->
                [tx |-> "READY", current |-> Idle, up |-> TRUE, rrlast |-> 0,
                 fifo |-> [q \in AllQueues |-> <<>>],
                 paused |-> [q \in Queues |-> FALSE]]]
    /\ m_bytes = [r \in Lanes(AllQueues) |-> 0]
    /\ failed = "no"
    /\ wire = [p \in Ports |-> <<>>]
    /\ peer = [x \in Ports \X Queues |-> FALSE]
    /\ leaked = [r \in DataLanes |-> 0] /\ lostPfc = FALSE

\* GetOutDev chooses out for a packet that came in by in.  Once a link is down the
\* tables are new ones, and a packet that was under way may be sent back by the
\* port it came in by.
Forwardable(in, out, routes) ==
    /\ <<in, out>> \in routes /\ dev[in].up /\ dev[out].up
    /\ <<in, out>> \in routes \cap Detours => \E p \in Ports : ~dev[p].up

IsPfc(f) == f.kind \in {"pause", "resume"}

\* The number of PFC frames for a class that the neighbour has not yet seen.
PendingPfc(p, q) ==
    LET frames == wire[p] \o <<dev[p].current>> \o dev[p].fifo[0]
    IN  Cardinality({i \in DOMAIN frames : IsPfc(frames[i]) /\ frames[i].q = q})

\* SendToDev of a packet that the MMU accounts.
ReceiveData(in, out, q, size, coin) ==
    LET x == <<in, q>>
        m1 == Mmu!UpdateIngressAdmission(mmu, x, size)
        m2 == Mmu!UpdateEgressAdmission(m1, <<out, q>>, size)
        s1 == CheckAndSendPfc([State EXCEPT !.mmu = m2], in, q)
        s2 == [s1 EXCEPT !.m_bytes[<<in, out, q>>] = Mmu!Plus(@, size)]
    IN  /\ Running
        /\ Forwardable(in, out, DataRoutes)
        /\ PeersObey => ~peer[x]
        /\ PendingPfc(in, q) < MaxPfc
        /\ Mmu!CheckIngressAdmission(mmu, x, size)
        /\ Becomes(SwitchSend(s2, out, q, Data(in, q, size), coin))
        /\ UNCHANGED <<halted, wire, peer, leaked, lostPfc>>

\* CheckIngressAdmission finds no room and exits.
RejectData(in, out, q, size) ==
    /\ Running
    /\ Forwardable(in, out, DataRoutes)
    /\ PeersObey => ~peer[<<in, q>>]
    /\ ~Mmu!CheckIngressAdmission(mmu, <<in, q>>, size)
    /\ halted' = TRUE
    /\ UNCHANGED <<mmu, dev, m_bytes, failed, wire, peer, leaked, lostPfc>>

\* SendToDev of an ACK, NACK or CNP that goes to queue 0.
ReceiveControl(in, out) ==
    LET s1 == [State EXCEPT !.m_bytes[<<in, out, 0>>] = Mmu!Plus(@, ControlSize)]
    IN  /\ Running
        /\ Forwardable(in, out, ControlRoutes)
        /\ m_bytes[<<in, out, 0>>] + ControlSize <= MaxControl
        /\ Becomes(SwitchSend(s1, out, 0, Control(in), FALSE))
        /\ UNCHANGED <<halted, wire, peer, leaked, lostPfc>>

\* A PFC frame of the downstream neighbour, which alternates PAUSE and RESUME
\* for the classes it is sent.
ReceivePause(p, q) ==
    /\ Running /\ dev[p].up /\ ~dev[p].paused[q]
    /\ \E in \in Ports : <<in, p>> \in DataRoutes
    /\ dev' = [dev EXCEPT ![p].paused[q] = TRUE]
    /\ UNCHANGED <<mmu, halted, m_bytes, failed, wire, peer, leaked, lostPfc>>

\* Mutation: a RESUME does not start the transmitter.
ResumeWithoutTransmit(p, q, coin) ==
    /\ Running /\ dev[p].up /\ dev[p].paused[q]
    /\ Becomes([State EXCEPT !.dev[p].paused[q] = FALSE])
    /\ UNCHANGED <<halted, wire, peer, leaked, lostPfc>>

ReceiveResume(p, q, coin) ==
    /\ Running /\ dev[p].up /\ dev[p].paused[q]
    /\ Becomes(DequeueAndTransmit([State EXCEPT !.dev[p].paused[q] = FALSE], p, coin))
    /\ UNCHANGED <<halted, wire, peer, leaked, lostPfc>>

\* The frame has left the port and the transmitter takes the next one.
TransmitComplete(p, coin) ==
    LET f == dev[p].current
        s1 == [State EXCEPT !.dev[p].tx = "READY", !.dev[p].current = Idle]
    IN  /\ Running
        /\ dev[p].tx = "BUSY"
        /\ Becomes(DequeueAndTransmit(s1, p, coin))
        /\ wire' = IF IsPfc(f) /\ dev[p].up THEN [wire EXCEPT ![p] = Append(@, f)] ELSE wire
        /\ UNCHANGED <<halted, peer, leaked, lostPfc>>

\* The neighbour's QbbNetDevice::Receive of a PFC frame; its Resume asserts
\* that the queue "Must be PAUSEd".
DeliverPfc(p) ==
    LET f == Head(wire[p])
    IN  /\ Running
        /\ wire[p] # <<>>
        /\ wire' = [wire EXCEPT ![p] = Tail(@)]
        /\ peer' = [peer EXCEPT ![<<p, f.q>>] = (f.kind = "pause")]
        /\ failed' = IF f.kind = "resume" /\ ~peer[<<p, f.q>>] THEN "paused" ELSE "no"
        /\ UNCHANGED <<mmu, halted, dev, m_bytes, leaked, lostPfc>>

\* The error model of the neighbour's device corrupts the frame.
LosePfc(p) ==
    /\ Running /\ LossyLinks
    /\ wire[p] # <<>>
    /\ wire' = [wire EXCEPT ![p] = Tail(@)] /\ lostPfc' = TRUE
    /\ UNCHANGED <<mmu, halted, dev, m_bytes, failed, peer, leaked>>

\* QbbNetDevice::TakeDown of a switch port: the queues are emptied without
\* SwitchNotifyDequeue, so what they held stays accounted.  The neighbour's
\* device goes down too; a switch forgets what was paused, a host does not.
TakeDown(p) ==
    /\ Running /\ p \in Downable /\ dev[p].up
    /\ dev' = [dev EXCEPT ![p].up = FALSE,
                          ![p].fifo = [q \in AllQueues |-> <<>>],
                          ![p].paused = [q \in Queues |-> FALSE]]
    /\ leaked' = [r \in DOMAIN leaked |->
                    leaked[r] + (IF r[2] = p THEN Bytes(dev[p].fifo[r[3]], r[1]) ELSE 0)]
    /\ wire' = [wire EXCEPT ![p] = <<>>]
    /\ peer' \in {peer, [x \in DOMAIN peer |-> peer[x] /\ x[1] # p]}
    /\ UNCHANGED <<mmu, halted, m_bytes, failed, lostPfc>>

Next ==
    \/ \E in \in Ports, out \in Ports, q \in Queues, size \in PacketSizes :
          \/ \E coin \in Coins : ReceiveData(in, out, q, size, coin)
          \/ RejectData(in, out, q, size)
    \/ \E in \in Ports, out \in Ports : ReceiveControl(in, out)
    \/ \E p \in Ports, q \in Queues :
          \/ ReceivePause(p, q)
          \/ \E coin \in Coins : ReceiveResume(p, q, coin)
    \/ \E p \in Ports :
          \/ \E coin \in Coins : TransmitComplete(p, coin)
          \/ DeliverPfc(p)
          \/ LosePfc(p)
          \/ TakeDown(p)

Spec == Init /\ [][Next]_vars

\* Scheduled events happen: a transmission ends and a frame that was sent
\* arrives.
Fairness ==
    \A p \in Ports : /\ WF_vars(\E coin \in Coins : TransmitComplete(p, coin))
                    /\ WF_vars(DeliverPfc(p))

FairSpec == Spec /\ Fairness

-----------------------------------------------------------------------------
(* Properties *)

Frame == [kind : {"none", "data", "ctrl", "pause", "resume"}, in : {0} \cup Ports,
          q : AllQueues, size : Nat, ecn : BOOLEAN]

\* Type correctness of the node and its devices.
TypeOK ==
    /\ Mmu!TypeOK
    /\ \A p \in Ports :
          /\ dev[p].tx \in {"READY", "BUSY"} /\ dev[p].current \in Frame
          /\ dev[p].tx = "BUSY" <=> dev[p].current # Idle
          /\ \A q \in AllQueues : dev[p].fifo[q] \in Seq(Frame)
          /\ dev[p].rrlast \in AllQueues /\ dev[p].up \in BOOLEAN
          /\ dev[p].paused \in [Queues -> BOOLEAN]
          /\ wire[p] \in Seq(Frame)
    /\ m_bytes \in [Lanes(AllQueues) -> 0 .. UintRange - 1]
    /\ failed \in {"no", "ready", "paused"}
    /\ peer \in [Ports \X Queues -> BOOLEAN]
    /\ leaked \in [DataLanes -> Nat]

\* Whatever the devices do, the calls they make on the MMU are calls that the
\* MMU specification allows: a packet is released once, with the port, queue
\* and size it was admitted with, and what TakeDown drops is never released.
MmuRefinement == Mmu!Spec

\* No lost wake-up: a device whose link is up is READY only when it has nothing
\* it may send, because enqueueing, RESUME and the end of a transmission each
\* call DequeueAndTransmit.
WorkConserving ==
    \A p \in Ports : (Running /\ dev[p].up /\ dev[p].tx = "READY") =>
        dev[p].fifo[0] = <<>> /\ Eligible(dev[p]) = {}

\* A frame takes the neighbour's view of a class from v to w: a PFC frame for the
\* class changes it to what the frame says, any other leaves it.
Turns(f, q, v, w) ==
    IF IsPfc(f) /\ f.q = q THEN w = (f.kind = "pause") /\ v # w ELSE v = w
\* So do frames that arrive one after the other; view[i] is the view after i of them.
Leads(frames, q, v, w) ==
    \E view \in [0 .. Len(frames) -> BOOLEAN] :
        /\ view[0] = v /\ view[Len(frames)] = w
        /\ \A i \in 1 .. Len(frames) : Turns(frames[i], q, view[i - 1], view[i])

\* The MMU's pause flag is what the neighbour's m_paused will be once the frames
\* on the wire, in the transmitter and in queue 0 have arrived, and each PFC frame
\* among them changes it: PAUSE and RESUME are never duplicated or overtaken on
\* their way, and a RESUME finds the queue paused, as Resume asserts, unless the
\* link lost a frame.
NeighbourAgrees ==
    ~lostPfc => failed # "paused" /\
    \A p \in Ports, q \in Queues : (dev[p].up /\ Running) =>
        \E a, b \in BOOLEAN : /\ Leads(wire[p], q, peer[<<p, q>>], a)
                              /\ Turns(dev[p].current, q, a, b)
                              /\ Leads(dev[p].fifo[0], q, b, mmu.paused[<<p, q>>])

\* qbb-net-device.cc asserts "Must be READY to transmit" when it takes a frame.
\* This fails in one case only: the packet that a device has dequeued came in by the
\* same port, and its release has just put a RESUME in the transmitter.  No
\* interleaving of arrivals, nested PFC frames and ends of transmission makes it
\* fail otherwise, so that only packets sent back after LINK_DOWN can.
ReadyUnlessHairpin ==
    failed = "ready" =>
        \E p \in Ports : <<p, p>> \in DataRoutes /\ dev[p].current.kind = "resume"

\* Once the downstream neighbours stop pausing, a paused upstream neighbour is
\* eventually resumed (or the switch has run out of headroom and stopped): the
\* round robin reaches every class and the last dequeue sends the RESUME.
EventuallyResumed ==
    (<>[](\A p \in Ports, q \in Queues : ~dev[p].paused[q])) =>
        [](\A p \in Ports, q \in Queues : peer[<<p, q>>] => <>(~peer[<<p, q>>] \/ halted))

=============================================================================
