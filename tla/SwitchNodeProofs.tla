-------------------------- MODULE SwitchNodeProofs --------------------------
(***************************************************************************)
(* The safety invariants of SwitchNode: the devices never lose a wake-up,  *)
(* never find the transmitter busy, and keep the neighbours' view of the   *)
(* pause state in step with the MMU, for every number of ports and classes *)
(* and every traffic; and the switch implements the specification of its   *)
(* MMU.                                                                    *)
(***************************************************************************)
EXTENDS SwitchNode, CountingProofs, SequenceTheorems, TLAPS

-----------------------------------------------------------------------------
(* Views *)

\* No frame, no change.
LEMMA LeadsNowhere ==
    ASSUME NEW q, NEW v \in BOOLEAN
    PROVE  Leads(<<>>, q, v, v)
<1> DEFINE view == [i \in 0 .. 0 |-> v]
<1>1. view \in [0 .. Len(<<>>) -> BOOLEAN] /\ view[0] = v
  OBVIOUS
<1>2. \A i \in 1 .. Len(<<>>) : FALSE
  OBVIOUS
<1> QED
  BY <1>1, <1>2 DEF Leads

\* A frame at the end takes the view on.
LEMMA LeadsAppend ==
    ASSUME NEW S, NEW z \in Seq(S), NEW f \in S, NEW q, NEW u, NEW v,
           NEW w \in BOOLEAN, Leads(z, q, u, v), Turns(f, q, v, w)
    PROVE  Leads(Append(z, f), q, u, w)
<1> DEFINE n == Len(z)
           y == Append(z, f)
<1>1. PICK view \in [0 .. n -> BOOLEAN] :
          /\ view[0] = u /\ view[n] = v
          /\ \A i \in 1 .. n : Turns(z[i], q, view[i - 1], view[i])
  BY DEF Leads
<1> DEFINE new == [i \in 0 .. n + 1 |-> IF i = n + 1 THEN w ELSE view[i]]
<1>2. n \in Nat /\ Len(y) = n + 1 /\ y[n + 1] = f /\ \A i \in 1 .. n : y[i] = z[i]
  OBVIOUS
<1> HIDE DEF n, y
<1>3. new \in [0 .. n + 1 -> BOOLEAN]
  BY <1>2, <1>1
<1>4. new[n + 1] = w /\ \A i \in 0 .. n : new[i] = view[i]
  BY <1>2
<1> HIDE DEF new
<1>5. ASSUME NEW i \in 1 .. n + 1 PROVE Turns(y[i], q, new[i - 1], new[i])
  <2>1. CASE i = n + 1
    <3>1. new[i - 1] = v /\ new[i] = w /\ y[i] = f
      BY <2>1, <1>1, <1>2, <1>4
    <3> QED
      BY <3>1
  <2>2. CASE i # n + 1
    <3>1. i \in 1 .. n /\ i - 1 \in 0 .. n /\ i \in 0 .. n
      BY <2>2, <1>2
    <3>2. new[i - 1] = view[i - 1] /\ new[i] = view[i] /\ y[i] = z[i]
      BY <3>1, <1>2, <1>4
    <3> QED
      BY <3>1, <3>2, <1>1
  <2> QED
    BY <2>1, <2>2
<1>6. new[0] = u
  BY <1>1, <1>2, <1>4
<1>7. Leads(y, q, u, w)
  BY <1>2, <1>3, <1>4, <1>5, <1>6 DEF Leads
<1> QED
  BY <1>7 DEF y

\* The first frame takes the view on, and the others start from there.
LEMMA LeadsTail ==
    ASSUME NEW S, NEW z \in Seq(S), z # <<>>, NEW q, NEW u, NEW w, Leads(z, q, u, w)
    PROVE  \E v \in BOOLEAN : Turns(Head(z), q, u, v) /\ Leads(Tail(z), q, v, w)
<1> DEFINE n == Len(z)
           y == Tail(z)
<1>1. PICK view \in [0 .. n -> BOOLEAN] :
          /\ view[0] = u /\ view[n] = w
          /\ \A i \in 1 .. n : Turns(z[i], q, view[i - 1], view[i])
  BY DEF Leads
<1> DEFINE new == [i \in 0 .. n - 1 |-> view[i + 1]]
<1>2. n \in Nat /\ n >= 1 /\ Len(y) = n - 1 /\ Head(z) = z[1]
  BY EmptySeq, LenProperties
<1>3. \A i \in 1 .. n - 1 : y[i] = z[i + 1]
  BY HeadTailProperties
<1> HIDE DEF n, y
<1>4. new \in [0 .. n - 1 -> BOOLEAN]
  BY <1>1, <1>2
<1>5. \A i \in 0 .. n - 1 : new[i] = view[i + 1]
  OBVIOUS
<1> HIDE DEF new
<1>6. ASSUME NEW i \in 1 .. n - 1 PROVE Turns(y[i], q, new[i - 1], new[i])
  <2>1. i + 1 \in 1 .. n /\ i - 1 \in 0 .. n - 1 /\ i \in 0 .. n - 1 /\ i - 1 + 1 = i
    BY <1>2
  <2>2. (i + 1) - 1 = i
    BY <2>1
  <2>3. Turns(z[i + 1], q, view[i], view[i + 1])
    BY <2>1, <2>2, <1>1
  <2>4. new[i - 1] = view[i] /\ new[i] = view[i + 1]
    BY <2>1, <1>5
  <2> QED
    BY <2>3, <2>4, <1>3
<1>7. new[0] = view[1] /\ new[n - 1] = w
  BY <1>1, <1>2, <1>5
<1>8. Leads(y, q, view[1], w)
  BY <1>2, <1>4, <1>6, <1>7 DEF Leads
<1>9. Turns(Head(z), q, u, view[1])
  <2>1. 1 \in 1 .. n /\ 1 - 1 = 0
    BY <1>2
  <2> QED
    BY <2>1, <1>1, <1>2
<1>10. view[1] \in BOOLEAN
  BY <1>1, <1>2
<1> QED
  BY <1>8, <1>9, <1>10 DEF y

-----------------------------------------------------------------------------
(***************************************************************************)
(* Types.  The sets Flags, Words and the like are kept closed in most      *)
(* steps: what matters there is that a value stays in them.                *)
(***************************************************************************)
Flags == BOOLEAN
Words == 0 .. UintRange - 1
PQ == Ports \X Queues

MmuStates ==
    [shared  : Words,
     hdrm    : [PQ -> Words],
     ingress : [PQ -> Words],
     paused  : [PQ -> Flags],
     egress  : [PQ -> Words]]

Frames ==
    [kind : {"none", "data", "ctrl", "pause", "resume"}, in : {0} \cup Ports,
     q : AllQueues, size : Nat, ecn : Flags]

PfcFrames == {f \in Frames : IsPfc(f) /\ f.q \in Queues}
\* What may be in queue q of port p.
Fits(p, q) ==
    IF q = 0 THEN {f \in Frames : f.kind = "ctrl"} \cup PfcFrames
    ELSE {f \in Frames : /\ f.kind = "data" /\ f.q = q /\ f.size \in PacketSizes
                         /\ <<f.in, p>> \in DataRoutes}
\* What may be in the transmitter.
Currents == {f \in Frames : f.kind # "none" /\ (IsPfc(f) => f.q \in Queues)} \cup {Idle}

Lines == [Queues -> Flags]
Fifos == [AllQueues -> Seq(Frames)]
Devices ==
    [tx : {"READY", "BUSY"}, current : Currents, up : Flags, rrlast : AllQueues,
     fifo : Fifos, paused : Lines]

Failures == {"no", "ready", "paused"}
NodeStates ==
    [mmu : MmuStates, dev : [Ports -> Devices], m_bytes : [Lanes(AllQueues) -> Words],
     failed : Failures]

\* A transmitter is busy exactly when it holds a frame, and every queue holds
\* what was routed to it.
Sound(p, d) ==
    /\ d.tx = "BUSY" <=> d.current # Idle
    /\ \A q \in AllQueues : d.fifo[q] \in Seq(Fits(p, q))

\* The wrapping sum and difference of numbers are words.
LEMMA WordsOf ==
    ASSUME NEW a \in Int, NEW b \in Int
    PROVE  Mmu!Plus(a, b) \in Words /\ Mmu!Minus(a, b) \in Words
<1>1. \A c \in Int, n \in Nat \ {0} : c % n \in 0 .. n - 1
  BY SMT
<1>2. a + b \in Int /\ a - b \in Int /\ UintRange \in Nat \ {0}
  BY NodeAssumption
<1> QED
  BY <1>1, <1>2 DEF Mmu!Plus, Mmu!Minus, Words

\* A word is a natural number.
LEMMA WordIsNat == 0 \in Words /\ \A w \in Words : w \in Nat /\ w \in Int
BY NodeAssumption DEF Words

\* The handlers of the MMU keep its counters words and its flags as they are.
LEMMA MmuTypes ==
    ASSUME NEW m \in MmuStates, NEW x \in PQ, NEW n \in Nat
    PROVE  /\ Mmu!UpdateIngressAdmission(m, x, n) \in MmuStates
           /\ Mmu!UpdateIngressAdmission(m, x, n).paused = m.paused
           /\ Mmu!UpdateEgressAdmission(m, x, n) \in MmuStates
           /\ Mmu!UpdateEgressAdmission(m, x, n).paused = m.paused
           /\ Mmu!RemoveFromIngressAdmission(m, x, n) \in MmuStates
           /\ Mmu!RemoveFromIngressAdmission(m, x, n).paused = m.paused
           /\ Mmu!RemoveFromEgressAdmission(m, x, n) \in MmuStates
           /\ Mmu!RemoveFromEgressAdmission(m, x, n).paused = m.paused
<1>1. /\ m.shared \in Int /\ m.hdrm[x] \in Int /\ m.ingress[x] \in Int
      /\ m.egress[x] \in Int /\ n \in Int /\ Reserve \in Int
  BY WordIsNat, NodeAssumption DEF MmuStates
<1>2. /\ Mmu!UpdateIngressAdmission(m, x, n) \in MmuStates
      /\ Mmu!UpdateIngressAdmission(m, x, n).paused = m.paused
  <2> DEFINE new == Mmu!Plus(m.ingress[x], n)
             d == Mmu!Least(n, new - Reserve)
             w == Mmu!Plus(m.shared, d)
             u == Mmu!Plus(m.hdrm[x], n)
  <2>1. new \in Words /\ u \in Words
    BY <1>1, WordsOf
  <2>2. d \in Int
    <3>1. new \in Int
      BY <2>1, WordIsNat
    <3> HIDE DEF new
    <3> QED
      BY <3>1, <1>1 DEF Mmu!Least
  <2>3. w \in Words
    <3> HIDE DEF d
    <3> QED
      BY <2>2, <1>1, WordsOf
  <2>4. \/ Mmu!UpdateIngressAdmission(m, x, n) = [m EXCEPT !.ingress[x] = new]
        \/ Mmu!UpdateIngressAdmission(m, x, n) = [m EXCEPT !.ingress[x] = new, !.shared = w]
        \/ Mmu!UpdateIngressAdmission(m, x, n) = [m EXCEPT !.hdrm[x] = u]
    BY DEF Mmu!UpdateIngressAdmission
  <2> HIDE DEF new, w, u
  <2> DEFINE hd == [m.hdrm EXCEPT ![x] = u]
             ing == [m.ingress EXCEPT ![x] = new]
  <2>5. hd \in [PQ -> Words] /\ ing \in [PQ -> Words]
    BY <2>1 DEF MmuStates
  <2>6. /\ [m EXCEPT !.ingress[x] = new] = [m EXCEPT !.ingress = ing]
        /\ [m EXCEPT !.ingress[x] = new, !.shared = w]
                = [m EXCEPT !.ingress = ing, !.shared = w]
        /\ [m EXCEPT !.hdrm[x] = u] = [m EXCEPT !.hdrm = hd]
    BY DEF MmuStates
  <2> HIDE DEF hd, ing
  <2>7. CASE Mmu!UpdateIngressAdmission(m, x, n) = [m EXCEPT !.ingress = ing]
    BY <2>5, <2>7 DEF MmuStates
  <2>8. CASE Mmu!UpdateIngressAdmission(m, x, n) = [m EXCEPT !.ingress = ing, !.shared = w]
    BY <2>3, <2>5, <2>8 DEF MmuStates
  <2>9. CASE Mmu!UpdateIngressAdmission(m, x, n) = [m EXCEPT !.hdrm = hd]
    BY <2>5, <2>9 DEF MmuStates
  <2> QED
    BY <2>4, <2>6, <2>7, <2>8, <2>9
<1>3. /\ Mmu!UpdateEgressAdmission(m, x, n) \in MmuStates
      /\ Mmu!UpdateEgressAdmission(m, x, n).paused = m.paused
  <2> DEFINE v == Mmu!Plus(m.egress[x], n)
  <2>1. v \in Words
    BY <1>1, WordsOf
  <2>2. Mmu!UpdateEgressAdmission(m, x, n) = [m EXCEPT !.egress[x] = v]
    BY DEF Mmu!UpdateEgressAdmission
  <2> HIDE DEF v
  <2> QED
    BY <2>1, <2>2 DEF MmuStates
<1>4. /\ Mmu!RemoveFromIngressAdmission(m, x, n) \in MmuStates
      /\ Mmu!RemoveFromIngressAdmission(m, x, n).paused = m.paused
  <2> DEFINE a == Mmu!Least(m.hdrm[x], n)
             b == Mmu!Least(n - a, Mmu!GetSharedUsed(m, x))
             u == Mmu!Minus(m.hdrm[x], a)
             v == Mmu!Minus(m.ingress[x], n - a)
             w == Mmu!Minus(m.shared, b)
  <2>1. a \in Int
    BY <1>1 DEF Mmu!Least
  <2>2. b \in Int
    <3> HIDE DEF a
    <3> QED
      BY <2>1, <1>1 DEF Mmu!Least, Mmu!GetSharedUsed
  <2>3. u \in Words /\ v \in Words /\ w \in Words
    <3>1. n - a \in Int
      BY <2>1
    <3> HIDE DEF a, b
    <3> QED
      BY <3>1, <2>1, <2>2, <1>1, WordsOf
  <2>4. Mmu!RemoveFromIngressAdmission(m, x, n)
            = [m EXCEPT !.hdrm[x] = u, !.ingress[x] = v, !.shared = w]
    BY DEF Mmu!RemoveFromIngressAdmission
  <2> HIDE DEF u, v, w
  <2> DEFINE hd == [m.hdrm EXCEPT ![x] = u]
             ing == [m.ingress EXCEPT ![x] = v]
  <2>5. hd \in [PQ -> Words] /\ ing \in [PQ -> Words]
    BY <2>3 DEF MmuStates
  <2>6. Mmu!RemoveFromIngressAdmission(m, x, n)
            = [m EXCEPT !.hdrm = hd, !.ingress = ing, !.shared = w]
    BY <2>4 DEF MmuStates
  <2> HIDE DEF hd, ing
  <2> QED
    BY <2>3, <2>5, <2>6 DEF MmuStates
<1>5. /\ Mmu!RemoveFromEgressAdmission(m, x, n) \in MmuStates
       /\ Mmu!RemoveFromEgressAdmission(m, x, n).paused = m.paused
  <2> DEFINE v == Mmu!Minus(m.egress[x], n)
  <2>1. v \in Words
    BY <1>1, WordsOf
  <2>2. Mmu!RemoveFromEgressAdmission(m, x, n) = [m EXCEPT !.egress[x] = v]
    BY DEF Mmu!RemoveFromEgressAdmission
  <2> HIDE DEF v
  <2> QED
    BY <2>1, <2>2 DEF MmuStates
<1> QED
  BY <1>2, <1>3, <1>4, <1>5

-----------------------------------------------------------------------------
(* One device *)

\* The neighbour's view goes from v to w with the frames y on the wire and those
\* that the device is still to send.
Agrees(d, y, q, v, w) ==
    \E a, b \in BOOLEAN : /\ Leads(y, q, v, a)
                          /\ Turns(d.current, q, a, b)
                          /\ Leads(d.fifo[0], q, b, w)

\* The device has nothing that it could send and does not.
Serving(d) == d.up /\ d.tx = "READY" => d.fifo[0] = <<>> /\ Eligible(d) = {}

\* A frame is added to a queue of the device.
Queued(d, q, f) == [d EXCEPT !.fifo[q] = Append(@, f)]

\* A frame is taken from the head of a queue and f is transmitted.
Taken(d, q, r, f) ==
    [tx |-> "BUSY", current |-> f, up |-> d.up, rrlast |-> r,
     fifo |-> [d.fifo EXCEPT ![q] = Tail(@)], paused |-> d.paused]

\* Neither a data or control frame nor an idle transmitter turns the view.
LEMMA OthersDoNotTurn ==
    ASSUME NEW f, ~IsPfc(f), NEW q, NEW v, NEW w
    PROVE  Turns(f, q, v, w) <=> v = w
BY DEF Turns

\* An idle transmitter holds no PFC frame.
LEMMA IdleIsNoPfc == ~IsPfc(Idle) /\ Idle.kind = "none"
BY DEF Idle, IsPfc

\* Queue 0 is one of the queues, and no class.
LEMMA QueueZero == 0 \in AllQueues /\ 0 \notin Queues /\ Queues \subseteq AllQueues
BY NodeAssumption DEF AllQueues

\* A device stays sound when a frame that fits is enqueued ...
LEMMA QueuedDevice ==
    ASSUME NEW p \in Ports, NEW d \in Devices, Sound(p, d), NEW q \in AllQueues,
           NEW f \in Fits(p, q)
    PROVE  LET e == Queued(d, q, f)
           IN  /\ e \in Devices /\ Sound(p, e)
               /\ e.tx = d.tx /\ e.current = d.current /\ e.up = d.up
               /\ e.rrlast = d.rrlast /\ e.paused = d.paused
               /\ e.fifo[q] = Append(d.fifo[q], f)
               /\ \A r \in AllQueues \ {q} : e.fifo[r] = d.fifo[r]
<1> DEFINE g == Append(d.fifo[q], f)
           z == [d.fifo EXCEPT ![q] = g]
           e == [d EXCEPT !.fifo = z]
<1>1. e = Queued(d, q, f)
  BY DEF Queued, Devices, Fifos
<1>2. d.fifo \in Fifos /\ \A r \in AllQueues : d.fifo[r] \in Seq(Fits(p, r))
  BY DEF Devices, Sound
<1>3. f \in Frames
  BY DEF Fits, PfcFrames
<1>4. g \in Seq(Frames) /\ g \in Seq(Fits(p, q))
  <2>1. d.fifo[q] \in Seq(Frames) /\ d.fifo[q] \in Seq(Fits(p, q))
    BY <1>2 DEF Fifos
  <2> QED
    BY <2>1, <1>3, AppendProperties
<1> HIDE DEF g
<1>5. z \in Fifos /\ z[q] = g /\ \A r \in AllQueues \ {q} : z[r] = d.fifo[r]
  BY <1>2, <1>4 DEF Fifos
<1> HIDE DEF z
<1>6. /\ e \in Devices /\ e.fifo = z
      /\ e.tx = d.tx /\ e.current = d.current /\ e.up = d.up
      /\ e.rrlast = d.rrlast /\ e.paused = d.paused
  BY <1>5 DEF Devices
<1> HIDE DEF e
<1>7. Sound(p, e)
  <2>1. \A r \in AllQueues : e.fifo[r] \in Seq(Fits(p, r))
    BY <1>2, <1>4, <1>5, <1>6
  <2> QED
    BY <2>1, <1>6 DEF Sound
<1> QED
  BY <1>1, <1>5, <1>6, <1>7 DEF g

\* ... and when a frame is taken.
LEMMA TakenDevice ==
    ASSUME NEW p \in Ports, NEW d \in Devices, Sound(p, d), NEW q \in AllQueues,
           d.fifo[q] # <<>>, NEW r \in AllQueues, NEW f \in Currents, f # Idle
    PROVE  LET e == Taken(d, q, r, f)
           IN  /\ e \in Devices /\ Sound(p, e)
               /\ e.tx = "BUSY" /\ e.current = f /\ e.up = d.up
               /\ e.rrlast = r /\ e.paused = d.paused
               /\ e.fifo[q] = Tail(d.fifo[q])
               /\ \A c \in AllQueues \ {q} : e.fifo[c] = d.fifo[c]
<1> DEFINE g == Tail(d.fifo[q])
           z == [d.fifo EXCEPT ![q] = g]
           e == Taken(d, q, r, f)
<1>1. /\ e.tx = "BUSY" /\ e.current = f /\ e.up = d.up
      /\ e.rrlast = r /\ e.paused = d.paused /\ e.fifo = z
  BY DEF Taken
<1>2. d.fifo \in Fifos /\ \A c \in AllQueues : d.fifo[c] \in Seq(Fits(p, c))
  BY DEF Devices, Sound
<1>3. g \in Seq(Frames) /\ g \in Seq(Fits(p, q))
  <2>1. d.fifo[q] \in Seq(Frames) /\ d.fifo[q] \in Seq(Fits(p, q))
    BY <1>2 DEF Fifos
  <2> QED
    BY <2>1, HeadTailProperties
<1>4. z \in Fifos /\ z[q] = g /\ \A c \in AllQueues \ {q} : z[c] = d.fifo[c]
  <2> HIDE DEF g
  <2> QED
    BY <1>2, <1>3 DEF Fifos
<1>5. e \in Devices
  <2>1. e = [tx |-> "BUSY", current |-> f, up |-> d.up, rrlast |-> r,
             fifo |-> z, paused |-> d.paused]
    BY DEF Taken
  <2>2. d.up \in Flags /\ d.paused \in Lines
    BY DEF Devices
  <2> HIDE DEF e, z
  <2> QED
    BY <2>1, <2>2, <1>4 DEF Devices
<1> HIDE DEF e, z, g
<1>6. Sound(p, e)
  <2>1. \A c \in AllQueues : e.fifo[c] \in Seq(Fits(p, c))
    BY <1>1, <1>2, <1>3, <1>4
  <2> QED
    BY <2>1, <1>1 DEF Sound
<1> QED
  BY <1>1, <1>4, <1>5, <1>6 DEF e, g

\* A frame at the head of a queue may be transmitted.
LEMMA HeadIsCurrent ==
    ASSUME NEW p \in Ports, NEW d \in Devices, Sound(p, d), NEW q \in AllQueues,
           d.fifo[q] # <<>>
    PROVE  /\ Head(d.fifo[q]) \in Fits(p, q)
           /\ Head(d.fifo[q]) \in Currents
           /\ Head(d.fifo[q]) # Idle
<1>1. Head(d.fifo[q]) \in Fits(p, q)
  <2>1. d.fifo[q] \in Seq(Fits(p, q))
    BY DEF Sound
  <2> QED
    BY <2>1, HeadTailProperties
<1>2. ASSUME NEW f \in Fits(p, q) PROVE f \in Currents /\ f # Idle
  <2>1. f \in Frames /\ f.kind # "none" /\ (IsPfc(f) => f.q \in Queues)
    <3>1. CASE q = 0
      BY <3>1 DEF Fits, PfcFrames, IsPfc
    <3>2. CASE q # 0
      BY <3>2 DEF Fits, IsPfc
    <3> QED
      BY <3>1, <3>2
  <2> QED
    BY <2>1, IdleIsNoPfc DEF Currents
<1> QED
  BY <1>1, <1>2

\* A PFC frame that is enqueued takes the view of its class on to what it says,
\* and leaves the views of the other classes.
LEMMA QueuedAgrees ==
    ASSUME NEW p \in Ports, NEW d \in Devices, Sound(p, d), NEW f \in PfcFrames,
           NEW y, NEW q \in Queues, NEW v, NEW w \in BOOLEAN, Agrees(d, y, q, v, w)
    PROVE  LET e == Queued(d, 0, f)
           IN  /\ q # f.q => Agrees(e, y, q, v, w)
               /\ q = f.q /\ w # (f.kind = "pause") => Agrees(e, y, q, v, f.kind = "pause")
<1> DEFINE e == Queued(d, 0, f)
           z == d.fifo[0]
<1>1. f \in Fits(p, 0) /\ IsPfc(f) /\ f \in Frames
  BY DEF Fits, PfcFrames
<1>2. e.current = d.current /\ e.fifo[0] = Append(z, f)
  BY <1>1, QueuedDevice, QueueZero
<1>3. z \in Seq(Frames)
  BY QueueZero DEF Devices, Fifos
<1>4. PICK a, b \in BOOLEAN : /\ Leads(y, q, v, a) /\ Turns(d.current, q, a, b)
                              /\ Leads(z, q, b, w)
  BY DEF Agrees
<1> HIDE DEF e, z
<1>5. ASSUME NEW u \in BOOLEAN, Turns(f, q, w, u) PROVE Agrees(e, y, q, v, u)
  <2>1. Leads(Append(z, f), q, b, u)
    BY <1>1, <1>3, <1>4, <1>5, LeadsAppend
  <2> QED
    BY <2>1, <1>2, <1>4 DEF Agrees
<1>6. q # f.q => Turns(f, q, w, w)
  BY DEF Turns
<1>7. q = f.q /\ w # (f.kind = "pause") => Turns(f, q, w, f.kind = "pause")
  BY <1>1 DEF Turns
<1> QED
  BY <1>5, <1>6, <1>7 DEF e

\* Taking a frame from queue 0, or a data frame from another queue, leaves the
\* views as they are: the frame only moves on.
LEMMA TakenAgrees ==
    ASSUME NEW p \in Ports, NEW d \in Devices, Sound(p, d), NEW c \in AllQueues,
           d.fifo[c] # <<>>, d.tx = "READY", NEW r \in AllQueues, NEW f \in Currents,
           f # Idle, IF c = 0 THEN f = Head(d.fifo[0]) ELSE ~IsPfc(f),
           NEW y, NEW q \in Queues, NEW v, NEW w \in BOOLEAN, Agrees(d, y, q, v, w)
    PROVE  Agrees(Taken(d, c, r, f), y, q, v, w)
<1> DEFINE e == Taken(d, c, r, f)
           z == d.fifo[0]
<1>1. e.current = f /\ e.fifo[c] = Tail(d.fifo[c]) /\ (c # 0 => e.fifo[0] = z)
  BY TakenDevice, QueueZero
<1>2. z \in Seq(Frames)
  BY QueueZero DEF Devices, Fifos
<1>3. d.current = Idle
  BY DEF Sound
<1>4. PICK a, b \in BOOLEAN : /\ Leads(y, q, v, a) /\ Turns(d.current, q, a, b)
                              /\ Leads(z, q, b, w)
  BY DEF Agrees
<1>5. a = b
  BY <1>3, <1>4, IdleIsNoPfc, OthersDoNotTurn
<1> HIDE DEF e, z
<1>6. CASE c = 0
  <2>1. z # <<>> /\ f = Head(z) /\ e.fifo[0] = Tail(z)
    BY <1>6, <1>1 DEF z
  <2>2. \E u \in BOOLEAN : Turns(Head(z), q, b, u) /\ Leads(Tail(z), q, u, w)
    BY <2>1, <1>2, <1>4, LeadsTail
  <2> QED
    BY <2>1, <2>2, <1>1, <1>4, <1>5 DEF Agrees, e
<1>7. CASE c # 0
  <2>1. Turns(f, q, a, b)
    BY <1>5, <1>7, OthersDoNotTurn
  <2> QED
    BY <2>1, <1>1, <1>4, <1>7 DEF Agrees, e
<1> QED
  BY <1>6, <1>7

-----------------------------------------------------------------------------
(* The node with one device replaced *)

WithDev(s, p, d) == [s EXCEPT !.dev[p] = d]
\* The head of a queue is removed, and a frame is put in the transmitter.
Popped(d, q, r) == [d EXCEPT !.fifo[q] = Tail(@), !.rrlast = r]
Loaded(d, f) == [d EXCEPT !.tx = "BUSY", !.current = f]

\* Only the device of the port changes.
LEMMA WithDevIs ==
    ASSUME NEW s \in NodeStates, NEW p \in Ports, NEW d \in Devices
    PROVE  /\ WithDev(s, p, d) \in NodeStates
           /\ WithDev(s, p, d).dev[p] = d
           /\ \A o \in Ports \ {p} : WithDev(s, p, d).dev[o] = s.dev[o]
           /\ WithDev(s, p, d).mmu = s.mmu /\ WithDev(s, p, d).m_bytes = s.m_bytes
           /\ WithDev(s, p, d).failed = s.failed
<1> DEFINE g == [s.dev EXCEPT ![p] = d]
<1>1. g \in [Ports -> Devices] /\ g[p] = d /\ \A o \in Ports \ {p} : g[o] = s.dev[o]
  BY DEF NodeStates
<1>2. WithDev(s, p, d) = [s EXCEPT !.dev = g]
  BY DEF WithDev, NodeStates
<1> HIDE DEF g
<1>3. /\ [s EXCEPT !.dev = g] \in NodeStates /\ [s EXCEPT !.dev = g].dev = g
      /\ [s EXCEPT !.dev = g].mmu = s.mmu /\ [s EXCEPT !.dev = g].m_bytes = s.m_bytes
      /\ [s EXCEPT !.dev = g].failed = s.failed
  BY <1>1 DEF NodeStates
<1> QED
  BY <1>1, <1>2, <1>3

\* Enqueue changes one device.
LEMMA EnqueueIs ==
    ASSUME NEW s \in NodeStates, NEW p \in Ports, NEW q \in AllQueues, NEW f
    PROVE  Enqueue(s, p, q, f) = WithDev(s, p, Queued(s.dev[p], q, f))
BY DEF Enqueue, WithDev, Queued, NodeStates, Devices, Fifos

\* So does the start of a transmission.
LEMMA TransmitStartIs ==
    ASSUME NEW s \in NodeStates, NEW p \in Ports, s.dev[p].tx = "READY", NEW f
    PROVE  TransmitStart(s, p, f) = WithDev(s, p, Loaded(s.dev[p], f))
BY DEF TransmitStart, WithDev, Loaded, NodeStates, Devices

\* Taking a frame is removing it from the queue and loading it.
LEMMA TakenIs ==
    ASSUME NEW d \in Devices, NEW q \in AllQueues, NEW r, NEW f
    PROVE  Loaded(Popped(d, q, r), f) = Taken(d, q, r, f)
<1> DEFINE z == [d.fifo EXCEPT ![q] = Tail(@)]
<1>1. Popped(d, q, r) = [d EXCEPT !.fifo = z, !.rrlast = r]
  BY DEF Popped, Devices, Fifos
<1>2. Taken(d, q, r, f) = [tx |-> "BUSY", current |-> f, up |-> d.up, rrlast |-> r,
                           fifo |-> z, paused |-> d.paused]
  BY DEF Taken
<1> HIDE DEF z
<1>3. Loaded(Popped(d, q, r), f)
        = [d EXCEPT !.fifo = z, !.rrlast = r, !.tx = "BUSY", !.current = f]
  BY <1>1 DEF Loaded
<1>4. d = [tx |-> d.tx, current |-> d.current, up |-> d.up, rrlast |-> d.rrlast,
           fifo |-> d.fifo, paused |-> d.paused]
  BY DEF Devices
<1> QED
  BY <1>2, <1>3, <1>4, Zenon

\* A device stays sound when a queue loses its head.
LEMMA PoppedDevice ==
    ASSUME NEW p \in Ports, NEW d \in Devices, Sound(p, d), NEW q \in AllQueues,
           d.fifo[q] # <<>>, NEW r \in AllQueues
    PROVE  LET e == Popped(d, q, r)
           IN  /\ e \in Devices /\ Sound(p, e) /\ e.tx = d.tx /\ e.up = d.up
               /\ e.current = d.current /\ (q # 0 => e.fifo[0] = d.fifo[0])
<1> DEFINE g == Tail(d.fifo[q])
           z == [d.fifo EXCEPT ![q] = g]
           e == Popped(d, q, r)
<1>1. e = [d EXCEPT !.fifo = z, !.rrlast = r]
  BY DEF Popped, Devices, Fifos
<1>2. d.fifo \in Fifos /\ \A c \in AllQueues : d.fifo[c] \in Seq(Fits(p, c))
  BY DEF Devices, Sound
<1>3. g \in Seq(Frames) /\ g \in Seq(Fits(p, q))
  <2>1. d.fifo[q] \in Seq(Frames) /\ d.fifo[q] \in Seq(Fits(p, q))
    BY <1>2 DEF Fifos
  <2> QED
    BY <2>1, HeadTailProperties
<1> HIDE DEF g
<1>4. z \in Fifos /\ z[q] = g /\ \A c \in AllQueues \ {q} : z[c] = d.fifo[c]
  BY <1>2, <1>3 DEF Fifos
<1> HIDE DEF z, e
<1>5. /\ e \in Devices /\ e.tx = d.tx /\ e.up = d.up /\ e.current = d.current
      /\ e.fifo = z
  BY <1>1, <1>4 DEF Devices
<1>6. \A c \in AllQueues : e.fifo[c] \in Seq(Fits(p, c))
  BY <1>2, <1>3, <1>4, <1>5
<1> QED
  BY <1>4, <1>5, <1>6, QueueZero DEF Sound, e

\* The parts of a node's state fit together.
NodeOK(s) == s \in NodeStates /\ \A p \in Ports : Sound(p, s.dev[p])

\* Every neighbour's view, v before and with the frames y on the wires, ends at
\* the pause flag of the MMU.
InStep(s, y, v) ==
    \A p \in Ports, q \in Queues : s.dev[p].up =>
        Agrees(s.dev[p], y[p], q, v[<<p, q>>], s.mmu.paused[<<p, q>>])

\* A PFC frame fits in queue 0 and in the transmitter.
LEMMA PfcFits ==
    ASSUME NEW p \in Ports, NEW q \in Queues, NEW kind \in {"pause", "resume"}
    PROVE  /\ Pfc(kind, p, q) \in PfcFrames /\ Pfc(kind, p, q) \in Fits(p, 0)
           /\ Pfc(kind, p, q).kind = kind /\ Pfc(kind, p, q).q = q
<1>1. FALSE \in Flags
  BY DEF Flags
<1> QED
  BY <1>1, QueueZero DEF Pfc, PfcFrames, Fits, Frames, IsPfc

\* A PFC frame for class q has been added to what the device is to send: the view
\* of the class ends at u, the views of the others where they did.
Signals(d, e, q, u) ==
    \A y, v : \A c \in Queues, w \in BOOLEAN : Agrees(d, y, c, v, w) =>
        /\ c # q => Agrees(e, y, c, v, w)
        /\ c = q /\ w # u => Agrees(e, y, c, v, u)

\* The data queues of all devices are the same.
SameData(s, r) == \A o \in Ports, c \in Queues : r.dev[o].fifo[c] = s.dev[o].fifo[c]

\* A device that is up has sent a PFC frame of this kind or will, and is busy.
SentBy(d, l, kind) ==
    /\ l.paused = d.paused /\ l.up = d.up /\ (d.up => l.tx = "BUSY")
    /\ d.up /\ d.tx = "READY" /\ d.fifo[0] = <<>> => l.current.kind = kind

\* SendPfc: the frame is in the transmitter or waits in queue 0 of its port.
LEMMA SendPfcIs ==
    ASSUME NEW s, NodeOK(s), NEW p \in Ports, NEW q \in Queues,
           NEW kind \in {"pause", "resume"}
    PROVE  LET r == SendPfc(s, p, q, kind)
           IN  /\ NodeOK(r) /\ r.mmu = s.mmu /\ r.m_bytes = s.m_bytes /\ r.failed = s.failed
               /\ \A o \in Ports \ {p} : r.dev[o] = s.dev[o]
               /\ Serving(r.dev[p]) /\ r.dev[p].up = s.dev[p].up
               /\ Signals(s.dev[p], r.dev[p], q, kind = "pause")
               /\ SameData(s, r) /\ SentBy(s.dev[p], r.dev[p], kind)
<1> DEFINE r == SendPfc(s, p, q, kind)
           f == Pfc(kind, p, q)
           d == s.dev[p]
           e == Queued(d, 0, f)
           t == WithDev(s, p, e)
<1>1. s \in NodeStates /\ d \in Devices /\ Sound(p, d)
  BY DEF NodeOK, NodeStates
<1>2. f \in PfcFrames /\ f \in Fits(p, 0) /\ f.kind = kind /\ f.q = q
  BY PfcFits
<1>3. /\ e \in Devices /\ Sound(p, e) /\ e.tx = d.tx /\ e.up = d.up
      /\ e.rrlast = d.rrlast /\ e.fifo[0] = Append(d.fifo[0], f) /\ e.paused = d.paused
      /\ \A c \in Queues : e.fifo[c] = d.fifo[c]
  <2>1. /\ e \in Devices /\ Sound(p, e) /\ e.tx = d.tx /\ e.up = d.up /\ e.paused = d.paused
        /\ e.rrlast = d.rrlast /\ e.fifo[0] = Append(d.fifo[0], f)
        /\ \A c \in AllQueues \ {0} : e.fifo[c] = d.fifo[c]
    BY <1>1, <1>2, QueuedDevice, QueueZero
  <2> HIDE DEF e, d, f
  <2>2. \A c \in Queues : c \in AllQueues \ {0}
    BY QueueZero
  <2> QED
    BY <2>1, <2>2
<1>4. ASSUME NEW c \in Queues, NEW y, NEW v, NEW w \in BOOLEAN, Agrees(d, y, c, v, w)
      PROVE  /\ c # q => Agrees(e, y, c, v, w)
             /\ c = q /\ w # (kind = "pause") => Agrees(e, y, c, v, kind = "pause")
  BY <1>1, <1>2, <1>4, QueuedAgrees
<1>5. Signals(d, e, q, kind = "pause")
  BY <1>4 DEF Signals
<1>11. Enqueue(s, p, 0, f) = t
  BY <1>1, EnqueueIs, QueueZero
<1> HIDE DEF e, f
<1>6. /\ t \in NodeStates /\ t.dev[p] = e /\ t.mmu = s.mmu /\ t.m_bytes = s.m_bytes
      /\ t.failed = s.failed /\ \A o \in Ports \ {p} : t.dev[o] = s.dev[o]
  BY <1>1, <1>3, WithDevIs
<1>7. r = TransmitControl(t, p)
  BY <1>11 DEF SendPfc, f
<1>8. e.fifo[0] # <<>> /\ e.tx \in {"READY", "BUSY"} /\ e.rrlast \in AllQueues
  <2>1. d.fifo[0] \in Seq(Frames) /\ f \in Frames
    BY <1>1, <1>2, QueueZero DEF Devices, Fifos, PfcFrames
  <2>2. e.tx \in {"READY", "BUSY"} /\ e.rrlast \in AllQueues
    BY <1>3 DEF Devices
  <2>3. e.fifo[0] = Append(d.fifo[0], f)
    BY <1>3
  <2> HIDE DEF d
  <2> QED
    BY <2>1, <2>2, <2>3
<1> HIDE DEF t, r
<1>9. CASE ~e.up \/ e.tx = "BUSY"
  <2>1. r = t
    BY <1>6, <1>7, <1>9 DEF TransmitControl
  <2>2. Serving(e)
    BY <1>9, <1>8 DEF Serving
  <2>3. NodeOK(t)
    BY <1>3, <1>6 DEF NodeOK
  <2>4. SameData(s, t)
    BY <1>3, <1>6 DEF SameData
  <2>5. SentBy(d, e, kind)
    BY <1>3, <1>9 DEF SentBy
  <2> QED
    BY <2>1, <2>2, <2>3, <2>4, <2>5, <1>3, <1>5, <1>6 DEF r
<1>10. CASE ~(~e.up \/ e.tx = "BUSY")
  <2> DEFINE h == Head(e.fifo[0])
             u == [t EXCEPT !.dev[p].fifo[0] = Tail(@)]
             l == Taken(e, 0, e.rrlast, h)
  <2>1. h \in Currents /\ h # Idle
    BY <1>3, <1>8, HeadIsCurrent, QueueZero
  <2>2. /\ l \in Devices /\ Sound(p, l) /\ l.tx = "BUSY" /\ l.up = e.up
        /\ \A c \in Queues : l.fifo[c] = e.fifo[c]
    <3>1. /\ l \in Devices /\ Sound(p, l) /\ l.tx = "BUSY" /\ l.up = e.up
          /\ \A c \in AllQueues \ {0} : l.fifo[c] = e.fifo[c]
      <4> DEFINE b == e.rrlast
      <4>1. b \in AllQueues /\ e \in Devices /\ Sound(p, e) /\ e.fifo[0] # <<>>
        BY <1>3, <1>8
      <4> HIDE DEF b, h
      <4>2. /\ Taken(e, 0, b, h) \in Devices /\ Sound(p, Taken(e, 0, b, h))
            /\ Taken(e, 0, b, h).tx = "BUSY" /\ Taken(e, 0, b, h).up = e.up
            /\ \A c \in AllQueues \ {0} : Taken(e, 0, b, h).fifo[c] = e.fifo[c]
        BY <2>1, <4>1, TakenDevice, QueueZero
      <4> QED
        BY <4>2 DEF b
    <3> HIDE DEF l, h
    <3>2. \A c \in Queues : c \in AllQueues \ {0}
      BY QueueZero
    <3> QED
      BY <3>1, <3>2
  <2>3. ASSUME NEW c \in Queues, NEW y, NEW v, NEW w \in BOOLEAN, Agrees(e, y, c, v, w)
        PROVE  Agrees(l, y, c, v, w)
    BY <2>1, <2>3, <1>3, <1>8, <1>10, TakenAgrees, QueueZero
  <2>4. r = TransmitStart(u, p, h)
    BY <1>6, <1>7, <1>10 DEF TransmitControl
  <2>5. r = WithDev(t, p, l)
    <3>1. Popped(e, 0, e.rrlast) \in Devices /\ Popped(e, 0, e.rrlast).tx = "READY"
      BY <1>3, <1>8, <1>10, PoppedDevice, QueueZero
    <3>2. u = WithDev(t, p, Popped(e, 0, e.rrlast))
      BY <1>3, <1>6, QueueZero DEF WithDev, Popped, NodeStates, Devices, Fifos
    <3> HIDE DEF u
    <3>3. u \in NodeStates /\ u.dev[p] = Popped(e, 0, e.rrlast)
      BY <3>1, <3>2, <1>6, WithDevIs
    <3>4. TransmitStart(u, p, h) = WithDev(u, p, Loaded(u.dev[p], h))
      BY <3>1, <3>3, TransmitStartIs
    <3>5. Loaded(u.dev[p], h) = l
      BY <3>3, <1>3, TakenIs, QueueZero
    <3>6. WithDev(u, p, l) = WithDev(t, p, l)
      <4> HIDE DEF l, h, u
      <4> DEFINE k == Popped(e, 0, e.rrlast)
      <4>1. u = WithDev(t, p, k) /\ k \in Devices
        BY <3>1, <3>2
      <4> HIDE DEF k
      <4> QED
        BY <4>1, <1>6 DEF WithDev, NodeStates
    <3> QED
      BY <2>4, <3>4, <3>5, <3>6
  <2> HIDE DEF l, h, u
  <2>6. /\ r \in NodeStates /\ r.dev[p] = l /\ r.mmu = t.mmu /\ r.m_bytes = t.m_bytes
        /\ r.failed = t.failed /\ \A o \in Ports \ {p} : r.dev[o] = t.dev[o]
    BY <2>2, <2>5, <1>6, WithDevIs
  <2>7. NodeOK(r)
    BY <2>2, <2>6, <1>6 DEF NodeOK
  <2>8. Serving(l)
    BY <2>2 DEF Serving
  <2>9. Signals(d, l, q, kind = "pause")
    BY <2>3, <1>4 DEF Signals
  <2>10. SameData(s, r)
    BY <2>2, <2>6, <1>3, <1>6 DEF SameData
  <2>11. SentBy(d, l, kind)
    <3>1. l.paused = d.paused /\ l.current = h
      BY <1>3 DEF l, Taken
    <3>2. d.fifo[0] = <<>> => h = f
      BY <1>3 DEF h
    <3> QED
      BY <3>1, <3>2, <2>2, <1>2, <1>3 DEF SentBy
  <2> QED
    BY <2>2, <2>6, <2>7, <2>8, <2>9, <2>10, <2>11, <1>3, <1>6 DEF r
<1> QED
  BY <1>9, <1>10

-----------------------------------------------------------------------------
(* The handlers *)

\* What every handler guarantees of the state r it leaves: the node is sound,
\* no assertion has failed, no link has changed, a device that had nothing to send
\* still has nothing, and the neighbours' views stay in step.
Follows(s, r) ==
    /\ NodeOK(r) /\ r.failed = s.failed
    /\ \A o \in Ports : r.dev[o].up = s.dev[o].up /\ (Serving(s.dev[o]) => Serving(r.dev[o]))
    /\ \A y, v : InStep(s, y, v) => InStep(r, y, v)

\* Handlers that are called one after the other.
LEMMA FollowsChain ==
    ASSUME NEW s, NEW r, NEW t, Follows(s, r), Follows(r, t)
    PROVE  Follows(s, t)
BY DEF Follows

\* What an event guarantees, the last call of which may fail the assertion of
\* TransmitStart: a RESUME is in the transmitter of a port by which data may leave
\* that came in by it.
Hairpin(s) == \E p \in Ports : <<p, p>> \in DataRoutes /\ s.dev[p].current.kind = "resume"
Ends(s, r) ==
    /\ NodeOK(r) /\ (r.failed = s.failed \/ (r.failed = "ready" /\ Hairpin(r)))
    /\ \A o \in Ports : r.dev[o].up = s.dev[o].up /\ (Serving(s.dev[o]) => Serving(r.dev[o]))
    /\ \A y, v : InStep(s, y, v) => InStep(r, y, v)

\* An event is a handler after others.
LEMMA EndsChain ==
    ASSUME NEW s, NEW r, NEW t, Follows(s, r), Ends(r, t)
    PROVE  Ends(s, t)
BY DEF Follows, Ends

\* A handler that fails no assertion may be the last.
LEMMA FollowsEnds ==
    ASSUME NEW s, NEW r, Follows(s, r) PROVE Ends(s, r)
BY DEF Follows, Ends

\* A pause flag of the MMU.
Flagged(m, x, b) == [m EXCEPT !.paused[x] = b]

\* Setting a pause flag changes that flag only.
LEMMA PausedIs ==
    ASSUME NEW s \in NodeStates, NEW x \in PQ, NEW b \in BOOLEAN
    PROVE  LET r == [s EXCEPT !.mmu.paused[x] = b]
           IN  /\ r \in NodeStates /\ r.dev = s.dev /\ r.failed = s.failed
               /\ r.m_bytes = s.m_bytes /\ r.mmu = Flagged(s.mmu, x, b)
               /\ r.mmu.paused[x] = b
               /\ \A o \in PQ \ {x} : r.mmu.paused[o] = s.mmu.paused[o]
<1> DEFINE g == [s.mmu.paused EXCEPT ![x] = b]
           m == [s.mmu EXCEPT !.paused = g]
           r == [s EXCEPT !.mmu.paused[x] = b]
<1>1. b \in Flags /\ s.mmu \in MmuStates
  BY DEF Flags, NodeStates
<1>2. /\ g \in [PQ -> Flags] /\ g[x] = b /\ \A o \in PQ \ {x} : g[o] = s.mmu.paused[o]
  BY <1>1 DEF MmuStates
<1>3. r = [s EXCEPT !.mmu = m] /\ Flagged(s.mmu, x, b) = m
  BY <1>1 DEF NodeStates, MmuStates, Flagged
<1> HIDE DEF g, r
<1>4. m \in MmuStates /\ m.paused = g
  BY <1>1, <1>2 DEF MmuStates
<1> HIDE DEF m
<1>5. r \in NodeStates /\ r.mmu = m /\ r.dev = s.dev /\ r.m_bytes = s.m_bytes
      /\ r.failed = s.failed
  BY <1>3, <1>4 DEF NodeStates
<1> QED
  BY <1>2, <1>3, <1>4, <1>5 DEF r

\* The flag changes and the frame that says so is sent.
Signal(s, p, q, kind, b) == [SendPfc(s, p, q, kind) EXCEPT !.mmu.paused[<<p, q>>] = b]

\* Then the neighbours' views end at the flags as they did before.
LEMMA SignalIs ==
    ASSUME NEW s, NodeOK(s), NEW p \in Ports, NEW q \in Queues,
           NEW kind \in {"pause", "resume"}, NEW b \in BOOLEAN, b <=> kind = "pause",
           s.mmu.paused[<<p, q>>] # b
    PROVE  LET r == Signal(s, p, q, kind, b)
           IN  /\ Follows(s, r) /\ r.m_bytes = s.m_bytes
               /\ \A o \in Ports \ {p} : r.dev[o] = s.dev[o]
               /\ r.mmu = Flagged(s.mmu, <<p, q>>, b) /\ SameData(s, r)
               /\ SentBy(s.dev[p], r.dev[p], kind)
<1> DEFINE t == SendPfc(s, p, q, kind)
           r == [t EXCEPT !.mmu.paused[<<p, q>>] = b]
<1>0. r = Signal(s, p, q, kind, b)
  BY DEF Signal
<1>1. /\ NodeOK(t) /\ t.mmu = s.mmu /\ t.m_bytes = s.m_bytes /\ t.failed = s.failed
      /\ \A o \in Ports \ {p} : t.dev[o] = s.dev[o]
      /\ Serving(t.dev[p]) /\ t.dev[p].up = s.dev[p].up
      /\ Signals(s.dev[p], t.dev[p], q, kind = "pause") /\ SameData(s, t)
      /\ SentBy(s.dev[p], t.dev[p], kind)
  BY SendPfcIs
<1> HIDE DEF t
<1>2. t \in NodeStates /\ <<p, q>> \in PQ
  BY <1>1 DEF NodeOK, PQ
<1>3. /\ r \in NodeStates /\ r.dev = t.dev /\ r.failed = t.failed /\ r.m_bytes = t.m_bytes
      /\ r.mmu.paused[<<p, q>>] = b /\ r.mmu = Flagged(t.mmu, <<p, q>>, b)
      /\ \A o \in PQ \ {<<p, q>>} : r.mmu.paused[o] = t.mmu.paused[o]
  BY <1>2, PausedIs
<1> HIDE DEF r
<1>4. NodeOK(r)
  BY <1>1, <1>3 DEF NodeOK
<1>5. ASSUME NEW y, NEW v, InStep(s, y, v) PROVE InStep(r, y, v)
  <2> SUFFICES ASSUME NEW o \in Ports, NEW c \in Queues, r.dev[o].up
               PROVE  Agrees(r.dev[o], y[o], c, v[<<o, c>>], r.mmu.paused[<<o, c>>])
    BY DEF InStep
  <2>1. s.dev[o].up
    BY <1>1, <1>3
  <2>2. Agrees(s.dev[o], y[o], c, v[<<o, c>>], s.mmu.paused[<<o, c>>])
    BY <2>1, <1>5 DEF InStep
  <2>3. s.mmu.paused[<<o, c>>] \in BOOLEAN /\ <<o, c>> \in PQ
    BY DEF NodeOK, NodeStates, MmuStates, Flags, PQ
  <2>4. CASE o # p
    <3>1. <<o, c>> # <<p, q>> /\ r.dev[o] = s.dev[o]
      BY <2>4, <1>1, <1>3
    <3>2. r.mmu.paused[<<o, c>>] = s.mmu.paused[<<o, c>>]
      BY <3>1, <2>3, <1>1, <1>3
    <3> QED
      BY <3>1, <3>2, <2>2
  <2>5. CASE o = p /\ c # q
    <3>1. <<o, c>> # <<p, q>>
      BY <2>5
    <3>2. r.mmu.paused[<<o, c>>] = s.mmu.paused[<<o, c>>] /\ r.dev[p] = t.dev[p]
      BY <3>1, <2>3, <1>1, <1>3
    <3>3. Agrees(t.dev[p], y[o], c, v[<<o, c>>], s.mmu.paused[<<o, c>>])
      BY <2>2, <2>3, <2>5, <1>1 DEF Signals
    <3> QED
      BY <3>2, <3>3, <2>5
  <2>6. CASE o = p /\ c = q
    <3>1. Agrees(t.dev[p], y[p], q, v[<<p, q>>], kind = "pause")
      BY <2>2, <2>3, <2>6, <1>1 DEF Signals
    <3>2. (kind = "pause") = b
      OBVIOUS
    <3> QED
      BY <3>1, <3>2, <2>6, <1>3
  <2> QED
    BY <2>4, <2>5, <2>6
<1>6. \A o \in Ports : r.dev[o].up = s.dev[o].up /\ (Serving(s.dev[o]) => Serving(r.dev[o]))
  BY <1>1, <1>3
<1> QED
  <2>1. Follows(s, r)
    BY <1>1, <1>3, <1>4, <1>5, <1>6 DEF Follows
  <2>2. SameData(s, r)
    BY <1>1, <1>3 DEF SameData
  <2> QED
    BY <1>0, <1>1, <1>3, <2>1, <2>2

\* A handler that does nothing.
LEMMA FollowsItself ==
    ASSUME NEW s, NodeOK(s) PROVE Follows(s, s)
BY DEF Follows

\* CheckAndSendPfc sends a PAUSE when the flag is not set, CheckAndSendResume a
\* RESUME when it is.
LEMMA CheckAndSendIs ==
    ASSUME NEW s, NodeOK(s), NEW p \in Ports, NEW q \in Queues,
           NEW r, r = CheckAndSendPfc(s, p, q) \/ r = CheckAndSendResume(s, p, q)
    PROVE  /\ Follows(s, r) /\ r.m_bytes = s.m_bytes /\ SameData(s, r)
           /\ \A o \in Ports \ {p} : r.dev[o] = s.dev[o]
           /\ \/ r.dev[p] = s.dev[p]
              \/ \E kind \in {"pause", "resume"} :
                    /\ SentBy(s.dev[p], r.dev[p], kind)
                    /\ kind = "resume" \/ ~s.mmu.paused[<<p, q>>]
<1>0. s.mmu.paused[<<p, q>>] \in BOOLEAN
  BY DEF NodeOK, NodeStates, MmuStates, Flags, PQ
<1>1. CASE r = s
  BY <1>1, FollowsItself DEF SameData
<1>2. CASE /\ ~s.mmu.paused[<<p, q>>]
           /\ r = Signal(s, p, q, "pause", TRUE)
  <2> DEFINE kind == "pause"
             b == TRUE
  <2>1. s.mmu.paused[<<p, q>>] # b /\ b \in BOOLEAN
    BY <1>2
  <2>2. kind \in {"pause", "resume"} /\ (b <=> kind = "pause")
    OBVIOUS
  <2>3. r = Signal(s, p, q, kind, b)
    BY <1>2
  <2>4. kind = "resume" \/ ~s.mmu.paused[<<p, q>>]
    BY <1>2
  <2> HIDE DEF kind, b
  <2>5. /\ Follows(s, r) /\ r.m_bytes = s.m_bytes /\ SameData(s, r)
        /\ \A o \in Ports \ {p} : r.dev[o] = s.dev[o]
        /\ SentBy(s.dev[p], r.dev[p], kind)
    BY <2>1, <2>2, <2>3, SignalIs
  <2> QED
    BY <2>2, <2>4, <2>5, Zenon
<1>3. CASE /\ s.mmu.paused[<<p, q>>]
           /\ r = Signal(s, p, q, "resume", FALSE)
  <2> DEFINE kind == "resume"
             b == FALSE
  <2>1. s.mmu.paused[<<p, q>>] # b /\ b \in BOOLEAN
    BY <1>3
  <2>2. kind \in {"pause", "resume"} /\ (b <=> kind = "pause")
    OBVIOUS
  <2>3. r = Signal(s, p, q, kind, b)
    BY <1>3
  <2>4. kind = "resume" \/ ~s.mmu.paused[<<p, q>>]
    OBVIOUS
  <2> HIDE DEF kind, b
  <2>5. /\ Follows(s, r) /\ r.m_bytes = s.m_bytes /\ SameData(s, r)
        /\ \A o \in Ports \ {p} : r.dev[o] = s.dev[o]
        /\ SentBy(s.dev[p], r.dev[p], kind)
    BY <2>1, <2>2, <2>3, SignalIs
  <2> QED
    BY <2>2, <2>4, <2>5, Zenon
<1> QED
  BY <1>1, <1>2, <1>3
     DEF CheckAndSendPfc, CheckAndSendResume, Mmu!CheckShouldPause, Mmu!CheckShouldResume,
         Signal

\* To the MMU they are the handlers of its specification.
LEMMA CheckAndSendMmu ==
    ASSUME NEW s, NodeOK(s), NEW p \in Ports, NEW q \in Queues
    PROVE  /\ CheckAndSendPfc(s, p, q).mmu = Mmu!SetPauseIfNeeded(s.mmu, <<p, q>>)
           /\ CheckAndSendResume(s, p, q).mmu = Mmu!SetResumeIfNeeded(s.mmu, <<p, q>>)
<1> DEFINE x == <<p, q>>
<1>1. s.mmu.paused[x] \in BOOLEAN
  BY DEF NodeOK, NodeStates, MmuStates, Flags, PQ
<1>2. ASSUME NEW kind \in {"pause", "resume"}, NEW b \in BOOLEAN, b <=> kind = "pause",
             s.mmu.paused[x] # b
      PROVE  Signal(s, p, q, kind, b).mmu = Flagged(s.mmu, x, b)
  <2> HIDE DEF x
  <2> QED
    BY <1>2, SignalIs DEF x
<1>3. CheckAndSendPfc(s, p, q).mmu = Mmu!SetPauseIfNeeded(s.mmu, x)
  <2>1. CASE Mmu!CheckShouldPause(s.mmu, x)
    <3> DEFINE kind == "pause"
               b == TRUE
    <3>1. s.mmu.paused[x] # b /\ b \in BOOLEAN
      BY <2>1 DEF Mmu!CheckShouldPause
    <3>2. kind \in {"pause", "resume"} /\ (b <=> kind = "pause")
      OBVIOUS
    <3>3. CheckAndSendPfc(s, p, q) = Signal(s, p, q, kind, b)
      BY <2>1 DEF CheckAndSendPfc, Signal
    <3>4. Mmu!SetPauseIfNeeded(s.mmu, x) = Flagged(s.mmu, x, b)
      BY <2>1 DEF Mmu!SetPauseIfNeeded, Flagged
    <3> HIDE DEF kind, b, x
    <3> QED
      BY <3>1, <3>2, <3>3, <3>4, <1>2
  <2>2. CASE ~Mmu!CheckShouldPause(s.mmu, x)
    BY <2>2 DEF CheckAndSendPfc, Mmu!SetPauseIfNeeded
  <2> QED
    BY <2>1, <2>2
<1>4. CheckAndSendResume(s, p, q).mmu = Mmu!SetResumeIfNeeded(s.mmu, x)
  <2>1. CASE Mmu!CheckShouldResume(s.mmu, x)
    <3> DEFINE kind == "resume"
               b == FALSE
    <3>1. s.mmu.paused[x] # b /\ b \in BOOLEAN
      BY <2>1 DEF Mmu!CheckShouldResume
    <3>2. kind \in {"pause", "resume"} /\ (b <=> kind = "pause")
      OBVIOUS
    <3>3. CheckAndSendResume(s, p, q) = Signal(s, p, q, kind, b)
      BY <2>1 DEF CheckAndSendResume, Signal
    <3>4. Mmu!SetResumeIfNeeded(s.mmu, x) = Flagged(s.mmu, x, b)
      BY <2>1 DEF Mmu!SetResumeIfNeeded, Flagged
    <3> HIDE DEF kind, b, x
    <3> QED
      BY <3>1, <3>2, <3>3, <3>4, <1>2
  <2>2. CASE ~Mmu!CheckShouldResume(s.mmu, x)
    BY <2>2 DEF CheckAndSendResume, Mmu!SetResumeIfNeeded
  <2> QED
    BY <2>1, <2>2
<1> QED
  BY <1>3, <1>4

\* The round robin finds a queue that has a frame to send.
LEMMA NextQueueIs ==
    ASSUME NEW d \in Devices, d.fifo[0] # <<>> \/ Eligible(d) # {}
    PROVE  /\ NextQueue(d) \in AllQueues /\ d.fifo[NextQueue(d)] # <<>>
           /\ NextQueue(d) # 0 => /\ NextQueue(d) \in Queues /\ d.fifo[0] = <<>>
                                  /\ NextQueue(d) \in Eligible(d)
<1>1. CASE d.fifo[0] # <<>>
  BY <1>1, QueueZero DEF NextQueue
<1>2. CASE d.fifo[0] = <<>>
  <2> DEFINE T == {Distance(d, q) : q \in Eligible(d)}
  <2>1. ASSUME NEW q \in Eligible(d) PROVE Distance(d, q) \in Nat
    <3>1. q \in Int /\ d.rrlast \in Int /\ QCnt \in Nat \ {0}
      <4>1. q \in Queues /\ d.rrlast \in AllQueues
        BY DEF Eligible, Devices
      <4>2. q \in 1 .. QCnt - 1 /\ (d.rrlast = 0 \/ d.rrlast \in 1 .. QCnt - 1)
        BY <4>1, NodeAssumption DEF AllQueues
      <4> QED
        BY <4>2, NodeAssumption
    <3>2. \A a, b \in Int, n \in Nat \ {0} : (a - b - 1) % n \in Nat
      BY SMT
    <3> QED
      BY <3>1, <3>2 DEF Distance
  <2>2. T \in SUBSET Nat /\ T # {}
    BY <2>1, <1>2
  <2>3. \E q \in Eligible(d) : \A r \in Eligible(d) : Distance(d, q) <= Distance(d, r)
    <3> HIDE DEF T
    <3>1. \E x \in T : \A y \in T : x <= y
      BY <2>2, LeastElement
    <3> QED
      BY <3>1 DEF T
  <2>4. NextQueue(d) = CHOOSE q \in Eligible(d) :
                          \A r \in Eligible(d) : Distance(d, q) <= Distance(d, r)
    BY <1>2 DEF NextQueue
  <2>5. NextQueue(d) \in Eligible(d)
    BY <2>3, <2>4
  <2> QED
    BY <2>5, <1>2, QueueZero DEF Eligible
<1> QED
  BY <1>1, <1>2

\* The packet with its ECN bit set to b.
Marked(f, b) == [f EXCEPT !.ecn = b]

\* What is in a data queue of a port came in by a port with a route to it.
LEMMA DataFrameIs ==
    ASSUME NEW p \in Ports, NEW q \in Queues, NEW f \in Fits(p, q)
    PROVE  /\ f.in \in Ports /\ <<f.in, p>> \in DataRoutes
           /\ f.q = q /\ f.size \in Nat /\ f.kind = "data"
           /\ f.size \in PacketSizes /\ <<f.in, p, q>> \in DataLanes
           /\ <<f.in, p, f.q>> \in Lanes(AllQueues)
           /\ \A b \in Flags : /\ Marked(f, b) \in Currents
                               /\ Marked(f, b) # Idle
                               /\ ~IsPfc(Marked(f, b))
<1>1. /\ f \in Frames /\ f.kind = "data" /\ f.q = q /\ <<f.in, p>> \in DataRoutes
      /\ f.size \in PacketSizes
  BY QueueZero DEF Fits
<1>2. DataRoutes \subseteq Ports \X Ports
  BY NodeAssumption
<1>3. f.in \in Ports /\ f.size \in Nat
  BY <1>1, <1>2 DEF Frames
<1>5. <<f.in, p, f.q>> \in Lanes(AllQueues) /\ <<f.in, p, q>> \in DataLanes
  BY <1>1, <1>3, QueueZero DEF Lanes, DataLanes
<1>6. ASSUME NEW b \in Flags
      PROVE  Marked(f, b) \in Currents /\ Marked(f, b) # Idle /\ ~IsPfc(Marked(f, b))
  <2> DEFINE g == Marked(f, b)
  <2>1. g \in Frames /\ g.kind = "data"
    BY <1>1 DEF Frames, Marked
  <2> HIDE DEF g
  <2>2. ~IsPfc(g) /\ g # Idle /\ g.kind # "none"
    BY <2>1, IdleIsNoPfc DEF IsPfc
  <2>3. g \in Currents
    BY <2>1, <2>2 DEF Currents
  <2> QED
    BY <2>2, <2>3 DEF g
<1> QED
  BY <1>1, <1>3, <1>5, <1>6

\* SwitchNotifyDequeue changes counters only.
LEMMA NotifyIs ==
    ASSUME NEW s \in NodeStates, NEW p \in Ports, NEW f, f.in \in Ports, f.q \in Queues,
           f.size \in Nat, <<f.in, p, f.q>> \in Lanes(AllQueues)
    PROVE  LET r == SwitchNotifyDequeue(s, p, f)
           IN  /\ r \in NodeStates /\ r.dev = s.dev /\ r.failed = s.failed
               /\ r.mmu.paused = s.mmu.paused
               /\ r.mmu = Mmu!RemoveFromEgressAdmission(
                            Mmu!RemoveFromIngressAdmission(s.mmu, <<f.in, f.q>>, f.size),
                            <<p, f.q>>, f.size)
<1> DEFINE m1 == Mmu!RemoveFromIngressAdmission(s.mmu, <<f.in, f.q>>, f.size)
           m2 == Mmu!RemoveFromEgressAdmission(m1, <<p, f.q>>, f.size)
           x == <<f.in, p, f.q>>
           w == Mmu!Minus(s.m_bytes[x], f.size)
           g == [s.m_bytes EXCEPT ![x] = w]
           r == SwitchNotifyDequeue(s, p, f)
<1>1. m1 \in MmuStates /\ m1.paused = s.mmu.paused
  <2>1. s.mmu \in MmuStates /\ <<f.in, f.q>> \in PQ
    BY DEF NodeStates, PQ
  <2> QED
    BY <2>1, MmuTypes
<1> HIDE DEF m1
<1>2. m2 \in MmuStates /\ m2.paused = s.mmu.paused
  <2>1. <<p, f.q>> \in PQ
    BY DEF PQ
  <2> QED
    BY <2>1, <1>1, MmuTypes
<1> HIDE DEF m2
<1>3. w \in Words
  <2>1. s.m_bytes[x] \in Int
    BY WordIsNat DEF NodeStates
  <2>2. f.size \in Int
    OBVIOUS
  <2> QED
    BY <2>1, <2>2, WordsOf
<1>4. r = [s EXCEPT !.mmu = m2, !.m_bytes = g]
  BY DEF SwitchNotifyDequeue, NodeStates, m1, m2
<1> HIDE DEF w
<1>5. g \in [Lanes(AllQueues) -> Words]
  BY <1>3 DEF NodeStates
<1> HIDE DEF g, r
<1>6. r \in NodeStates /\ r.mmu = m2 /\ r.dev = s.dev /\ r.failed = s.failed
  BY <1>2, <1>4, <1>5 DEF NodeStates
<1> QED
  BY <1>2, <1>6 DEF r, m1, m2

\* Neither the MMU nor a data queue has changed.
Quiet(s, r) == r.mmu = s.mmu /\ SameData(s, r)

\* The device of port p has sent the first packet of a class it may send, and the
\* MMU has released it.
Sends(s, r, p) ==
    /\ s.dev[p].up /\ s.dev[p].tx = "READY" /\ s.dev[p].fifo[0] = <<>>
    /\ \E c \in Eligible(s.dev[p]) :
          /\ r.mmu = Mmu!Dequeued(s.mmu, Head(s.dev[p].fifo[c]).in, p, c,
                                  Head(s.dev[p].fifo[c]).size)
          /\ r.dev[p].fifo[c] = Tail(s.dev[p].fifo[c])
          /\ \A o \in Ports, k \in Queues :
                o # p \/ k # c => r.dev[o].fifo[k] = s.dev[o].fifo[k]

\* DequeueAndTransmit takes the next frame if the device may send: afterwards it
\* is busy or has nothing to send.
LEMMA DequeueAndTransmitIs ==
    ASSUME NEW s, NodeOK(s), NEW p \in Ports, NEW coin
    PROVE  /\ Ends(s, DequeueAndTransmit(s, p, coin))
           /\ Serving(DequeueAndTransmit(s, p, coin).dev[p])
           /\ \/ Quiet(s, DequeueAndTransmit(s, p, coin))
              \/ Sends(s, DequeueAndTransmit(s, p, coin), p)
<1> DEFINE d == s.dev[p]
           q == NextQueue(d)
           f == Head(d.fifo[q])
           rr == IF q = 0 THEN d.rrlast ELSE q
           e == Popped(d, q, rr)
           popped == [s EXCEPT !.dev[p].fifo[q] = Tail(@),
                               !.dev[p].rrlast = IF q = 0 THEN @ ELSE q]
           t == WithDev(s, p, e)
           noted == SwitchNotifyDequeue(t, p, f)
           mark(n) == EcnEnabled /\ ShouldSendCN(n, p, q, coin)
           send(x, n) ==
             IF q = 0 THEN TransmitStart(x, p, f)
             ELSE TransmitStart(CheckAndSendResume(n, f.in, q), p, [f EXCEPT !.ecn = mark(n)])
           r == DequeueAndTransmit(s, p, coin)
<1>1. s \in NodeStates /\ d \in Devices /\ Sound(p, d) /\ d.tx \in {"READY", "BUSY"}
  BY DEF NodeOK, NodeStates, Devices
<1>2. CASE ~d.up \/ d.tx = "BUSY" \/ (d.fifo[0] = <<>> /\ Eligible(d) = {})
  <2>1. r = s
    BY <1>2 DEF DequeueAndTransmit
  <2>2. Serving(d)
    BY <1>2 DEF Serving
  <2> HIDE DEF r
  <2>3. Quiet(s, r)
    BY <2>1 DEF Quiet, SameData
  <2> QED
    BY <2>1, <2>2, <2>3, FollowsItself, FollowsEnds DEF r
<1>3. CASE ~(~d.up \/ d.tx = "BUSY" \/ (d.fifo[0] = <<>> /\ Eligible(d) = {}))
  <2>1. /\ d.up /\ d.tx = "READY" /\ q \in AllQueues /\ d.fifo[q] # <<>>
        /\ q # 0 => q \in Queues /\ d.fifo[0] = <<>> /\ q \in Eligible(d)
    BY <1>1, <1>3, NextQueueIs
  <2>2. ~Serving(d)
    BY <2>1, <1>3 DEF Serving
  <2>3. popped = t
    BY <1>1, <2>1 DEF WithDev, Popped, NodeStates, Devices, Fifos
  <2>4. r = send(t, noted)
    <3>1. r = send(popped, SwitchNotifyDequeue(popped, p, f))
      BY <1>3, Zenon DEF DequeueAndTransmit
    <3> HIDE DEF popped, r, t, send
    <3> QED
      BY <3>1, <2>3
  <2> HIDE DEF popped, r
  <2>5. f \in Fits(p, q) /\ f \in Currents /\ f # Idle
    BY <1>1, <2>1, HeadIsCurrent
  <2>6. rr \in AllQueues
    BY <1>1, <2>1 DEF Devices
  <2>7. /\ e \in Devices /\ Sound(p, e) /\ e.tx = "READY" /\ e.up = d.up
        /\ e.current = d.current /\ (q # 0 => e.fifo[0] = d.fifo[0])
    <3> HIDE DEF d, q, rr
    <3> QED
      BY <1>1, <2>1, <2>6, PoppedDevice
  <2>8. /\ t \in NodeStates /\ t.dev[p] = e /\ t.mmu = s.mmu /\ t.failed = s.failed
        /\ \A o \in Ports \ {p} : t.dev[o] = s.dev[o]
    BY <1>1, <2>7, WithDevIs
  <2>9. ASSUME NEW g \in Currents, g # Idle,
               NEW u \in NodeStates, u.dev[p] = e
        PROVE  /\ TransmitStart(u, p, g) = WithDev(u, p, Taken(d, q, rr, g))
               /\ Taken(d, q, rr, g) \in Devices /\ Sound(p, Taken(d, q, rr, g))
               /\ Taken(d, q, rr, g).tx = "BUSY" /\ Taken(d, q, rr, g).up = d.up
               /\ Taken(d, q, rr, g).fifo[q] = Tail(d.fifo[q])
               /\ \A c \in Queues \ {q} : Taken(d, q, rr, g).fifo[c] = d.fifo[c]
    <3>1. TransmitStart(u, p, g) = WithDev(u, p, Loaded(e, g))
      BY <2>7, <2>9, TransmitStartIs
    <3>2. Loaded(e, g) = Taken(d, q, rr, g)
      BY <1>1, <2>1, TakenIs
    <3> HIDE DEF d, q, rr, e, f
    <3>3. /\ d \in Devices /\ Sound(p, d) /\ q \in AllQueues /\ d.fifo[q] # <<>>
          /\ rr \in AllQueues /\ g \in Currents /\ g # Idle
      BY <2>9, <1>1, <2>1, <2>6
    <3>4. /\ Taken(d, q, rr, g) \in Devices /\ Sound(p, Taken(d, q, rr, g))
          /\ Taken(d, q, rr, g).tx = "BUSY" /\ Taken(d, q, rr, g).up = d.up
          /\ Taken(d, q, rr, g).fifo[q] = Tail(d.fifo[q])
          /\ \A c \in AllQueues \ {q} : Taken(d, q, rr, g).fifo[c] = d.fifo[c]
      BY <3>3, TakenDevice
    <3> QED
      BY <3>1, <3>2, <3>4, QueueZero
  <2> HIDE DEF e, t
  <2>10. CASE q = 0
    <3> DEFINE l == Taken(d, q, rr, f)
    <3>1. /\ r = WithDev(t, p, l) /\ l \in Devices /\ Sound(p, l)
          /\ l.tx = "BUSY" /\ l.up = d.up /\ \A c \in Queues \ {q} : l.fifo[c] = d.fifo[c]
      BY <2>4, <2>5, <2>8, <2>9, <2>10
    <3>2. ASSUME NEW c \in Queues, NEW y, NEW v, NEW w \in BOOLEAN, Agrees(d, y, c, v, w)
          PROVE  Agrees(l, y, c, v, w)
      <4>1. f = Head(d.fifo[0])
        BY <2>10
      <4> HIDE DEF q, f, rr, d
      <4> QED
        BY <4>1, <3>2, <1>1, <2>1, <2>5, <2>6, <2>10, TakenAgrees
    <3> HIDE DEF l
    <3>3. /\ r \in NodeStates /\ r.dev[p] = l /\ r.mmu = s.mmu /\ r.failed = s.failed
          /\ \A o \in Ports \ {p} : r.dev[o] = s.dev[o]
      BY <3>1, <2>8, WithDevIs
    <3>4. NodeOK(r)
      BY <3>1, <3>3 DEF NodeOK
    <3>5. Serving(l)
      BY <3>1 DEF Serving
    <3>6. ASSUME NEW y, NEW v, InStep(s, y, v) PROVE InStep(r, y, v)
      <4> SUFFICES ASSUME NEW o \in Ports, NEW c \in Queues, r.dev[o].up
                   PROVE  Agrees(r.dev[o], y[o], c, v[<<o, c>>], r.mmu.paused[<<o, c>>])
        BY DEF InStep
      <4>1. Agrees(s.dev[o], y[o], c, v[<<o, c>>], s.mmu.paused[<<o, c>>])
        BY <3>1, <3>3, <3>6 DEF InStep
      <4>2. s.mmu.paused[<<o, c>>] \in BOOLEAN
        BY <1>1 DEF NodeStates, MmuStates, Flags, PQ
      <4> QED
        BY <4>1, <4>2, <3>2, <3>3
    <3>7. Quiet(s, r)
      BY <3>1, <3>3, <2>10, QueueZero DEF Quiet, SameData
    <3> QED
      BY <3>1, <3>3, <3>4, <3>5, <3>6, <3>7 DEF Ends, r
  <2>11. CASE q # 0
    <3> DEFINE u == CheckAndSendResume(noted, f.in, q)
               b == mark(noted)
               g == Marked(f, b)
               l == Taken(d, q, rr, g)
    <3>1. q \in Queues
      BY <2>1, <2>11
    <3>2. /\ f.in \in Ports /\ <<f.in, p>> \in DataRoutes /\ f.q = q /\ f.size \in Nat
          /\ <<f.in, p, f.q>> \in Lanes(AllQueues)
      <4> HIDE DEF f, q
      <4> QED
        BY <3>1, <2>5, DataFrameIs
    <3>3. g \in Currents /\ g # Idle /\ ~IsPfc(g)
      <4>1. b \in Flags
        BY DEF Flags
      <4> HIDE DEF b, f, q
      <4>2. /\ Marked(f, b) \in Currents
            /\ Marked(f, b) # Idle
            /\ ~IsPfc(Marked(f, b))
        BY <4>1, <3>1, <2>5, DataFrameIs, Zenon
      <4> QED
        BY <4>2
    <3>4. /\ noted \in NodeStates /\ noted.dev = t.dev /\ noted.failed = t.failed
          /\ noted.mmu.paused = t.mmu.paused
          /\ noted.mmu = Mmu!RemoveFromEgressAdmission(
                           Mmu!RemoveFromIngressAdmission(t.mmu, <<f.in, f.q>>, f.size),
                           <<p, f.q>>, f.size)
      BY <3>1, <3>2, <2>8, NotifyIs
    <3> HIDE DEF g, noted
    <3>5. Follows(s, noted)
      <4>1. NodeOK(noted)
        BY <3>4, <2>7, <2>8 DEF NodeOK
      <4>2. ASSUME NEW y, NEW v, InStep(s, y, v) PROVE InStep(noted, y, v)
        <5> SUFFICES ASSUME NEW o \in Ports, NEW c \in Queues, noted.dev[o].up
                     PROVE  Agrees(noted.dev[o], y[o], c, v[<<o, c>>],
                                   noted.mmu.paused[<<o, c>>])
          BY DEF InStep
        <5>1. Agrees(s.dev[o], y[o], c, v[<<o, c>>], s.mmu.paused[<<o, c>>])
          BY <4>2, <3>4, <2>7, <2>8 DEF InStep
        <5>2. /\ noted.dev[o].current = s.dev[o].current
              /\ noted.dev[o].fifo[0] = s.dev[o].fifo[0]
          BY <3>4, <2>7, <2>8, <2>11
        <5> QED
          BY <5>1, <5>2, <3>4, <2>8 DEF Agrees
      <4>3. ASSUME NEW o \in Ports
            PROVE  /\ noted.dev[o].up = s.dev[o].up
                   /\ Serving(s.dev[o]) => Serving(noted.dev[o])
        BY <3>4, <2>2, <2>7, <2>8
      <4> QED
        BY <4>1, <4>2, <4>3, <3>4, <2>8 DEF Follows
    <3>6. /\ Follows(noted, u) /\ SameData(noted, u)
          /\ u.mmu = Mmu!SetResumeIfNeeded(noted.mmu, <<f.in, q>>)
          /\ \A o \in Ports \ {f.in} : u.dev[o] = noted.dev[o]
          /\ \/ u.dev[p] = e
             \/ f.in = p /\ u.dev[p].tx = "BUSY" /\ u.dev[p].current.kind = "resume"
      <4>1. /\ NodeOK(noted) /\ noted.dev[p] = e /\ e.up /\ e.tx = "READY"
            /\ e.fifo[0] = <<>>
        BY <3>4, <3>5, <2>1, <2>7, <2>8, <2>11 DEF Follows
      <4>2. u = CheckAndSendResume(noted, f.in, q)
        OBVIOUS
      <4>3. ~noted.mmu.paused[<<f.in, q>>] => u = noted
        BY DEF CheckAndSendResume, Mmu!CheckShouldResume
      <4> HIDE DEF u, f, q
      <4>4. /\ Follows(noted, u) /\ SameData(noted, u)
            /\ u.mmu = Mmu!SetResumeIfNeeded(noted.mmu, <<f.in, q>>)
            /\ \A o \in Ports \ {f.in} : u.dev[o] = noted.dev[o]
            /\ \/ u.dev[f.in] = noted.dev[f.in]
               \/ \E kind \in {"pause", "resume"} :
                     /\ SentBy(noted.dev[f.in], u.dev[f.in], kind)
                     /\ kind = "resume" \/ ~noted.mmu.paused[<<f.in, q>>]
        BY <4>1, <4>2, <3>1, <3>2, CheckAndSendIs, CheckAndSendMmu
      <4> QED
        BY <4>1, <4>3, <4>4, <3>2 DEF SentBy
    <3> HIDE DEF u
    <3>7. Follows(s, u) /\ NodeOK(u) /\ u \in NodeStates
      BY <3>5, <3>6, FollowsChain DEF Follows, NodeOK
    <3>8. CASE u.dev[p] = e
      <4>8. /\ r = WithDev(u, p, l) /\ l \in Devices /\ Sound(p, l)
            /\ l.tx = "BUSY" /\ l.up = d.up /\ l.fifo[q] = Tail(d.fifo[q])
            /\ \A c \in Queues \ {q} : l.fifo[c] = d.fifo[c]
        <5>1. r = TransmitStart(u, p, g)
          BY <2>4, <2>11 DEF u, g, Marked
        <5> QED
          BY <5>1, <3>3, <3>7, <3>8, <2>9
      <4>9. ASSUME NEW c \in Queues, NEW y, NEW v, NEW w \in BOOLEAN, Agrees(e, y, c, v, w)
            PROVE  Agrees(l, y, c, v, w)
        <5>1. Agrees(d, y, c, v, w)
          BY <4>9, <2>7, <2>11 DEF Agrees
        <5> HIDE DEF q, f, rr, d
        <5> QED
          BY <5>1, <3>3, <1>1, <2>1, <2>6, <2>11, TakenAgrees
      <4> HIDE DEF l
      <4>10. /\ r \in NodeStates /\ r.dev[p] = l /\ r.mmu = u.mmu /\ r.failed = u.failed
             /\ \A o \in Ports \ {p} : r.dev[o] = u.dev[o]
        BY <3>7, <4>8, WithDevIs
      <4>11. NodeOK(r)
        BY <3>7, <4>8, <4>10 DEF NodeOK
      <4>12. Serving(l)
        BY <4>8 DEF Serving
      <4>13. ASSUME NEW y, NEW v, InStep(u, y, v) PROVE InStep(r, y, v)
        <5> SUFFICES ASSUME NEW o \in Ports, NEW c \in Queues, r.dev[o].up
                     PROVE  Agrees(r.dev[o], y[o], c, v[<<o, c>>], r.mmu.paused[<<o, c>>])
          BY DEF InStep
        <5>1. Agrees(u.dev[o], y[o], c, v[<<o, c>>], u.mmu.paused[<<o, c>>])
          BY <3>6, <3>8, <4>8, <4>10, <4>13, <2>7 DEF InStep
        <5>2. u.mmu.paused[<<o, c>>] \in BOOLEAN
          BY <3>7 DEF NodeStates, MmuStates, Flags, PQ
        <5> QED
          BY <5>1, <5>2, <3>8, <4>9, <4>10
      <4>14. Follows(u, r)
        BY <3>6, <3>8, <4>8, <4>10, <4>11, <4>12, <4>13, <2>7 DEF Follows
      <4>15. Sends(s, r, p)
        <5>1. r.mmu = Mmu!Dequeued(s.mmu, f.in, p, q, f.size)
          BY <3>2, <3>4, <3>6, <4>10, <2>8 DEF Mmu!Dequeued
        <5>2. ASSUME NEW o \in Ports, NEW k \in Queues, o # p \/ k # q
              PROVE  r.dev[o].fifo[k] = s.dev[o].fifo[k]
          <6>1. CASE o = p
            BY <6>1, <5>2, <4>8, <4>10
          <6>2. CASE o # p
            <7>1. r.dev[o] = u.dev[o]
              BY <6>2, <4>10
            <7>2. u.dev[o].fifo[k] = noted.dev[o].fifo[k]
              BY <3>6 DEF SameData
            <7>3. noted.dev[o] = s.dev[o]
              BY <6>2, <3>4, <2>8
            <7> QED
              BY <7>1, <7>2, <7>3
          <6> QED
            BY <6>1, <6>2
        <5>3. r.dev[p].fifo[q] = Tail(d.fifo[q])
          BY <4>8, <4>10
        <5>4. q \in Eligible(d) /\ d.fifo[0] = <<>>
          BY <2>1, <2>11
        <5> HIDE DEF q
        <5> QED
          BY <5>1, <5>2, <5>3, <5>4, <2>1 DEF Sends
      <4> QED
        BY <3>7, <4>10, <4>12, <4>14, <4>15, FollowsChain, FollowsEnds DEF r
    <3>9. CASE u.dev[p] # e
      <4>1. f.in = p /\ u.dev[p].tx = "BUSY" /\ u.dev[p].current.kind = "resume"
        BY <3>6, <3>9
      <4>2. r = [u EXCEPT !.failed = "ready"]
        <5>1. r = TransmitStart(u, p, g)
          BY <2>4, <2>11 DEF u, g, Marked
        <5> QED
          BY <5>1, <4>1 DEF TransmitStart
      <4>3. r \in NodeStates /\ r.dev = u.dev /\ r.mmu = u.mmu /\ r.failed = "ready"
        BY <4>2, <3>7 DEF NodeStates, Failures
      <4>4. Ends(s, r) /\ Serving(r.dev[p])
        <5>1. NodeOK(r) /\ Hairpin(r)
          BY <4>1, <4>3, <3>2, <3>7 DEF NodeOK, Hairpin
        <5>2. \A y, v : InStep(u, y, v) => InStep(r, y, v)
          BY <4>3 DEF InStep
        <5> QED
          BY <5>1, <5>2, <4>1, <4>3, <3>7 DEF Ends, Follows, Serving
      <4>5. Sends(s, r, p)
        <5>1. r.mmu = Mmu!Dequeued(s.mmu, f.in, p, q, f.size)
          BY <3>2, <3>4, <3>6, <4>3, <2>8 DEF Mmu!Dequeued
        <5>2. \A o \in Ports, k \in Queues : r.dev[o].fifo[k] = t.dev[o].fifo[k]
          BY <4>3, <3>4, <3>6 DEF SameData
        <5>3. /\ e.fifo[q] = Tail(d.fifo[q])
              /\ \A k \in Queues \ {q} : e.fifo[k] = d.fifo[k]
          BY <2>1, <1>1 DEF e, Popped, Devices, Fifos
        <5>4. ASSUME NEW o \in Ports, NEW k \in Queues, o # p \/ k # q
              PROVE  r.dev[o].fifo[k] = s.dev[o].fifo[k]
          BY <5>2, <5>3, <5>4, <2>8
        <5>5. r.dev[p].fifo[q] = Tail(d.fifo[q])
          BY <5>2, <5>3, <3>1, <2>8
        <5>6. q \in Eligible(d) /\ d.fifo[0] = <<>>
          BY <2>1, <2>11
        <5> HIDE DEF q
        <5> QED
          BY <5>1, <5>4, <5>5, <5>6, <2>1 DEF Sends
      <4> QED
        BY <4>4, <4>5 DEF r
    <3> QED
      BY <3>8, <3>9
  <2> QED
    BY <2>10, <2>11
<1> QED
  BY <1>2, <1>3

\* SwitchSend enqueues a packet and wakes the transmitter.
LEMMA SwitchSendIs ==
    ASSUME NEW s, NodeOK(s), NEW p \in Ports, NEW q \in AllQueues,
           NEW f \in Fits(p, q), ~IsPfc(f), NEW coin
    PROVE  Ends(s, SwitchSend(s, p, q, f, coin))
<1> DEFINE d == s.dev[p]
           e == Queued(d, q, f)
           t == WithDev(s, p, e)
           r == DequeueAndTransmit(t, p, coin)
<1>1. s \in NodeStates /\ d \in Devices /\ Sound(p, d)
  BY DEF NodeOK, NodeStates
<1>2. /\ e \in Devices /\ Sound(p, e) /\ e.current = d.current /\ e.up = d.up
      /\ e.fifo[q] = Append(d.fifo[q], f)
      /\ \A c \in AllQueues \ {q} : e.fifo[c] = d.fifo[c]
  BY <1>1, QueuedDevice
<1>3. Enqueue(s, p, q, f) = t
  BY <1>1, EnqueueIs
<1> HIDE DEF e
<1>4. /\ t \in NodeStates /\ t.dev[p] = e /\ t.mmu = s.mmu /\ t.failed = s.failed
      /\ \A o \in Ports \ {p} : t.dev[o] = s.dev[o]
  BY <1>1, <1>2, WithDevIs
<1> HIDE DEF t
<1>5. NodeOK(t)
  BY <1>2, <1>4 DEF NodeOK
<1>6. Ends(t, r) /\ Serving(r.dev[p])
  BY <1>5, DequeueAndTransmitIs
<1> HIDE DEF r
<1>7. ASSUME NEW y, NEW c \in Queues, NEW v, NEW w \in BOOLEAN, Agrees(d, y, c, v, w)
      PROVE  Agrees(e, y, c, v, w)
  <2>1. PICK a, b \in BOOLEAN : /\ Leads(y, c, v, a) /\ Turns(d.current, c, a, b)
                                /\ Leads(d.fifo[0], c, b, w)
    BY <1>7 DEF Agrees
  <2>2. Leads(e.fifo[0], c, b, w)
    <3>1. CASE q = 0
      <4>1. d.fifo[0] \in Seq(Frames) /\ f \in Frames
        BY <1>1, <3>1, QueueZero DEF Devices, Fifos, Fits, PfcFrames
      <4>2. Turns(f, c, w, w)
        BY OthersDoNotTurn
      <4> QED
        BY <4>1, <4>2, <3>1, <2>1, <1>2, LeadsAppend
    <3>2. CASE q # 0
      BY <3>2, <2>1, <1>2, QueueZero
    <3> QED
      BY <3>1, <3>2
  <2> QED
    BY <2>1, <2>2, <1>2 DEF Agrees
<1>8. ASSUME NEW y, NEW v, InStep(s, y, v) PROVE InStep(t, y, v)
  <2> SUFFICES ASSUME NEW o \in Ports, NEW c \in Queues, t.dev[o].up
               PROVE  Agrees(t.dev[o], y[o], c, v[<<o, c>>], t.mmu.paused[<<o, c>>])
    BY DEF InStep
  <2>1. Agrees(s.dev[o], y[o], c, v[<<o, c>>], s.mmu.paused[<<o, c>>])
    BY <1>2, <1>4, <1>8 DEF InStep
  <2>2. s.mmu.paused[<<o, c>>] \in BOOLEAN
    BY <1>1 DEF NodeStates, MmuStates, Flags, PQ
  <2> QED
    BY <2>1, <2>2, <1>4, <1>7
<1>9. r = SwitchSend(s, p, q, f, coin)
  BY <1>3 DEF SwitchSend, r
<1>10. ASSUME NEW o \in Ports
       PROVE  r.dev[o].up = s.dev[o].up /\ (Serving(s.dev[o]) => Serving(r.dev[o]))
  <2>1. CASE o = p
    BY <2>1, <1>2, <1>4, <1>6 DEF Ends
  <2>2. CASE o # p
    BY <2>2, <1>4, <1>6 DEF Ends
  <2> QED
    BY <2>1, <2>2
<1> QED
  BY <1>4, <1>6, <1>8, <1>9, <1>10 DEF Ends

\* A change of the MMU's counters concerns neither devices nor views.
LEMMA CountersFollow ==
    ASSUME NEW s, NodeOK(s), NEW m \in MmuStates, m.paused = s.mmu.paused
    PROVE  Follows(s, [s EXCEPT !.mmu = m])
<1> DEFINE r == [s EXCEPT !.mmu = m]
<1>1. s \in NodeStates
  BY DEF NodeOK
<1>2. r \in NodeStates /\ r.mmu = m /\ r.dev = s.dev /\ r.failed = s.failed
  BY <1>1 DEF NodeStates
<1> HIDE DEF r
<1>3. NodeOK(r)
  BY <1>2 DEF NodeOK
<1>4. \A y, v : InStep(s, y, v) => InStep(r, y, v)
  BY <1>2 DEF InStep
<1>5. Follows(s, r)
  BY <1>2, <1>3, <1>4 DEF Follows
<1> QED
  BY <1>5 DEF r

\* Nor does a change of m_bytes.
LEMMA BytesFollow ==
    ASSUME NEW s, NodeOK(s), NEW x \in Lanes(AllQueues), NEW n \in Nat
    PROVE  Follows(s, [s EXCEPT !.m_bytes[x] = Mmu!Plus(@, n)])
<1> DEFINE w == Mmu!Plus(s.m_bytes[x], n)
           g == [s.m_bytes EXCEPT ![x] = w]
           r == [s EXCEPT !.m_bytes[x] = Mmu!Plus(@, n)]
<1>1. s \in NodeStates
  BY DEF NodeOK
<1>2. w \in Words
  <2>1. s.m_bytes[x] \in Int /\ n \in Int
    BY <1>1, WordIsNat DEF NodeStates
  <2> QED
    BY <2>1, WordsOf
<1>3. r = [s EXCEPT !.m_bytes = g]
  BY <1>1 DEF NodeStates
<1> HIDE DEF w
<1>4. g \in [Lanes(AllQueues) -> Words]
  BY <1>1, <1>2 DEF NodeStates
<1> HIDE DEF g, r
<1>5. r \in NodeStates /\ r.mmu = s.mmu /\ r.dev = s.dev /\ r.failed = s.failed
  BY <1>1, <1>3, <1>4 DEF NodeStates
<1>6. NodeOK(r)
  BY <1>5 DEF NodeOK
<1>7. \A y, v : InStep(s, y, v) => InStep(r, y, v)
  BY <1>5 DEF InStep
<1>8. Follows(s, r)
  BY <1>5, <1>6, <1>7 DEF Follows
<1> QED
  BY <1>8 DEF r

-----------------------------------------------------------------------------
(***************************************************************************)
(* The invariant.  Besides what the properties say it needs the contents   *)
(* of the queues (a PFC frame is only ever in queue 0, a data packet in    *)
(* the queue of its class at a port it has a route to) and that a link     *)
(* that is down has nothing in flight.                                     *)
(***************************************************************************)
WiresOK ==
    /\ wire \in [Ports -> Seq(PfcFrames)] /\ peer \in [PQ -> Flags]
    /\ leaked \in [DataLanes -> Nat] /\ halted \in Flags
    /\ \A p \in Ports : ~dev[p].up => wire[p] = <<>>

IInv ==
    /\ NodeOK(State)
    /\ WiresOK
    /\ failed = "ready" => Hairpin(State)
    /\ Running => \A p \in Ports : Serving(dev[p])
    /\ ~lostPfc => failed # "paused" /\ (Running => InStep(State, wire, peer))

\* The node's state is a record of its variables.
LEMMA StateIs ==
    /\ State.mmu = mmu /\ State.dev = dev /\ State.m_bytes = m_bytes /\ State.failed = failed
BY DEF State

\* The next state is the one that the event ends in.
LEMMA BecomesIs ==
    ASSUME NEW s \in NodeStates, Becomes(s)
    PROVE  State' = s
<1>1. s = [mmu |-> s.mmu, dev |-> s.dev, m_bytes |-> s.m_bytes, failed |-> s.failed]
  BY DEF NodeStates
<1> QED
  BY <1>1 DEF Becomes, State

\* The invariant holds after an event that is a chain of handlers.
LEMMA EventKeeps ==
    ASSUME IInv, Running, NEW s, Ends(State, s), Becomes(s),
           UNCHANGED <<halted, wire, peer, leaked, lostPfc>>
    PROVE  IInv'
<1>1. /\ NodeOK(s) /\ s \in NodeStates
      /\ s.failed = "no" \/ (s.failed = "ready" /\ Hairpin(s))
      /\ \A o \in Ports : s.dev[o].up = dev[o].up /\ Serving(s.dev[o])
      /\ ~lostPfc => InStep(s, wire, peer)
  BY StateIs DEF Ends, NodeOK, IInv, Running
<1>2. State' = s /\ dev' = s.dev /\ failed' = s.failed
  BY <1>1, BecomesIs DEF Becomes
<1>3. NodeOK(State')
  BY <1>1, <1>2
<1>4. WiresOK'
  BY <1>1, <1>2 DEF IInv, WiresOK
<1>5. \A p \in Ports : Serving(dev'[p])
  BY <1>1, <1>2
<1>6. ~lostPfc' => InStep(State', wire', peer')
  BY <1>1, <1>2
<1>7. failed' # "paused" /\ (failed' = "ready" => Hairpin(State'))
  BY <1>1, <1>2
<1> QED
  BY <1>3, <1>4, <1>5, <1>6, <1>7 DEF IInv

\* ReceiveData: the MMU admits the packet and may pause the ingress port.
LEMMA ReceiveDataKeeps ==
    ASSUME IInv, NEW in \in Ports, NEW out \in Ports, NEW q \in Queues,
           NEW size \in PacketSizes, NEW coin, ReceiveData(in, out, q, size, coin)
    PROVE  IInv'
<1> DEFINE x == <<in, q>>
           m1 == Mmu!UpdateIngressAdmission(mmu, x, size)
           m2 == Mmu!UpdateEgressAdmission(m1, <<out, q>>, size)
           s0 == [State EXCEPT !.mmu = m2]
           s1 == CheckAndSendPfc(s0, in, q)
           s2 == [s1 EXCEPT !.m_bytes[<<in, out, q>>] = Mmu!Plus(@, size)]
           f == Data(in, q, size)
           s3 == SwitchSend(s2, out, q, f, coin)
<1>1. /\ Running /\ <<in, out>> \in DataRoutes /\ Becomes(s3)
      /\ UNCHANGED <<halted, wire, peer, leaked, lostPfc>>
  BY DEF ReceiveData, Forwardable
<1>2. size \in Nat /\ x \in PQ /\ <<out, q>> \in PQ /\ q \in AllQueues /\ q # 0
  BY NodeAssumption, QueueZero DEF PQ
<1>3. NodeOK(State) /\ mmu \in MmuStates
  BY StateIs DEF IInv, NodeOK, NodeStates
<1>4. m1 \in MmuStates /\ m1.paused = mmu.paused
  BY <1>2, <1>3, MmuTypes
<1> HIDE DEF m1
<1>5. m2 \in MmuStates /\ m2.paused = mmu.paused
  BY <1>2, <1>4, MmuTypes
<1> HIDE DEF m2
<1>6. Follows(State, s0)
  BY <1>3, <1>5, StateIs, CountersFollow
<1> HIDE DEF s0
<1>7. Follows(s0, s1)
  <2>1. NodeOK(s0) /\ s1 = CheckAndSendPfc(s0, in, q)
    BY <1>6 DEF Follows
  <2> HIDE DEF s1
  <2> QED
    BY <2>1, CheckAndSendIs
<1> HIDE DEF s1
<1>8. <<in, out, q>> \in Lanes(AllQueues)
  BY <1>1, <1>2 DEF Lanes
<1>9. Follows(s1, s2)
  BY <1>2, <1>7, <1>8, BytesFollow DEF Follows
<1> HIDE DEF s2
<1>10. f \in Fits(out, q) /\ ~IsPfc(f)
  <2>1. FALSE \in Flags
    BY DEF Flags
  <2> QED
    BY <2>1, <1>1, <1>2 DEF Data, Fits, Frames, IsPfc
<1> HIDE DEF f
<1>11. Ends(s2, s3)
  BY <1>2, <1>9, <1>10, SwitchSendIs DEF Follows
<1> HIDE DEF s3
<1>12. Ends(State, s3)
  BY <1>6, <1>7, <1>9, <1>11, FollowsChain, EndsChain
<1> QED
  BY <1>1, <1>12, EventKeeps

\* ReceiveControl: the packet goes to queue 0 and is not accounted.
LEMMA ReceiveControlKeeps ==
    ASSUME IInv, NEW in \in Ports, NEW out \in Ports, ReceiveControl(in, out)
    PROVE  IInv'
<1> DEFINE s1 == [State EXCEPT !.m_bytes[<<in, out, 0>>] = Mmu!Plus(@, ControlSize)]
           f == Control(in)
           s2 == SwitchSend(s1, out, 0, f, FALSE)
<1>1. /\ Running /\ <<in, out>> \in ControlRoutes /\ Becomes(s2)
      /\ UNCHANGED <<halted, wire, peer, leaked, lostPfc>>
  BY DEF ReceiveControl, Forwardable
<1>2. <<in, out, 0>> \in Lanes(AllQueues) /\ ControlSize \in Nat
  BY <1>1, NodeAssumption, QueueZero DEF Lanes
<1>3. Follows(State, s1)
  BY <1>2, BytesFollow DEF IInv
<1> HIDE DEF s1
<1>4. f \in Fits(out, 0) /\ ~IsPfc(f)
  <2>1. FALSE \in Flags
    BY DEF Flags
  <2> QED
    BY <2>1, <1>2, QueueZero DEF Control, Fits, Frames, IsPfc
<1> HIDE DEF f
<1>5. Ends(s1, s2)
  BY <1>3, <1>4, QueueZero, SwitchSendIs DEF Follows
<1> HIDE DEF s2
<1>6. Ends(State, s2)
  BY <1>3, <1>5, EndsChain
<1> QED
  BY <1>1, <1>6, EventKeeps

\* RejectData: the process exits, and nothing runs any more.
LEMMA RejectDataKeeps ==
    ASSUME IInv, NEW in, NEW out, NEW q, NEW size, RejectData(in, out, q, size)
    PROVE  IInv'
<1>1. /\ failed = "no" /\ State' = State /\ halted' = TRUE
      /\ UNCHANGED <<mmu, dev, m_bytes, failed, wire, peer, leaked, lostPfc>>
  BY DEF RejectData, State, Running
<1>2. WiresOK'
  BY <1>1 DEF IInv, WiresOK, Flags
<1>3. ~Running' /\ NodeOK(State') /\ failed' = "no"
  BY <1>1 DEF IInv, Running
<1> QED
  BY <1>2, <1>3 DEF IInv

\* The pause flag of a class in a device.
Paused(d, q, b) == [d EXCEPT !.paused[q] = b]

\* A flag of a device concerns neither its transmitter nor its queues.
LEMMA PausedDevice ==
    ASSUME NEW p \in Ports, NEW d \in Devices, Sound(p, d), NEW q \in Queues,
           NEW b \in BOOLEAN
    PROVE  LET e == Paused(d, q, b)
           IN  /\ e \in Devices /\ Sound(p, e) /\ e.tx = d.tx /\ e.up = d.up
               /\ e.current = d.current /\ e.fifo = d.fifo
               /\ e.paused[q] = b /\ \A c \in Queues \ {q} : e.paused[c] = d.paused[c]
<1> DEFINE g == [d.paused EXCEPT ![q] = b]
           e == Paused(d, q, b)
<1>1. g \in Lines /\ g[q] = b /\ \A c \in Queues \ {q} : g[c] = d.paused[c]
  <2>1. b \in Flags /\ d.paused \in Lines
    BY DEF Flags, Devices
  <2> QED
    BY <2>1 DEF Lines
<1>2. e = [d EXCEPT !.paused = g]
  BY DEF Paused, Devices, Lines
<1> HIDE DEF g, e
<1>3. /\ e \in Devices /\ e.tx = d.tx /\ e.up = d.up /\ e.current = d.current
      /\ e.fifo = d.fifo /\ e.paused = g
  BY <1>1, <1>2 DEF Devices
<1>4. Sound(p, e)
  BY <1>3 DEF Sound
<1> QED
  BY <1>1, <1>3, <1>4 DEF e

\* The node after a device has changed in what is no part of the views.
LEMMA DeviceFollows ==
    ASSUME NEW s, NodeOK(s), NEW p \in Ports, NEW e \in Devices, Sound(p, e),
           e.up = s.dev[p].up, e.current = s.dev[p].current,
           e.fifo[0] = s.dev[p].fifo[0]
    PROVE  /\ NodeOK(WithDev(s, p, e))
           /\ \A y, v : InStep(s, y, v) => InStep(WithDev(s, p, e), y, v)
           /\ Serving(e) => Follows(s, WithDev(s, p, e))
<1> DEFINE r == WithDev(s, p, e)
<1>1. /\ r \in NodeStates /\ r.dev[p] = e /\ r.mmu = s.mmu /\ r.failed = s.failed
      /\ \A o \in Ports \ {p} : r.dev[o] = s.dev[o]
  BY WithDevIs DEF NodeOK
<1> HIDE DEF r
<1>2. NodeOK(r)
  BY <1>1 DEF NodeOK
<1>3. ASSUME NEW y, NEW v, InStep(s, y, v) PROVE InStep(r, y, v)
  <2> SUFFICES ASSUME NEW o \in Ports, NEW c \in Queues, r.dev[o].up
               PROVE  Agrees(r.dev[o], y[o], c, v[<<o, c>>], r.mmu.paused[<<o, c>>])
    BY DEF InStep
  <2>1. Agrees(s.dev[o], y[o], c, v[<<o, c>>], s.mmu.paused[<<o, c>>])
    BY <1>1, <1>3 DEF InStep
  <2>2. r.dev[o].current = s.dev[o].current /\ r.dev[o].fifo[0] = s.dev[o].fifo[0]
    BY <1>1
  <2> QED
    BY <2>1, <2>2, <1>1 DEF Agrees
<1>4. Serving(e) => Follows(s, r)
  BY <1>1, <1>2, <1>3 DEF Follows
<1> QED
  BY <1>2, <1>3, <1>4 DEF r

\* ReceivePause: the device may send less than before.
LEMMA ReceivePauseKeeps ==
    ASSUME IInv, NEW p \in Ports, NEW q \in Queues, ReceivePause(p, q)
    PROVE  IInv'
<1> DEFINE d == dev[p]
           e == Paused(d, q, TRUE)
           s == WithDev(State, p, e)
<1>1. /\ Running /\ dev' = [dev EXCEPT ![p].paused[q] = TRUE]
      /\ UNCHANGED <<mmu, halted, m_bytes, failed, wire, peer, leaked, lostPfc>>
  BY DEF ReceivePause
<1>2. NodeOK(State) /\ State \in NodeStates /\ d \in Devices /\ Sound(p, d) /\ Serving(d)
  BY <1>1, StateIs DEF IInv, NodeOK, NodeStates
<1>3. /\ e \in Devices /\ Sound(p, e) /\ e.tx = d.tx /\ e.up = d.up
      /\ e.current = d.current /\ e.fifo = d.fifo
      /\ e.paused[q] = TRUE /\ \A c \in Queues \ {q} : e.paused[c] = d.paused[c]
  <2> DEFINE b == TRUE
  <2>1. e = Paused(d, q, b) /\ b \in BOOLEAN
    OBVIOUS
  <2> HIDE DEF b, d, e
  <2>2. /\ e \in Devices /\ Sound(p, e) /\ e.tx = d.tx /\ e.up = d.up
        /\ e.current = d.current /\ e.fifo = d.fifo
        /\ e.paused[q] = b /\ \A c \in Queues \ {q} : e.paused[c] = d.paused[c]
    BY <2>1, <1>2, PausedDevice
  <2> QED
    BY <2>2 DEF b
<1>4. dev' = [dev EXCEPT ![p] = e]
  BY <1>1, <1>2, StateIs DEF Paused, NodeStates, Devices, Lines
<1> HIDE DEF e
<1>5. Serving(e)
  <2>1. Eligible(e) \subseteq Eligible(d)
    BY <1>3 DEF Eligible
  <2> QED
    BY <2>1, <1>2, <1>3 DEF Serving
<1>6. Follows(State, s)
  BY <1>2, <1>3, <1>5, StateIs, DeviceFollows
<1>7. Becomes(s)
  <2>1. s.dev = [dev EXCEPT ![p] = e]
    BY <1>2, StateIs DEF WithDev, NodeStates
  <2>2. s.mmu = mmu /\ s.m_bytes = m_bytes /\ s.failed = failed
    BY <1>2, <1>3, StateIs, WithDevIs
  <2> QED
    BY <2>1, <2>2, <1>1, <1>4 DEF Becomes
<1> HIDE DEF s
<1> QED
  BY <1>1, <1>6, <1>7, FollowsEnds, EventKeeps

\* ReceiveResume: the device is woken up.
LEMMA ReceiveResumeKeeps ==
    ASSUME IInv, NEW p \in Ports, NEW q \in Queues, NEW coin,
           ReceiveResume(p, q, coin)
    PROVE  IInv'
<1> DEFINE d == dev[p]
           e == Paused(d, q, FALSE)
           s == WithDev(State, p, e)
           t == [State EXCEPT !.dev[p].paused[q] = FALSE]
           r == DequeueAndTransmit(s, p, coin)
<1>1. /\ Running /\ Becomes(DequeueAndTransmit(t, p, coin))
      /\ UNCHANGED <<halted, wire, peer, leaked, lostPfc>>
  BY DEF ReceiveResume
<1>2. NodeOK(State) /\ State \in NodeStates /\ d \in Devices /\ Sound(p, d)
  BY StateIs DEF IInv, NodeOK, NodeStates
<1>3. /\ e \in Devices /\ Sound(p, e) /\ e.up = d.up
      /\ e.current = d.current /\ e.fifo = d.fifo
  <2> DEFINE b == FALSE
  <2>1. e = Paused(d, q, b) /\ b \in BOOLEAN
    OBVIOUS
  <2> HIDE DEF b, d, e
  <2> QED
    BY <2>1, <1>2, PausedDevice
<1>4. t = s
  BY <1>2, StateIs DEF WithDev, Paused, NodeStates, Devices, Lines
<1> HIDE DEF e, t
<1>5. NodeOK(s) /\ \A y, v : InStep(State, y, v) => InStep(s, y, v)
  BY <1>2, <1>3, StateIs, DeviceFollows
<1>6. /\ s.failed = State.failed /\ s.dev[p] = e
      /\ \A o \in Ports \ {p} : s.dev[o] = State.dev[o]
  BY <1>2, <1>3, WithDevIs
<1> HIDE DEF s
<1>7. Ends(s, r) /\ Serving(r.dev[p]) /\ Becomes(r)
  BY <1>1, <1>4, <1>5, DequeueAndTransmitIs
<1> HIDE DEF r
<1>8. ASSUME NEW o \in Ports
      PROVE  r.dev[o].up = State.dev[o].up /\ (Serving(State.dev[o]) => Serving(r.dev[o]))
  <2>1. CASE o = p
    BY <2>1, <1>3, <1>6, <1>7, StateIs DEF Ends
  <2>2. CASE o # p
    BY <2>2, <1>6, <1>7 DEF Ends
  <2> QED
    BY <2>1, <2>2
<1>9. Ends(State, r)
  BY <1>5, <1>6, <1>7, <1>8 DEF Ends
<1> QED
  BY <1>1, <1>7, <1>9, EventKeeps

\* The transmitter is idle.
Freed(d) == [d EXCEPT !.tx = "READY", !.current = Idle]

\* A frame that has left the transmitter is on the wire if it is a PFC frame, and
\* the views are as before.
LEMMA FreedAgrees ==
    ASSUME NEW p \in Ports, NEW d \in Devices, Sound(p, d)
    PROVE  /\ Freed(d) \in Devices /\ Sound(p, Freed(d)) /\ Freed(d).up = d.up
           /\ IsPfc(d.current) => d.current \in PfcFrames
           /\ \A y \in Seq(PfcFrames), q \in Queues, w \in BOOLEAN : \A v :
                 Agrees(d, y, q, v, w) =>
                    Agrees(Freed(d), IF IsPfc(d.current) THEN Append(y, d.current) ELSE y,
                           q, v, w)
<1> DEFINE e == Freed(d)
           f == d.current
<1>1. Idle \in Currents /\ f \in Currents
  BY DEF Currents, Devices
<1>2. /\ e \in Devices /\ e.tx = "READY" /\ e.current = Idle /\ e.up = d.up
      /\ e.fifo = d.fifo
  BY <1>1 DEF Freed, Devices
<1> HIDE DEF e
<1>3. Sound(p, e)
  BY <1>2 DEF Sound
<1>4. IsPfc(f) => f \in PfcFrames
  BY <1>1, IdleIsNoPfc DEF Currents, PfcFrames
<1> HIDE DEF f
<1>5. ASSUME NEW y \in Seq(PfcFrames), NEW q \in Queues, NEW w \in BOOLEAN, NEW v,
             Agrees(d, y, q, v, w)
      PROVE  Agrees(e, IF IsPfc(f) THEN Append(y, f) ELSE y, q, v, w)
  <2>1. PICK a, b \in BOOLEAN : /\ Leads(y, q, v, a) /\ Turns(f, q, a, b)
                                /\ Leads(e.fifo[0], q, b, w)
    BY <1>2, <1>5 DEF Agrees, f
  <2>2. Turns(e.current, q, b, b)
    BY <1>2, IdleIsNoPfc, OthersDoNotTurn
  <2>3. CASE IsPfc(f)
    <3>1. Leads(Append(y, f), q, v, b)
      BY <2>1, <2>3, <1>4, LeadsAppend
    <3> QED
      BY <3>1, <2>1, <2>2, <2>3 DEF Agrees
  <2>4. CASE ~IsPfc(f)
    <3>1. a = b
      BY <2>1, <2>4, OthersDoNotTurn
    <3> QED
      BY <3>1, <2>1, <2>2, <2>4 DEF Agrees
  <2> QED
    BY <2>3, <2>4
<1> QED
  BY <1>2, <1>3, <1>4, <1>5 DEF e, f

\* TransmitComplete: the frame leaves, and the device takes the next one.
LEMMA TransmitCompleteKeeps ==
    ASSUME IInv, NEW p \in Ports, NEW coin, TransmitComplete(p, coin)
    PROVE  IInv'
<1> DEFINE d == dev[p]
           f == d.current
           e == Freed(d)
           s == WithDev(State, p, e)
           t == [State EXCEPT !.dev[p].tx = "READY", !.dev[p].current = Idle]
           r == DequeueAndTransmit(s, p, coin)
<1>1. /\ Running /\ Becomes(DequeueAndTransmit(t, p, coin))
      /\ wire' = IF IsPfc(f) /\ d.up THEN [wire EXCEPT ![p] = Append(@, f)] ELSE wire
      /\ UNCHANGED <<halted, peer, leaked, lostPfc>>
  BY DEF TransmitComplete
<1>2. NodeOK(State) /\ State \in NodeStates /\ d \in Devices /\ Sound(p, d)
  BY StateIs DEF IInv, NodeOK, NodeStates
<1>3. /\ e \in Devices /\ Sound(p, e) /\ e.up = d.up /\ (IsPfc(f) => f \in PfcFrames)
      /\ \A y \in Seq(PfcFrames), q \in Queues, w \in BOOLEAN : \A v :
            Agrees(d, y, q, v, w) =>
               Agrees(e, IF IsPfc(f) THEN Append(y, f) ELSE y, q, v, w)
  BY <1>2, FreedAgrees
<1>4. t = s
  BY <1>2, StateIs DEF WithDev, Freed, NodeStates, Devices
<1> HIDE DEF e, t
<1>5. /\ s \in NodeStates /\ s.failed = State.failed /\ s.mmu = State.mmu /\ s.dev[p] = e
      /\ \A o \in Ports \ {p} : s.dev[o] = State.dev[o]
  BY <1>2, <1>3, WithDevIs
<1> HIDE DEF s
<1>6. NodeOK(s)
  BY <1>2, <1>3, <1>5 DEF NodeOK
<1>7. Ends(s, r) /\ Serving(r.dev[p]) /\ Becomes(r)
  BY <1>1, <1>4, <1>6, DequeueAndTransmitIs
<1> HIDE DEF r
<1>8. /\ wire \in [Ports -> Seq(PfcFrames)] /\ peer \in [PQ -> Flags]
      /\ leaked \in [DataLanes -> Nat] /\ halted \in Flags
      /\ \A o \in Ports : ~dev[o].up => wire[o] = <<>>
  BY DEF IInv, WiresOK
<1>9. /\ wire' \in [Ports -> Seq(PfcFrames)]
      /\ \A o \in Ports \ {p} : wire'[o] = wire[o]
      /\ wire'[p] = IF IsPfc(f) /\ d.up THEN Append(wire[p], f) ELSE wire[p]
  <2> HIDE DEF d, f
  <2>1. IsPfc(f) => Append(wire[p], f) \in Seq(PfcFrames)
    BY <1>3, <1>8, AppendProperties
  <2> QED
    BY <2>1, <1>1, <1>8
<1>10. /\ State' = r /\ dev' = r.dev /\ NodeOK(r)
       /\ failed' # "paused" /\ (failed' = "ready" => Hairpin(State'))
  <2>1. State' = r /\ dev' = r.dev /\ NodeOK(r) /\ failed' = r.failed /\ s.failed = "no"
    BY <1>1, <1>5, <1>7, BecomesIs, StateIs DEF Becomes, Ends, NodeOK, Running
  <2> QED
    BY <2>1, <1>7 DEF Ends
<1>11. ASSUME NEW o \in Ports PROVE r.dev[o].up = dev[o].up /\ Serving(r.dev[o])
  <2>1. CASE o = p
    BY <2>1, <1>3, <1>5, <1>7, StateIs DEF Ends
  <2>2. CASE o # p
    BY <2>2, <1>1, <1>5, <1>7, StateIs DEF Ends, IInv
  <2> QED
    BY <2>1, <2>2
<1>12. WiresOK'
  <2>1. ASSUME NEW o \in Ports, ~dev'[o].up PROVE wire'[o] = <<>>
    BY <2>1, <1>8, <1>9, <1>10, <1>11
  <2> QED
    BY <2>1, <1>1, <1>8, <1>9 DEF WiresOK
<1>13. ASSUME ~lostPfc PROVE InStep(r, wire', peer)
  <2>1. InStep(State, wire, peer)
    BY <1>1, <1>13 DEF IInv
  <2>2. InStep(s, wire', peer)
    <3> SUFFICES ASSUME NEW o \in Ports, NEW c \in Queues, s.dev[o].up
                 PROVE  Agrees(s.dev[o], wire'[o], c, peer[<<o, c>>], s.mmu.paused[<<o, c>>])
      BY DEF InStep
    <3>1. s.dev[o].up = dev[o].up
      BY <1>3, <1>5, StateIs
    <3>2. Agrees(dev[o], wire[o], c, peer[<<o, c>>], mmu.paused[<<o, c>>])
      BY <3>1, <2>1, StateIs DEF InStep
    <3>3. mmu.paused[<<o, c>>] \in BOOLEAN /\ s.mmu = mmu
      BY <1>2, <1>5, StateIs DEF NodeStates, MmuStates, Flags, PQ
    <3>4. CASE o = p
      <4>1. wire'[p] = IF IsPfc(f) THEN Append(wire[p], f) ELSE wire[p]
        BY <3>1, <3>4, <1>9
      <4>2. wire[p] \in Seq(PfcFrames)
        BY <1>8
      <4> QED
        BY <4>1, <4>2, <3>2, <3>3, <3>4, <1>3, <1>5
    <3>5. CASE o # p
      BY <3>2, <3>3, <3>5, <1>5, <1>9, StateIs
    <3> QED
      BY <3>4, <3>5
  <2> QED
    BY <2>2, <1>7 DEF Ends
<1> QED
  BY <1>1, <1>10, <1>11, <1>12, <1>13 DEF IInv

\* The first frame on the wire of a port agrees with the view it is delivered to.
LEMMA DeliveredAgrees ==
    ASSUME NEW d, NEW y \in Seq(PfcFrames), y # <<>>, NEW q \in Queues, NEW v, NEW w,
           Agrees(d, y, q, v, w)
    PROVE  \E u \in BOOLEAN : Turns(Head(y), q, v, u) /\ Agrees(d, Tail(y), q, u, w)
<1>1. PICK a, b \in BOOLEAN : /\ Leads(y, q, v, a) /\ Turns(d.current, q, a, b)
                              /\ Leads(d.fifo[0], q, b, w)
  BY DEF Agrees
<1>2. PICK u \in BOOLEAN : Turns(Head(y), q, v, u) /\ Leads(Tail(y), q, u, a)
  BY <1>1, LeadsTail
<1> QED
  BY <1>1, <1>2 DEF Agrees

\* A frame is removed from a wire.
LEMMA WireTail ==
    ASSUME WiresOK, NEW p \in Ports, wire[p] # <<>>,
           wire' = [wire EXCEPT ![p] = Tail(@)]
    PROVE  /\ wire' \in [Ports -> Seq(PfcFrames)] /\ wire'[p] = Tail(wire[p])
           /\ \A o \in Ports \ {p} : wire'[o] = wire[o]
           /\ Head(wire[p]) \in PfcFrames /\ dev[p].up
           /\ \A o \in Ports : ~dev[o].up => wire'[o] = <<>>
<1>1. wire[p] \in Seq(PfcFrames) /\ dev[p].up
  BY DEF WiresOK
<1>2. Tail(wire[p]) \in Seq(PfcFrames) /\ Head(wire[p]) \in PfcFrames
  BY <1>1, HeadTailProperties
<1> QED
  BY <1>1, <1>2 DEF WiresOK

\* DeliverPfc: the neighbour's view changes to what the frame says, and a RESUME
\* finds the class paused.
LEMMA DeliverPfcKeeps ==
    ASSUME IInv, NEW p \in Ports, DeliverPfc(p)
    PROVE  IInv'
<1> DEFINE f == Head(wire[p])
           x == <<p, f.q>>
           b == (f.kind = "pause")
<1>1. /\ Running /\ wire[p] # <<>> /\ wire' = [wire EXCEPT ![p] = Tail(@)]
      /\ peer' = [peer EXCEPT ![x] = b]
      /\ failed' = IF f.kind = "resume" /\ ~peer[x] THEN "paused" ELSE "no"
      /\ UNCHANGED <<mmu, halted, dev, m_bytes, leaked, lostPfc>>
  BY DEF DeliverPfc
<1>2. /\ wire' \in [Ports -> Seq(PfcFrames)] /\ wire'[p] = Tail(wire[p])
      /\ \A o \in Ports \ {p} : wire'[o] = wire[o]
      /\ f \in PfcFrames /\ dev[p].up
      /\ \A o \in Ports : ~dev[o].up => wire'[o] = <<>>
  BY <1>1, WireTail DEF IInv
<1>3. x \in PQ /\ IsPfc(f) /\ f.q \in Queues
  BY <1>2 DEF PfcFrames, PQ
<1> HIDE DEF f
<1>4. /\ peer' \in [PQ -> Flags] /\ peer'[x] = b
      /\ \A o \in PQ \ {x} : peer'[o] = peer[o]
  <2>1. b \in Flags /\ peer \in [PQ -> Flags]
    BY DEF Flags, IInv, WiresOK
  <2> HIDE DEF b, x
  <2> QED
    BY <2>1, <1>1, <1>3
<1>5. WiresOK'
  BY <1>1, <1>2, <1>4 DEF IInv, WiresOK
<1>6. failed' \in Failures /\ failed' # "ready"
  BY <1>1 DEF Failures
<1>7. NodeOK(State')
  <2>1. State' = [State EXCEPT !.failed = failed']
    BY <1>1 DEF State
  <2>2. State \in NodeStates /\ \A o \in Ports : Sound(o, State.dev[o])
    BY DEF IInv, NodeOK
  <2>3. State' \in NodeStates /\ State'.dev = State.dev
    BY <2>1, <2>2, <1>6 DEF NodeStates
  <2> QED
    BY <2>2, <2>3 DEF NodeOK
<1>8. \A o \in Ports : Serving(dev'[o])
  BY <1>1 DEF IInv
<1>9. ASSUME ~lostPfc PROVE failed' # "paused" /\ InStep(State', wire', peer')
  <2>1. InStep(State, wire, peer)
    BY <1>1, <1>9 DEF IInv
  <2>2. wire[p] \in Seq(PfcFrames)
    BY DEF IInv, WiresOK
  <2>3. ASSUME NEW c \in Queues
        PROVE  \E u \in BOOLEAN : /\ Turns(f, c, peer[<<p, c>>], u)
                                  /\ Agrees(dev[p], Tail(wire[p]), c, u, mmu.paused[<<p, c>>])
    <3>1. Agrees(dev[p], wire[p], c, peer[<<p, c>>], mmu.paused[<<p, c>>])
      BY <2>1, <1>2, StateIs DEF InStep
    <3> QED
      BY <3>1, <2>2, <1>1, DeliveredAgrees DEF f
  <2>4. peer[x] # b
    BY <2>3, <1>3 DEF Turns
  <2>5. failed' # "paused"
    <3>1. peer[x] \in BOOLEAN
      BY <1>3 DEF IInv, WiresOK, Flags
    <3>2. f.kind = "resume" => peer[x]
      BY <3>1, <2>4
    <3> QED
      BY <3>2, <1>1
  <2>6. ASSUME NEW o \in Ports, NEW c \in Queues, dev[o].up
        PROVE  Agrees(dev[o], wire'[o], c, peer'[<<o, c>>], mmu.paused[<<o, c>>])
    <3>1. CASE o = p
      <4>1. PICK u \in BOOLEAN :
                /\ Turns(f, c, peer[<<p, c>>], u)
                /\ Agrees(dev[p], Tail(wire[p]), c, u, mmu.paused[<<p, c>>])
        BY <2>3
      <4>2. u = peer'[<<p, c>>]
        <5>1. CASE c = f.q
          BY <5>1, <4>1, <1>3, <1>4 DEF Turns
        <5>2. CASE c # f.q
          <6>1. <<p, c>> \in PQ \ {x}
            BY <5>2 DEF PQ
          <6>2. u = peer[<<p, c>>]
            BY <5>2, <4>1 DEF Turns
          <6> QED
            BY <6>1, <6>2, <1>4
        <5> QED
          BY <5>1, <5>2
      <4> QED
        BY <4>1, <4>2, <3>1, <1>2
    <3>2. CASE o # p
      <4>1. <<o, c>> \in PQ \ {x}
        BY <3>2 DEF PQ
      <4>2. Agrees(dev[o], wire[o], c, peer[<<o, c>>], mmu.paused[<<o, c>>])
        BY <2>1, <2>6, StateIs DEF InStep
      <4> QED
        BY <4>1, <4>2, <3>2, <1>2, <1>4
    <3> QED
      BY <3>1, <3>2
  <2>7. InStep(State', wire', peer')
    <3>1. State'.dev = dev /\ State'.mmu = mmu
      BY <1>1 DEF State
    <3> QED
      BY <3>1, <2>6 DEF InStep
  <2> QED
    BY <2>5, <2>7
<1> QED
  BY <1>1, <1>5, <1>6, <1>7, <1>8, <1>9 DEF IInv

\* LosePfc: nothing more is said of the views.
LEMMA LosePfcKeeps ==
    ASSUME IInv, NEW p \in Ports, LosePfc(p)
    PROVE  IInv'
<1>1. /\ Running /\ wire[p] # <<>> /\ wire' = [wire EXCEPT ![p] = Tail(@)] /\ lostPfc' = TRUE
      /\ UNCHANGED <<mmu, halted, dev, m_bytes, failed, peer, leaked>>
  BY DEF LosePfc
<1>2. WiresOK'
  BY <1>1, WireTail DEF IInv, WiresOK
<1>3. State' = State /\ failed' = "no"
  BY <1>1 DEF State, Running
<1>4. \A o \in Ports : Serving(dev'[o])
  BY <1>1 DEF IInv
<1>5. NodeOK(State') /\ lostPfc'
  BY <1>1, <1>3 DEF IInv
<1> QED
  BY <1>2, <1>3, <1>4, <1>5 DEF IInv

\* The bytes of frames are a number.
LEMMA BytesType ==
    ASSUME NEW z \in Seq(Frames), NEW in
    PROVE  Bytes(z, in) \in Nat
<1> DEFINE n == Len(z)
           g == [i \in 1 .. n |-> IF z[i].in = in THEN z[i].size ELSE 0]
<1>1. n \in Nat /\ \A i \in 1 .. n : z[i] \in Frames
  OBVIOUS
<1>2. g \in [1 .. n -> Nat]
  BY <1>1 DEF Frames
<1>3. IsFiniteSet(1 .. n)
  BY <1>1, FS_Interval
<1>4. Bytes(z, in) = SumOf(g)
  BY DEF Bytes
<1> HIDE DEF g, n
<1> QED
  BY <1>2, <1>3, <1>4, SumType

\* TakeDown: the device has nothing to send any more, and its neighbour is gone.
LEMMA TakeDownKeeps ==
    ASSUME IInv, NEW p \in Ports, TakeDown(p)
    PROVE  IInv'
<1> DEFINE d == dev[p]
           none == [q \in AllQueues |-> <<>>]
           clear == [q \in Queues |-> FALSE]
           e == [d EXCEPT !.up = FALSE, !.fifo = none, !.paused = clear]
           s == WithDev(State, p, e)
           lost(r) == IF r[2] = p THEN Bytes(d.fifo[r[3]], r[1]) ELSE 0
<1>1. /\ Running
      /\ dev' = [dev EXCEPT ![p].up = FALSE, ![p].fifo = none, ![p].paused = clear]
      /\ leaked' = [r \in DOMAIN leaked |-> leaked[r] + lost(r)]
      /\ wire' = [wire EXCEPT ![p] = <<>>]
      /\ peer' \in {peer, [x \in DOMAIN peer |-> peer[x] /\ x[1] # p]}
      /\ UNCHANGED <<mmu, halted, m_bytes, failed, lostPfc>>
  BY DEF TakeDown
<1>2. NodeOK(State) /\ State \in NodeStates /\ d \in Devices /\ Sound(p, d)
  BY StateIs DEF IInv, NodeOK, NodeStates
<1>3. /\ e \in Devices /\ e.tx = d.tx /\ e.current = d.current /\ e.up = FALSE
      /\ e.fifo = none
  <2>1. none \in Fifos
    BY DEF Fifos
  <2>2. clear \in Lines /\ FALSE \in Flags
    BY DEF Lines, Flags
  <2> HIDE DEF none, clear
  <2> QED
    BY <2>1, <2>2, <1>2 DEF Devices
<1>4. dev' = [dev EXCEPT ![p] = e]
  <2> HIDE DEF none, clear
  <2> QED
    BY <1>1, <1>2, StateIs DEF NodeStates, Devices
<1> HIDE DEF e
<1>5. Sound(p, e) /\ Serving(e)
  BY <1>2, <1>3 DEF Sound, Serving
<1>6. /\ s \in NodeStates /\ s.dev[p] = e /\ s.mmu = mmu /\ s.m_bytes = m_bytes
      /\ s.failed = failed /\ \A o \in Ports \ {p} : s.dev[o] = dev[o]
  BY <1>2, <1>3, StateIs, WithDevIs
<1>7. Becomes(s)
  <2>1. s.dev = [dev EXCEPT ![p] = e]
    BY <1>2, StateIs DEF WithDev, NodeStates
  <2> QED
    BY <2>1, <1>1, <1>4, <1>6 DEF Becomes
<1> HIDE DEF s
<1>8. State' = s /\ dev' = s.dev /\ NodeOK(s)
  BY <1>2, <1>5, <1>6, <1>7, BecomesIs, StateIs DEF Becomes, NodeOK
<1>9. leaked' \in [DataLanes -> Nat]
  <2>1. ASSUME NEW r \in DataLanes PROVE lost(r) \in Nat
    <3>1. r[3] \in AllQueues
      BY QueueZero DEF DataLanes, Lanes
    <3>2. d.fifo[r[3]] \in Seq(Frames)
      BY <3>1, <1>2 DEF Devices, Fifos
    <3> QED
      BY <3>2, BytesType
  <2> HIDE DEF lost
  <2>2. leaked \in [DataLanes -> Nat]
    BY DEF IInv, WiresOK
  <2> QED
    BY <2>1, <2>2, <1>1
<1>10. /\ wire' \in [Ports -> Seq(PfcFrames)] /\ wire'[p] = <<>>
       /\ \A o \in Ports \ {p} : wire'[o] = wire[o]
  BY <1>1 DEF IInv, WiresOK
<1>11. /\ peer' \in [PQ -> Flags]
       /\ \A o \in Ports \ {p}, c \in Queues : peer'[<<o, c>>] = peer[<<o, c>>]
  <2>1. peer \in [PQ -> BOOLEAN]
    BY DEF IInv, WiresOK, Flags
  <2>2. peer' \in {peer, [x \in PQ |-> peer[x] /\ x[1] # p]}
    BY <2>1, <1>1
  <2>3. peer' \in [PQ -> Flags]
    <3>1. [x \in PQ |-> peer[x] /\ x[1] # p] \in [PQ -> BOOLEAN]
      OBVIOUS
    <3> QED
      BY <3>1, <2>1, <2>2 DEF Flags
  <2>4. ASSUME NEW o \in Ports \ {p}, NEW c \in Queues
        PROVE  peer'[<<o, c>>] = peer[<<o, c>>]
    <3>1. <<o, c>> \in PQ /\ <<o, c>>[1] # p /\ peer[<<o, c>>] \in BOOLEAN
      BY <2>1 DEF PQ
    <3> QED
      BY <3>1, <2>2
  <2> QED
    BY <2>3, <2>4
<1>12. WiresOK'
  <2>1. ASSUME NEW o \in Ports, ~dev'[o].up PROVE wire'[o] = <<>>
    <3>1. CASE o = p
      BY <3>1, <1>10
    <3>2. CASE o # p
      BY <3>2, <2>1, <1>6, <1>8, <1>10 DEF IInv, WiresOK
    <3> QED
      BY <3>1, <3>2
  <2> QED
    BY <2>1, <1>1, <1>9, <1>10, <1>11 DEF IInv, WiresOK
<1>13. \A o \in Ports : Serving(dev'[o])
  BY <1>1, <1>5, <1>6, <1>8 DEF IInv
<1>14. ASSUME ~lostPfc PROVE InStep(State', wire', peer')
  <2> SUFFICES ASSUME NEW o \in Ports, NEW c \in Queues, s.dev[o].up
               PROVE  Agrees(s.dev[o], wire'[o], c, peer'[<<o, c>>], s.mmu.paused[<<o, c>>])
    BY <1>8 DEF InStep
  <2>1. o # p
    BY <1>3, <1>6
  <2>2. Agrees(dev[o], wire[o], c, peer[<<o, c>>], mmu.paused[<<o, c>>])
    BY <2>1, <1>1, <1>6, <1>14, StateIs DEF IInv, InStep
  <2> QED
    BY <2>1, <2>2, <1>6, <1>10, <1>11
<1>15. failed' = "no"
  BY <1>1 DEF Running
<1> QED
  BY <1>1, <1>8, <1>12, <1>13, <1>14, <1>15 DEF IInv

\* Nothing is queued, sent or paused at the start.
LEMMA InitHolds == Init => IInv
<1> SUFFICES ASSUME Init PROVE IInv
  OBVIOUS
<1> DEFINE none == [q \in AllQueues |-> <<>>]
           clear == [q \in Queues |-> FALSE]
           d == [tx |-> "READY", current |-> Idle, up |-> TRUE, rrlast |-> 0,
                 fifo |-> none, paused |-> clear]
<1>1. /\ mmu = Mmu!SwitchMmuInit /\ dev = [p \in Ports |-> d] /\ failed = "no"
      /\ m_bytes = [r \in Lanes(AllQueues) |-> 0] /\ wire = [p \in Ports |-> <<>>]
      /\ peer = [x \in Ports \X Queues |-> FALSE] /\ halted = FALSE
      /\ leaked = [r \in DataLanes |-> 0]
  BY DEF Init
<1>2. FALSE \in Flags /\ TRUE \in Flags
  BY DEF Flags
<1>3. mmu \in MmuStates /\ \A x \in PQ : mmu.paused[x] = FALSE
  BY <1>1, <1>2, WordIsNat DEF Mmu!SwitchMmuInit, Mmu!PQ, PQ, MmuStates
<1>4. d \in Devices
  <2>1. none \in Fifos /\ Idle \in Currents
    BY DEF Fifos, Currents
  <2>2. clear \in Lines
    BY DEF Lines, Flags
  <2> HIDE DEF none, clear
  <2> QED
    BY <2>1, <2>2, <1>2, QueueZero DEF Devices
<1>5. \A p \in Ports : Sound(p, d)
  BY DEF Sound
<1>6. Serving(d) /\ d.fifo[0] = <<>> /\ d.current = Idle
  BY QueueZero DEF Serving, Eligible
<1> HIDE DEF d
<1>7. NodeOK(State)
  <2>1. m_bytes \in [Lanes(AllQueues) -> Words] /\ failed \in Failures
    BY <1>1, WordIsNat DEF Failures
  <2>2. dev \in [Ports -> Devices] /\ \A p \in Ports : dev[p] = d
    BY <1>1, <1>4
  <2>3. State \in NodeStates
    BY <2>1, <2>2, <1>3 DEF State, NodeStates
  <2> QED
    BY <2>2, <2>3, <1>5, StateIs DEF NodeOK
<1>8. WiresOK
  <2>1. peer \in [PQ -> Flags]
    BY <1>1 DEF PQ, Flags
  <2>2. wire \in [Ports -> Seq(PfcFrames)] /\ \A p \in Ports : wire[p] = <<>>
    BY <1>1
  <2>3. leaked \in [DataLanes -> Nat]
    BY <1>1
  <2> QED
    BY <2>1, <2>2, <2>3, <1>1, <1>2 DEF WiresOK
<1>9. InStep(State, wire, peer)
  <2> SUFFICES ASSUME NEW p \in Ports, NEW q \in Queues
               PROVE  Agrees(dev[p], wire[p], q, peer[<<p, q>>], mmu.paused[<<p, q>>])
    BY StateIs DEF InStep
  <2>1. /\ dev[p] = d /\ wire[p] = <<>> /\ peer[<<p, q>>] = FALSE
        /\ mmu.paused[<<p, q>>] = FALSE
    BY <1>1, <1>3 DEF PQ
  <2>2. Leads(<<>>, q, FALSE, FALSE) /\ Turns(Idle, q, FALSE, FALSE)
    BY LeadsNowhere, IdleIsNoPfc, OthersDoNotTurn
  <2> QED
    BY <2>1, <2>2, <1>6 DEF Agrees
<1> QED
  BY <1>1, <1>6, <1>7, <1>8, <1>9 DEF IInv

\* Every event keeps the invariant.
LEMMA NextKeeps == IInv /\ [Next]_vars => IInv'
<1> SUFFICES ASSUME IInv, [Next]_vars PROVE IInv'
  OBVIOUS
<1>1. CASE \E in \in Ports, out \in Ports, q \in Queues, size \in PacketSizes :
              \/ \E coin \in Coins : ReceiveData(in, out, q, size, coin)
              \/ RejectData(in, out, q, size)
  BY <1>1, ReceiveDataKeeps, RejectDataKeeps
<1>2. CASE \E in \in Ports, out \in Ports : ReceiveControl(in, out)
  BY <1>2, ReceiveControlKeeps
<1>3. CASE \E p \in Ports, q \in Queues :
              \/ ReceivePause(p, q)
              \/ \E coin \in Coins : ReceiveResume(p, q, coin)
  BY <1>3, ReceivePauseKeeps, ReceiveResumeKeeps
<1>4. CASE \E p \in Ports : \/ \E coin \in Coins : TransmitComplete(p, coin)
                            \/ DeliverPfc(p)
                            \/ LosePfc(p)
                            \/ TakeDown(p)
  BY <1>4, TransmitCompleteKeeps, DeliverPfcKeeps, LosePfcKeeps, TakeDownKeeps
<1>5. CASE UNCHANGED vars
  <2>1. /\ State' = State /\ Running' = Running
        /\ UNCHANGED <<dev, failed, wire, peer, leaked, halted, lostPfc>>
    BY <1>5 DEF vars, State, Running
  <2>2. WiresOK'
    BY <2>1 DEF IInv, WiresOK
  <2> QED
    BY <2>1, <2>2 DEF IInv
<1> QED
  BY <1>1, <1>2, <1>3, <1>4, <1>5 DEF Next

-----------------------------------------------------------------------------
(* The theorems *)

\* Whatever arrives and in whatever order, the devices and the MMU fit together.
THEOREM Invariance == Spec => []IInv
<1>1. Init => IInv
  BY InitHolds
<1>2. IInv /\ [Next]_vars => IInv'
  BY NextKeeps
<1> QED
  BY <1>1, <1>2, PTL DEF Spec

\* No lost wake-up: a device that is up and READY has nothing it may send, because
\* enqueueing, RESUME and the end of a transmission each call DequeueAndTransmit.
THEOREM NoLostWakeUp == Spec => []WorkConserving
<1>1. IInv => WorkConserving
  BY DEF IInv, WorkConserving, Serving
<1> QED
  BY <1>1, Invariance, PTL

\* "Must be READY to transmit" fails only when a dequeued packet leaves by the port
\* it came in by and its release has put a RESUME in the transmitter, for all
\* traffic on all routes.
THEOREM TransmitterReady == Spec => []ReadyUnlessHairpin
<1>1. IInv => ReadyUnlessHairpin
  BY StateIs DEF IInv, Hairpin, ReadyUnlessHairpin
<1> QED
  BY <1>1, Invariance, PTL

\* PAUSE and RESUME are neither duplicated nor overtaken: as long as the links lose
\* no PFC frame, the frames under way take each neighbour's m_paused to the MMU's
\* flag, and Resume finds the queue paused.
THEOREM NeighboursInStep == Spec => []NeighbourAgrees
<1>1. IInv => NeighbourAgrees
  BY StateIs DEF IInv, NeighbourAgrees, InStep, Agrees
<1> QED
  BY <1>1, Invariance, PTL

\* There are finitely many lanes.
LEMMA LanesFinite == IsFiniteSet(DataLanes)
<1> DEFINE A == (Ports \X Ports) \X Queues
           B == Ports \X Ports \X Queues
           g == [u \in A |-> <<u[1][1], u[1][2], u[2]>>]
<1>1. IsFiniteSet(Queues)
  <2>1. IsFiniteSet(1 .. QCnt - 1) /\ Queues \in SUBSET (1 .. QCnt - 1)
    BY NodeAssumption, FS_Interval
  <2> QED
    BY <2>1, FS_Subset
<1>2. IsFiniteSet(A)
  <2>1. IsFiniteSet(Ports \X Ports)
    BY NodeAssumption, FS_Product
  <2> QED
    BY <2>1, <1>1, FS_Product
<1>3. g \in Surjection(A, B)
  <2>1. g \in [A -> B]
    OBVIOUS
  <2>2. ASSUME NEW b \in B PROVE \E u \in A : g[u] = b
    <3> DEFINE u == <<<<b[1], b[2]>>, b[3]>>
    <3>1. u \in A /\ g[u] = b
      OBVIOUS
    <3> QED
      BY <3>1
  <2> QED
    BY <2>1, <2>2 DEF Surjection
<1>4. IsFiniteSet(B)
  BY <1>2, <1>3, FS_Surjection
<1>5. DataLanes \in SUBSET B
  BY DEF DataLanes, Lanes
<1> QED
  BY <1>4, <1>5, FS_Subset

\* The bytes of a set of lanes are a number.
LEMMA HeldType ==
    ASSUME IInv, NEW L \in SUBSET DataLanes
    PROVE  SumOf([r \in L |-> Held(r)]) \in Nat
<1> DEFINE g == [r \in L |-> Held(r)]
<1>1. ASSUME NEW r \in L PROVE Held(r) \in Nat
  <2>1. r[2] \in Ports /\ r[3] \in AllQueues
    BY QueueZero DEF DataLanes, Lanes
  <2>2. dev[r[2]].fifo[r[3]] \in Seq(Frames)
    BY <2>1, StateIs DEF IInv, NodeOK, NodeStates, Devices, Fifos
  <2>3. leaked[r] \in Nat
    BY DEF IInv, WiresOK
  <2>4. Bytes(dev[r[2]].fifo[r[3]], r[1]) \in Nat
    BY <2>2, BytesType
  <2> QED
    BY <2>3, <2>4 DEF Held
<1>2. g \in [L -> Nat]
  BY <1>1
<1>3. IsFiniteSet(L)
  BY LanesFinite, FS_Subset
<1> HIDE DEF g
<1>4. SumOf(g) \in Nat
  BY <1>2, <1>3, SumType
<1> QED
  BY <1>4 DEF g

\* Type correctness of the node, its devices and the bytes it holds.
THEOREM TypeCorrect == Spec => []TypeOK
<1>1. ASSUME IInv PROVE TypeOK
  <2>1. mmu \in MmuStates /\ dev \in [Ports -> Devices]
        /\ m_bytes \in [Lanes(AllQueues) -> Words] /\ failed \in Failures
    BY <1>1, StateIs DEF IInv, NodeOK, NodeStates
  <2>2. Mmu!TypeOK
    <3>1. HeldIn \in [PQ -> Nat]
      <4>1. ASSUME NEW x \in PQ
            PROVE  SumOf([r \in {l \in DataLanes : <<l[1], l[3]>> = x} |-> Held(r)]) \in Nat
        BY <1>1, HeldType
      <4> QED
        BY <4>1 DEF HeldIn, PQ
    <3>2. HeldOut \in [PQ -> Nat]
      <4>1. ASSUME NEW x \in PQ
            PROVE  SumOf([r \in {l \in DataLanes : <<l[2], l[3]>> = x} |-> Held(r)]) \in Nat
        BY <1>1, HeldType
      <4> QED
        BY <4>1 DEF HeldOut, PQ
    <3>3. halted \in BOOLEAN
      BY <1>1 DEF IInv, WiresOK, Flags
    <3>4. mmu \in [shared  : 0 .. UintRange - 1,
                   hdrm    : [PQ -> 0 .. UintRange - 1],
                   ingress : [PQ -> 0 .. UintRange - 1],
                   paused  : [PQ -> BOOLEAN],
                   egress  : [PQ -> 0 .. UintRange - 1]]
      BY <2>1 DEF MmuStates, Words, Flags
    <3> QED
      BY <3>1, <3>2, <3>3, <3>4 DEF Mmu!TypeOK, Mmu!PQ, PQ
  <2>3. Frames = Frame
    BY DEF Frames, Frame, Flags
  <2>4. ASSUME NEW p \in Ports
        PROVE  /\ dev[p].tx \in {"READY", "BUSY"} /\ dev[p].current \in Frame
               /\ dev[p].tx = "BUSY" <=> dev[p].current # Idle
               /\ \A q \in AllQueues : dev[p].fifo[q] \in Seq(Frame)
               /\ dev[p].rrlast \in AllQueues /\ dev[p].up \in BOOLEAN
               /\ dev[p].paused \in [Queues -> BOOLEAN]
               /\ wire[p] \in Seq(Frame)
    <3>1. dev[p] \in Devices /\ Sound(p, dev[p])
      BY <1>1, <2>1, StateIs DEF IInv, NodeOK
    <3>2. /\ dev[p].tx \in {"READY", "BUSY"} /\ dev[p].current \in Currents
          /\ dev[p].fifo \in Fifos /\ dev[p].paused \in Lines /\ dev[p].up \in Flags
          /\ dev[p].rrlast \in AllQueues
      BY <3>1 DEF Devices
    <3>3. Idle \in Frames
      <4>1. FALSE \in Flags
        BY DEF Flags
      <4> QED
        BY <4>1, QueueZero DEF Idle, Frames
    <3>4. dev[p].current \in Frames
      BY <3>2, <3>3 DEF Currents
    <3>5. wire[p] \in Seq(Frames)
      <4>1. wire[p] \in Seq(PfcFrames)
        BY <1>1 DEF IInv, WiresOK
      <4>2. \A f \in PfcFrames : f \in Frames
        BY DEF PfcFrames
      <4> QED
        BY <4>1, <4>2
    <3>6. \A q \in AllQueues : dev[p].fifo[q] \in Seq(Frames)
      BY <3>2 DEF Fifos
    <3>7. dev[p].tx = "BUSY" <=> dev[p].current # Idle
      BY <3>1 DEF Sound
    <3>8. dev[p].up \in BOOLEAN /\ dev[p].paused \in [Queues -> BOOLEAN]
      BY <3>2 DEF Lines, Flags
    <3> QED
      BY <3>2, <3>4, <3>5, <3>6, <3>7, <3>8, <2>3
  <2>5. peer \in [Ports \X Queues -> BOOLEAN] /\ leaked \in [DataLanes -> Nat]
    BY <1>1 DEF IInv, WiresOK, PQ, Flags
  <2>6. m_bytes \in [Lanes(AllQueues) -> 0 .. UintRange - 1]
    BY <2>1 DEF Words
  <2>7. failed \in {"no", "ready", "paused"}
    BY <2>1 DEF Failures
  <2> QED
    BY <2>2, <2>4, <2>5, <2>6, <2>7 DEF TypeOK
<1>2. IInv => TypeOK
  BY <1>1
<1> QED
  BY <1>2, Invariance, PTL

-----------------------------------------------------------------------------
(***************************************************************************)
(* SwitchNode implements SwitchMmu: every event of the switch is an        *)
(* admission, a release, both, a rejection, or nothing to the MMU.         *)
(***************************************************************************)

-----------------------------------------------------------------------------
(* The bytes in a queue *)

\* What the frame f counts for port in.
Weight(f, in) == IF f.in = in THEN f.size ELSE 0

\* The weight of a frame is a number.
LEMMA WeightType ==
    ASSUME NEW f \in Frames, NEW in
    PROVE  Weight(f, in) \in Nat
BY DEF Weight, Frames

\* Bytes adds up the weights.
LEMMA BytesAre ==
    ASSUME NEW z, NEW in
    PROVE  Bytes(z, in) = SumOf([i \in 1 .. Len(z) |-> Weight(z[i], in)])
BY DEF Bytes, Weight

\* An empty queue holds no bytes.
LEMMA BytesEmpty ==
    ASSUME NEW in PROVE Bytes(<<>>, in) = 0
<1> DEFINE g == [i \in 1 .. Len(<<>>) |-> Weight(<<>>[i], in)]
           n == 0
           k == [i \in 1 .. n |-> n]
<1>1. g = k
  OBVIOUS
<1>2. IsFiniteSet(1 .. n) /\ Cardinality(1 .. n) = n /\ n \in Nat
  <2>1. n \in Nat
    OBVIOUS
  <2> HIDE DEF n
  <2> QED
    BY <2>1, FS_Interval DEF n
<1>3. SumOf(k) = Cardinality(1 .. n) * n
  <2> HIDE DEF n
  <2> QED
    BY <1>2, SumConstant
<1>4. Bytes(<<>>, in) = SumOf(g)
  BY BytesAre, Zenon
<1> QED
  BY <1>1, <1>2, <1>3, <1>4

\* A frame that is appended adds its weight.
LEMMA BytesAppend ==
    ASSUME NEW z \in Seq(Frames), NEW f \in Frames, NEW in
    PROVE  Bytes(Append(z, f), in) = Bytes(z, in) + Weight(f, in)
<1> DEFINE n == Len(z)
           S == 1 .. n
           y == Append(z, f)
           h == [i \in S |-> Weight(z[i], in)]
           g == [i \in 1 .. Len(y) |-> Weight(y[i], in)]
<1>1. n \in Nat /\ Len(y) = n + 1 /\ y[n + 1] = f /\ \A i \in S : y[i] = z[i]
  OBVIOUS
<1>2. IsFiniteSet(S) /\ n + 1 \notin S /\ 1 .. Len(y) = S \cup {n + 1}
  <2> HIDE DEF y, n
  <2>1. IsFiniteSet(S)
    BY <1>1, FS_Interval
  <2>2. n + 1 \notin S /\ 1 .. (n + 1) = S \cup {n + 1}
    BY <1>1
  <2> QED
    BY <1>1, <2>1, <2>2
<1>3. \A i \in S : z[i] \in Frames
  OBVIOUS
<1>4. h \in [S -> Nat]
  BY <1>3, WeightType
<1>5. g = [i \in S \cup {n + 1} |-> Weight(y[i], in)]
  BY <1>2
<1>6. \A i \in S \cup {n + 1} : Weight(y[i], in) \in Nat
  BY <1>1, <1>3, WeightType
<1>7. g \in [S \cup {n + 1} -> Nat] /\ g[n + 1] = Weight(f, in) /\ \A i \in S : g[i] = h[i]
  BY <1>1, <1>5, <1>6
<1>8. Bytes(y, in) = SumOf(g) /\ Bytes(z, in) = SumOf(h)
  BY BytesAre, Zenon
<1> DEFINE x == n + 1
           R == 1 .. Len(y)
<1>0. /\ IsFiniteSet(R) /\ x \in R /\ g \in [R -> Nat]
      /\ h = [i \in R \ {x} |-> g[i]]
  <2>1. IsFiniteSet(R)
    BY <1>1, FS_Interval
  <2>2. R \ {x} = S
    BY <1>2
  <2> HIDE DEF y, n, S, R
  <2> QED
    BY <2>1, <2>2, <1>2, <1>7 DEF R
<1> HIDE DEF g, h, S, n, y, x, R
<1>9. SumOf(g) = SumOf(h) + g[x]
  BY <1>0, SumSplit
<1> QED
  BY <1>7, <1>8, <1>9 DEF x, y

\* A frame that leaves takes its weight with it.
LEMMA BytesTail ==
    ASSUME NEW z \in Seq(Frames), z # <<>>, NEW in
    PROVE  Bytes(z, in) = Bytes(Tail(z), in) + Weight(Head(z), in)
<1> DEFINE n == Len(z)
           y == Tail(z)
           S == 2 .. n
           T == 1 .. Len(y)
           g == [i \in 1 .. n |-> Weight(z[i], in)]
           h == [i \in S |-> Weight(z[i], in)]
           t == [i \in T |-> Weight(y[i], in)]
           k == [i \in S |-> i - 1]
<1>1. /\ n \in Nat /\ n > 0 /\ y \in Seq(Frames) /\ Len(y) = n - 1
      /\ \A i \in T : y[i] = z[i + 1]
      /\ Head(z) = z[1]
  OBVIOUS
<1>2. IsFiniteSet(S) /\ 1 \notin S /\ 1 .. n = S \cup {1}
  BY <1>1, FS_Interval
<1>3. \A i \in 1 .. n : Weight(z[i], in) \in Nat
  BY WeightType
<1>4. /\ h \in [S -> Nat] /\ g \in [S \cup {1} -> Nat] /\ g[1] = Weight(Head(z), in)
      /\ \A i \in S : g[i] = h[i]
  BY <1>1, <1>2, <1>3
<1>5. k \in Bijection(S, T)
  <2>1. k \in [S -> T]
    BY <1>1
  <2>2. \A i, j \in S : k[i] = k[j] => i = j
    OBVIOUS
  <2>3. ASSUME NEW j \in T PROVE \E i \in S : k[i] = j
    <3>1. j + 1 \in S /\ k[j + 1] = j
      BY <1>1
    <3> QED
      BY <3>1
  <2> HIDE DEF k, S, T
  <2> QED
    BY <2>1, <2>2, <2>3 DEF Bijection, Injection, IsInjective, Surjection
<1>6. t \in [T -> Nat]
  <2>1. \A i \in T : y[i] \in Frames
    BY <1>1
  <2> QED
    BY <2>1, WeightType
<1>7. ASSUME NEW i \in S PROVE t[k[i]] = h[i]
  <2>1. i - 1 \in T /\ y[i - 1] = z[i]
    <3>1. i - 1 \in T
      BY <1>1
    <3>2. y[i - 1] = z[(i - 1) + 1] /\ (i - 1) + 1 = i
      BY <3>1, <1>1
    <3> QED
      BY <3>1, <3>2
  <2> HIDE DEF y
  <2> QED
    BY <2>1
<1>8. Bytes(z, in) = SumOf(g) /\ Bytes(y, in) = SumOf(t)
  BY BytesAre, Zenon
<1> DEFINE x == 1
           R == 1 .. n
<1>0. /\ IsFiniteSet(R) /\ x \in R /\ g \in [R -> Nat] /\ g[x] = Weight(Head(z), in)
      /\ h = [i \in R \ {x} |-> g[i]] /\ h = [i \in S |-> t[k[i]]]
  <2>1. IsFiniteSet(R) /\ R \ {x} = S
    BY <1>1, <1>2, FS_Interval
  <2>2. g \in [R -> Nat] /\ x \in R
    BY <1>1, <1>3
  <2>3. h = [i \in S |-> g[i]]
    BY <1>4
  <2>4. h = [i \in S |-> t[k[i]]]
    <3> HIDE DEF t, k
    <3> QED
      BY <1>7
  <2> HIDE DEF g, h, t, k, S, T, R, x
  <2> QED
    BY <2>1, <2>2, <2>3, <2>4, <1>4 DEF x
<1> HIDE DEF g, h, t, k, S, T, y, n, x, R
<1>9. SumOf(g) = SumOf(h) + g[x]
  <2>1. SumOf(g) = SumOf([i \in R \ {x} |-> g[i]]) + g[x]
    BY <1>0, SumSplit
  <2> QED
    BY <2>1, <1>0, Zenon
<1>10. SumOf(t) = SumOf(h)
  <2>1. SumOf(t) = SumOf([i \in S |-> t[k[i]]])
    BY <1>2, <1>5, <1>6, SumReorder
  <2> QED
    BY <2>1, <1>0, Zenon
<1> QED
  BY <1>0, <1>8, <1>9, <1>10 DEF y

-----------------------------------------------------------------------------
(* The bytes of a port *)

\* The lanes that come in, and that go out, by a port in a class.
InLanes(x) == {l \in DataLanes : <<l[1], l[3]>> = x}
OutLanes(x) == {l \in DataLanes : <<l[2], l[3]>> = x}

\* A table h of the bytes per lane, added up per port and class.
InOf(h) == [x \in PQ |-> SumOf([r \in InLanes(x) |-> h[r]])]
OutOf(h) == [x \in PQ |-> SumOf([r \in OutLanes(x) |-> h[r]])]

Tables == [DataLanes -> Nat]

\* Another value for one lane changes the sums that the lane is a part of.
LEMMA PartChange ==
    ASSUME NEW L \in SUBSET DataLanes, NEW h \in Tables, NEW g \in Tables,
           NEW r \in DataLanes, \A l \in DataLanes \ {r} : g[l] = h[l]
    PROVE  LET H == SumOf([l \in L |-> h[l]])
               G == SumOf([l \in L |-> g[l]])
           IN  /\ H \in Nat
               /\ r \notin L => G = H
               /\ r \in L => G = H - h[r] + g[r] /\ h[r] <= H
<1> DEFINE hl == [l \in L |-> h[l]]
           gl == [l \in L |-> g[l]]
           v == g[r]
<1>1. IsFiniteSet(L)
  BY LanesFinite, FS_Subset
<1>2. hl \in [L -> Nat] /\ v \in Nat
  BY DEF Tables
<1>3. CASE r \notin L
  <2>1. gl = hl
    BY <1>3
  <2> HIDE DEF hl, gl
  <2>2. SumOf(gl) = SumOf(hl) /\ SumOf(hl) \in Nat
    BY <2>1, <1>1, <1>2, SumType
  <2> QED
    BY <2>2, <1>3 DEF hl, gl
<1>4. CASE r \in L
  <2>1. gl = [hl EXCEPT ![r] = v] /\ hl[r] = h[r]
    BY <1>4
  <2> HIDE DEF hl, gl, v
  <2>2. /\ SumOf(gl) = SumOf(hl) - hl[r] + v /\ hl[r] <= SumOf(hl)
        /\ SumOf(hl) \in Nat
    BY <2>1, <1>1, <1>2, <1>4, SumUpdate, SumType
  <2> QED
    BY <2>1, <2>2, <1>4 DEF hl, gl, v
<1> QED
  BY <1>3, <1>4

\* A packet that is added to a lane is added to both sums, and one that is
\* removed was a part of both.
LEMMA SumsChange ==
    ASSUME NEW h \in Tables, NEW g \in Tables, NEW r \in DataLanes,
           \A l \in DataLanes \ {r} : g[l] = h[l], NEW n \in Nat
    PROVE  LET x == <<r[1], r[3]>>
               y == <<r[2], r[3]>>
           IN  /\ g[r] = h[r] + n =>
                     /\ InOf(g) = [InOf(h) EXCEPT ![x] = @ + n]
                     /\ OutOf(g) = [OutOf(h) EXCEPT ![y] = @ + n]
               /\ h[r] = g[r] + n =>
                     /\ n <= InOf(h)[x] /\ n <= OutOf(h)[y]
                     /\ InOf(g) = [InOf(h) EXCEPT ![x] = @ - n]
                     /\ OutOf(g) = [OutOf(h) EXCEPT ![y] = @ - n]
<1> DEFINE x == <<r[1], r[3]>>
           y == <<r[2], r[3]>>
<1>1. x \in PQ /\ y \in PQ
  BY DEF DataLanes, Lanes, PQ
<1>2. \A z : /\ InLanes(z) \in SUBSET DataLanes /\ OutLanes(z) \in SUBSET DataLanes
             /\ r \in InLanes(z) <=> z = x
             /\ r \in OutLanes(z) <=> z = y
  BY DEF InLanes, OutLanes
<1>3. h[r] \in Nat /\ g[r] \in Nat
  BY DEF Tables
<1> HIDE DEF x, y
<1>4. ASSUME NEW z \in PQ
      PROVE  /\ InOf(h)[z] \in Nat /\ (z = x => h[r] <= InOf(h)[z])
             /\ InOf(g)[z] = IF z = x THEN InOf(h)[z] - h[r] + g[r] ELSE InOf(h)[z]
  <2> DEFINE L == InLanes(z)
  <2>1. L \in SUBSET DataLanes /\ (r \in L <=> z = x)
    BY <1>2
  <2>2. InOf(h)[z] = SumOf([l \in L |-> h[l]]) /\ InOf(g)[z] = SumOf([l \in L |-> g[l]])
    BY DEF InOf
  <2> HIDE DEF L
  <2> DEFINE H == SumOf([l \in L |-> h[l]])
             G == SumOf([l \in L |-> g[l]])
  <2>3. /\ H \in Nat
        /\ r \notin L => G = H
        /\ r \in L => G = H - h[r] + g[r] /\ h[r] <= H
    BY <2>1, PartChange
  <2> HIDE DEF H, G
  <2> QED
    BY <2>1, <2>2, <2>3 DEF H, G
<1>5. ASSUME NEW z \in PQ
      PROVE  /\ OutOf(h)[z] \in Nat /\ (z = y => h[r] <= OutOf(h)[z])
             /\ OutOf(g)[z] = IF z = y THEN OutOf(h)[z] - h[r] + g[r] ELSE OutOf(h)[z]
  <2> DEFINE L == OutLanes(z)
  <2>1. L \in SUBSET DataLanes /\ (r \in L <=> z = y)
    BY <1>2
  <2>2. OutOf(h)[z] = SumOf([l \in L |-> h[l]]) /\ OutOf(g)[z] = SumOf([l \in L |-> g[l]])
    BY DEF OutOf
  <2> HIDE DEF L
  <2> DEFINE H == SumOf([l \in L |-> h[l]])
             G == SumOf([l \in L |-> g[l]])
  <2>3. /\ H \in Nat
        /\ r \notin L => G = H
        /\ r \in L => G = H - h[r] + g[r] /\ h[r] <= H
    BY <2>1, PartChange
  <2> HIDE DEF H, G
  <2> QED
    BY <2>1, <2>2, <2>3 DEF H, G
<1> DEFINE hi == InOf(h)
           gi == InOf(g)
           ho == OutOf(h)
           go == OutOf(g)
<1>6. /\ hi = [z \in PQ |-> hi[z]] /\ gi = [z \in PQ |-> gi[z]]
      /\ ho = [z \in PQ |-> ho[z]] /\ go = [z \in PQ |-> go[z]]
  BY DEF InOf, OutOf
<1> HIDE DEF hi, gi, ho, go
<1>7. CASE g[r] = h[r] + n
  <2>1. /\ \A z \in PQ : gi[z] = IF z = x THEN hi[z] + n ELSE hi[z]
        /\ \A z \in PQ : go[z] = IF z = y THEN ho[z] + n ELSE ho[z]
    BY <1>3, <1>4, <1>5, <1>7 DEF hi, gi, ho, go
  <2>2. gi = [hi EXCEPT ![x] = @ + n]
    BY <2>1, <1>6, <1>1
  <2>3. go = [ho EXCEPT ![y] = @ + n]
    BY <2>1, <1>6, <1>1
  <2>4. n # 0 => h[r] # g[r] + n
    BY <1>3, <1>7
  <2>5. CASE n = 0
    <3>1. \A z \in PQ : hi[z] \in Nat /\ ho[z] \in Nat
      BY <1>4, <1>5 DEF hi, ho
    <3>2. /\ \A z \in PQ : gi[z] = IF z = x THEN hi[z] - n ELSE hi[z]
          /\ \A z \in PQ : go[z] = IF z = y THEN ho[z] - n ELSE ho[z]
      BY <2>1, <2>5, <3>1
    <3>3. gi = [hi EXCEPT ![x] = @ - n] /\ n <= hi[x]
      BY <3>1, <3>2, <2>5, <1>6, <1>1
    <3>4. go = [ho EXCEPT ![y] = @ - n] /\ n <= ho[y]
      BY <3>1, <3>2, <2>5, <1>6, <1>1
    <3> QED
      BY <2>2, <2>3, <3>3, <3>4 DEF hi, gi, ho, go, x, y
  <2> QED
    BY <2>2, <2>3, <2>4, <2>5 DEF hi, gi, ho, go, x, y
<1>8. CASE h[r] = g[r] + n /\ n # 0
  <2>1. /\ \A z \in PQ : gi[z] = IF z = x THEN hi[z] - n ELSE hi[z]
        /\ \A z \in PQ : go[z] = IF z = y THEN ho[z] - n ELSE ho[z]
        /\ n <= hi[x] /\ n <= ho[y]
    <3>1. n <= h[r] /\ (\A a \in Nat : a - h[r] + g[r] = a - n)
      BY <1>3, <1>8
    <3>2. /\ hi[x] \in Nat /\ ho[y] \in Nat /\ h[r] <= hi[x] /\ h[r] <= ho[y]
          /\ \A z \in PQ : hi[z] \in Nat /\ ho[z] \in Nat
      BY <1>1, <1>4, <1>5 DEF hi, ho
    <3>3. n <= hi[x] /\ n <= ho[y]
      BY <3>1, <3>2, <1>3
    <3> QED
      BY <3>1, <3>2, <3>3, <1>4, <1>5 DEF hi, gi, ho, go
  <2>2. gi = [hi EXCEPT ![x] = @ - n]
    BY <2>1, <1>6, <1>1
  <2>3. go = [ho EXCEPT ![y] = @ - n]
    BY <2>1, <1>6, <1>1
  <2>4. g[r] # h[r] + n
    BY <1>3, <1>8
  <2> QED
    BY <2>1, <2>2, <2>3, <2>4 DEF hi, gi, ho, go, x, y
<1> QED
  BY <1>3, <1>7, <1>8 DEF x, y

-----------------------------------------------------------------------------
(* The node *)

\* What the node holds in each lane: the packets in the queues of the state s, and
\* those that were dropped when a link went down, k.
Table(s, k) == [r \in DataLanes |-> Bytes(s.dev[r[2]].fifo[r[3]], r[1]) + k[r]]

\* The refinement mapping in terms of the table.
LEMMA HeldIs ==
    HeldIn = InOf(Table(State, leaked)) /\ HeldOut = OutOf(Table(State, leaked))
<1> DEFINE t == Table(State, leaked)
<1>1. ASSUME NEW r \in DataLanes PROVE Held(r) = t[r]
  BY StateIs DEF Held, Table
<1> HIDE DEF t
<1>2. ASSUME NEW x
      PROVE  [r \in {l \in DataLanes : <<l[1], l[3]>> = x} |-> Held(r)]
                = [r \in {l \in DataLanes : <<l[1], l[3]>> = x} |-> t[r]]
  BY <1>1
<1>3. ASSUME NEW x
      PROVE  [r \in {l \in DataLanes : <<l[2], l[3]>> = x} |-> Held(r)]
                = [r \in {l \in DataLanes : <<l[2], l[3]>> = x} |-> t[r]]
  BY <1>1
<1>4. HeldIn = InOf(t)
  BY <1>2 DEF HeldIn, InOf, InLanes, PQ
<1>5. HeldOut = OutOf(t)
  BY <1>3 DEF HeldOut, OutOf, OutLanes, PQ
<1> QED
  BY <1>4, <1>5 DEF t

\* The contents of a queue are frames, and the table is one of numbers.
LEMMA TableType ==
    ASSUME NEW s, NodeOK(s), NEW k \in Tables
    PROVE  /\ \A o \in Ports, c \in AllQueues : s.dev[o].fifo[c] \in Seq(Frames)
           /\ Table(s, k) \in Tables
<1>1. \A o \in Ports, c \in AllQueues : s.dev[o].fifo[c] \in Seq(Frames)
  BY DEF NodeOK, NodeStates, Devices, Fifos
<1>2. ASSUME NEW r \in DataLanes
      PROVE  Bytes(s.dev[r[2]].fifo[r[3]], r[1]) + k[r] \in Nat
  <2>1. r[2] \in Ports /\ r[3] \in AllQueues
    BY QueueZero DEF DataLanes, Lanes
  <2>2. Bytes(s.dev[r[2]].fifo[r[3]], r[1]) \in Nat
    BY <2>1, <1>1, BytesType
  <2> QED
    BY <2>2 DEF Tables
<1> QED
  BY <1>1, <1>2 DEF Table, Tables

\* The table depends on the data queues only.
LEMMA TableSame ==
    ASSUME NEW s, NEW r, SameData(s, r), NEW k
    PROVE  Table(r, k) = Table(s, k)
<1>1. ASSUME NEW l \in DataLanes PROVE r.dev[l[2]].fifo[l[3]] = s.dev[l[2]].fifo[l[3]]
  BY DEF SameData, DataLanes, Lanes
<1> QED
  BY <1>1 DEF Table

\* Queue q of port p has the frame f more in t than in s: it counts for the lane
\* of f, and for no other.
LEMMA LaneChange ==
    ASSUME NEW s, NodeOK(s), NEW t, NodeOK(t), NEW k \in Tables,
           NEW p \in Ports, NEW q \in Queues, NEW f \in Frames,
           <<f.in, p, q>> \in DataLanes,
           \A in : Bytes(t.dev[p].fifo[q], in) = Bytes(s.dev[p].fifo[q], in) + Weight(f, in),
           \A o \in Ports, c \in Queues :
               o # p \/ c # q => t.dev[o].fifo[c] = s.dev[o].fifo[c]
    PROVE  LET r == <<f.in, p, q>>
           IN  /\ Table(t, k)[r] = Table(s, k)[r] + f.size
               /\ \A l \in DataLanes \ {r} : Table(t, k)[l] = Table(s, k)[l]
<1> DEFINE r == <<f.in, p, q>>
           bs(l) == Bytes(s.dev[l[2]].fifo[l[3]], l[1])
           bt(l) == Bytes(t.dev[l[2]].fifo[l[3]], l[1])
<1>1. \A l \in DataLanes : Table(s, k)[l] = bs(l) + k[l] /\ Table(t, k)[l] = bt(l) + k[l]
  BY DEF Table
<1>2. ASSUME NEW l \in DataLanes
      PROVE  /\ l[1] \in Ports /\ l[2] \in Ports /\ l[3] \in Queues
             /\ l = <<l[1], l[2], l[3]>> /\ k[l] \in Nat
  BY DEF DataLanes, Lanes, Tables
<1>3. ASSUME NEW l \in DataLanes PROVE bs(l) \in Nat
  <2>1. l[2] \in Ports /\ l[3] \in AllQueues
    BY <1>2, QueueZero
  <2>2. s.dev[l[2]].fifo[l[3]] \in Seq(Frames)
    BY <2>1, TableType
  <2> QED
    BY <2>2, BytesType
<1>4. Table(t, k)[r] = Table(s, k)[r] + f.size
  <2>1. bt(r) = bs(r) + f.size /\ f.size \in Nat
    BY DEF Weight, Frames
  <2>2. bs(r) \in Nat /\ k[r] \in Nat
    BY <1>2, <1>3
  <2>3. Table(s, k)[r] = bs(r) + k[r] /\ Table(t, k)[r] = bt(r) + k[r]
    BY <1>1
  <2> HIDE DEF bs, bt, r
  <2> QED
    BY <2>1, <2>2, <2>3
<1>5. ASSUME NEW l \in DataLanes \ {r} PROVE bt(l) = bs(l)
  <2>1. CASE l[2] # p \/ l[3] # q
    BY <2>1, <1>2
  <2>2. CASE l[2] = p /\ l[3] = q
    <3>1. f.in # l[1]
      BY <2>2, <1>2
    <3>2. bt(l) = bs(l) + 0
      BY <3>1, <2>2 DEF Weight
    <3> QED
      BY <3>2, <1>3
  <2> QED
    BY <2>1, <2>2
<1> QED
  BY <1>1, <1>4, <1>5

\* From s to r, with what was dropped before in k, the MMU releases a packet of the
\* node.
ReleaseOf(s, r, k, in, out, q, n) ==
    /\ r.mmu = Mmu!Dequeued(s.mmu, in, out, q, n)
    /\ n <= InOf(Table(s, k))[<<in, q>>] /\ n <= OutOf(Table(s, k))[<<out, q>>]
    /\ InOf(Table(r, k)) = [InOf(Table(s, k)) EXCEPT ![<<in, q>>] = @ - n]
    /\ OutOf(Table(r, k)) = [OutOf(Table(s, k)) EXCEPT ![<<out, q>>] = @ - n]
Releases(s, r, k) ==
    \E in \in Ports, out \in Ports, q \in Queues, n \in PacketSizes :
        ReleaseOf(s, r, k, in, out, q, n)

\* The first packet of a data queue.
LEMMA HeadOfQueue ==
    ASSUME NEW s, NodeOK(s), NEW p \in Ports, NEW c \in Queues,
           s.dev[p].fifo[c] # <<>>
    PROVE  LET f == Head(s.dev[p].fifo[c])
           IN  /\ f \in Frames /\ f.in \in Ports /\ f.size \in PacketSizes
               /\ f.size \in Nat /\ <<f.in, p, c>> \in DataLanes
<1> DEFINE f == Head(s.dev[p].fifo[c])
<1>1. s.dev[p] \in Devices /\ Sound(p, s.dev[p]) /\ c \in AllQueues
  BY QueueZero DEF NodeOK, NodeStates
<1>2. f \in Fits(p, c)
  BY <1>1, HeadIsCurrent
<1> HIDE DEF f
<1>3. f \in Frames
  BY <1>2, QueueZero DEF Fits
<1>4. f.in \in Ports /\ f.size \in PacketSizes /\ f.size \in Nat
      /\ <<f.in, p, c>> \in DataLanes
  BY <1>2, DataFrameIs
<1> QED
  BY <1>3, <1>4 DEF f

\* A packet that a device sends is released.
LEMMA SendsReleases ==
    ASSUME NEW s, NodeOK(s), NEW r, NodeOK(r), NEW p \in Ports,
           Sends(s, r, p), NEW k \in Tables
    PROVE  Releases(s, r, k)
<1>1. PICK c \in Eligible(s.dev[p]) :
          /\ r.mmu = Mmu!Dequeued(s.mmu, Head(s.dev[p].fifo[c]).in, p, c,
                                  Head(s.dev[p].fifo[c]).size)
          /\ r.dev[p].fifo[c] = Tail(s.dev[p].fifo[c])
          /\ \A o \in Ports, i \in Queues :
                o # p \/ i # c => r.dev[o].fifo[i] = s.dev[o].fifo[i]
  BY DEF Sends
<1>2. c \in Queues /\ s.dev[p].fifo[c] # <<>>
  BY DEF Eligible
<1> DEFINE f == Head(s.dev[p].fifo[c])
           l == <<f.in, p, c>>
           h == Table(s, k)
           g == Table(r, k)
           n == f.size
<1>3. /\ f \in Frames /\ f.in \in Ports /\ n \in PacketSizes /\ n \in Nat
      /\ l \in DataLanes
  BY <1>2, HeadOfQueue
<1>4. s.dev[p].fifo[c] \in Seq(Frames)
  BY <1>2, QueueZero, TableType
<1>5. \A in : Bytes(s.dev[p].fifo[c], in) = Bytes(r.dev[p].fifo[c], in) + Weight(f, in)
  BY <1>1, <1>2, <1>4, BytesTail
<1> HIDE DEF f
<1>6. h[l] = g[l] + n /\ \A i \in DataLanes \ {l} : g[i] = h[i]
  <2>1. \A o \in Ports, i \in Queues :
            o # p \/ i # c => s.dev[o].fifo[i] = r.dev[o].fifo[i]
    BY <1>1
  <2>2. h[l] = g[l] + n /\ \A i \in DataLanes \ {l} : h[i] = g[i]
    BY <2>1, <1>2, <1>3, <1>5, LaneChange
  <2> QED
    BY <2>2
<1>7. h \in Tables /\ g \in Tables
  BY TableType
<1>8. l[1] = f.in /\ l[2] = p /\ l[3] = c
  OBVIOUS
<1> HIDE DEF h, g, l, n
<1>9. /\ n <= InOf(h)[<<l[1], l[3]>>] /\ n <= OutOf(h)[<<l[2], l[3]>>]
      /\ InOf(g) = [InOf(h) EXCEPT ![<<l[1], l[3]>>] = @ - n]
      /\ OutOf(g) = [OutOf(h) EXCEPT ![<<l[2], l[3]>>] = @ - n]
  BY <1>3, <1>6, <1>7, SumsChange
<1>10. /\ n <= InOf(h)[<<f.in, c>>] /\ n <= OutOf(h)[<<p, c>>]
       /\ InOf(g) = [InOf(h) EXCEPT ![<<f.in, c>>] = @ - n]
       /\ OutOf(g) = [OutOf(h) EXCEPT ![<<p, c>>] = @ - n]
  BY <1>8, <1>9
<1>11. r.mmu = Mmu!Dequeued(s.mmu, f.in, p, c, n)
  BY <1>1 DEF f, n
<1> DEFINE i == f.in
<1>12. i \in Ports /\ n \in PacketSizes /\ ReleaseOf(s, r, k, i, p, c, n)
  BY <1>3, <1>10, <1>11, Zenon DEF h, g, ReleaseOf
<1> HIDE DEF i, n
<1> QED
  BY <1>2, <1>12 DEF Releases

-----------------------------------------------------------------------------
(* The steps of the MMU *)

\* The refinement mapping in the next state.
LEMMA HeldIsNext ==
    HeldIn' = InOf(Table(State', leaked')) /\ HeldOut' = OutOf(Table(State', leaked'))
<1>1. (HeldIn = InOf(Table(State, leaked)) /\ HeldOut = OutOf(Table(State, leaked)))'
  BY HeldIs, PTL
<1> QED
  BY <1>1

\* What the node holds has not changed, nor has the MMU.
LEMMA MmuStutters ==
    ASSUME mmu' = mmu, halted' = halted,
           InOf(Table(State', leaked')) = InOf(Table(State, leaked)),
           OutOf(Table(State', leaked')) = OutOf(Table(State, leaked))
    PROVE  [Mmu!Next]_(Mmu!vars)
<1>1. HeldIn' = HeldIn /\ HeldOut' = HeldOut
  BY HeldIs, HeldIsNext
<1> QED
  BY <1>1 DEF Mmu!vars

\* Nothing has changed that concerns the MMU.
LEMMA QuietStutters ==
    ASSUME mmu' = mmu, UNCHANGED <<halted, leaked>>, SameData(State, State')
    PROVE  [Mmu!Next]_(Mmu!vars)
<1>1. Table(State', leaked) = Table(State, leaked)
  BY TableSame
<1> QED
  BY <1>1, MmuStutters

\* The release of a packet.
LEMMA MmuReleases ==
    ASSUME ~halted, UNCHANGED <<halted, leaked>>, Releases(State, State', leaked)
    PROVE  [Mmu!Next]_(Mmu!vars)
<1>1. PICK in \in Ports, out \in Ports, q \in Queues, n \in PacketSizes :
          ReleaseOf(State, State', leaked, in, out, q, n)
  BY DEF Releases
<1>2. /\ HeldIn = InOf(Table(State, leaked)) /\ HeldOut = OutOf(Table(State, leaked))
      /\ HeldIn' = InOf(Table(State', leaked)) /\ HeldOut' = OutOf(Table(State', leaked))
  BY HeldIs, HeldIsNext
<1>3. State.mmu = mmu /\ State'.mmu = mmu'
  BY DEF State
<1>4. Mmu!Release(in, out, q, n)
  BY <1>1, <1>2, <1>3, Zenon DEF ReleaseOf, Mmu!Release
<1> QED
  BY <1>4 DEF Mmu!Next

\* A frame that is enqueued changes one queue of one port.
LEMMA EnqueueChanges ==
    ASSUME NEW s, NodeOK(s), NEW p \in Ports, NEW q \in AllQueues, NEW f \in Fits(p, q)
    PROVE  LET t == Enqueue(s, p, q, f)
           IN  /\ NodeOK(t) /\ t.mmu = s.mmu
               /\ t.dev[p].up = s.dev[p].up /\ t.dev[p].tx = s.dev[p].tx
               /\ t.dev[p].paused = s.dev[p].paused
               /\ t.dev[p].fifo[q] = Append(s.dev[p].fifo[q], f)
               /\ \A o \in Ports, c \in AllQueues :
                     o # p \/ c # q => t.dev[o].fifo[c] = s.dev[o].fifo[c]
<1> DEFINE d == s.dev[p]
           e == Queued(d, q, f)
           t == WithDev(s, p, e)
<1>1. s \in NodeStates /\ d \in Devices /\ Sound(p, d)
  BY DEF NodeOK, NodeStates
<1>2. /\ e \in Devices /\ Sound(p, e) /\ e.tx = d.tx /\ e.up = d.up /\ e.paused = d.paused
      /\ e.fifo[q] = Append(d.fifo[q], f)
      /\ \A c \in AllQueues \ {q} : e.fifo[c] = d.fifo[c]
  BY <1>1, QueuedDevice
<1>3. Enqueue(s, p, q, f) = t
  BY <1>1, EnqueueIs
<1> HIDE DEF e
<1>4. /\ t \in NodeStates /\ t.dev[p] = e /\ t.mmu = s.mmu
      /\ \A o \in Ports \ {p} : t.dev[o] = s.dev[o]
  BY <1>1, <1>2, WithDevIs
<1> HIDE DEF t
<1>5. NodeOK(t)
  BY <1>2, <1>4 DEF NodeOK
<1>6. ASSUME NEW o \in Ports, NEW c \in AllQueues, o # p \/ c # q
      PROVE  t.dev[o].fifo[c] = s.dev[o].fifo[c]
  BY <1>2, <1>4, <1>6
<1> QED
  BY <1>2, <1>3, <1>4, <1>5, <1>6

\* An event that ends with DequeueAndTransmit releases a packet or nothing.
LEMMA DequeueStep ==
    ASSUME IInv, Running, NEW s, NodeOK(s), SameData(State, s), s.mmu = mmu,
           NEW p \in Ports, NEW coin, Becomes(DequeueAndTransmit(s, p, coin)),
           UNCHANGED <<halted, leaked>>
    PROVE  [Mmu!Next]_(Mmu!vars)
<1> DEFINE r == DequeueAndTransmit(s, p, coin)
<1>1. NodeOK(r) /\ (Quiet(s, r) \/ Sends(s, r, p)) /\ Becomes(r)
  BY DequeueAndTransmitIs DEF Ends
<1> HIDE DEF r
<1>2. State' = r /\ mmu' = r.mmu
  BY <1>1, BecomesIs DEF NodeOK, Becomes
<1>3. leaked \in Tables /\ ~halted
  BY DEF IInv, WiresOK, Tables, Running
<1>4. CASE Quiet(s, r)
  <2>1. SameData(State, State') /\ mmu' = mmu
    BY <1>2, <1>4 DEF Quiet, SameData
  <2> QED
    BY <2>1, QuietStutters
<1>5. CASE Sends(s, r, p)
  <2>1. Releases(s, r, leaked)
    BY <1>1, <1>3, <1>5, SendsReleases
  <2>2. Table(s, leaked) = Table(State, leaked) /\ s.mmu = State.mmu
    BY TableSame, StateIs
  <2>3. ASSUME NEW in, NEW out, NEW q, NEW n, ReleaseOf(s, r, leaked, in, out, q, n)
        PROVE  ReleaseOf(State, State', leaked, in, out, q, n)
    BY <2>2, <2>3, <1>2, Zenon DEF ReleaseOf
  <2>4. Releases(State, State', leaked)
    BY <2>1, <2>3, Zenon DEF Releases
  <2> QED
    BY <2>4, <1>3, MmuReleases
<1> QED
  BY <1>1, <1>4, <1>5

-----------------------------------------------------------------------------
(* The events of the node *)

\* ReceiveControl: the packet waits in queue 0, which is not accounted.
LEMMA ReceiveControlStep ==
    ASSUME IInv, NEW in \in Ports, NEW out \in Ports, ReceiveControl(in, out)
    PROVE  [Mmu!Next]_(Mmu!vars)
<1> DEFINE s1 == [State EXCEPT !.m_bytes[<<in, out, 0>>] = Mmu!Plus(@, ControlSize)]
           f == Control(in)
           t == Enqueue(s1, out, 0, f)
           coin == FALSE
<1>1. /\ Running /\ <<in, out>> \in ControlRoutes
      /\ Becomes(DequeueAndTransmit(t, out, coin)) /\ UNCHANGED <<halted, leaked>>
  BY DEF ReceiveControl, Forwardable, SwitchSend
<1>2. <<in, out, 0>> \in Lanes(AllQueues) /\ ControlSize \in Nat
  BY <1>1, NodeAssumption, QueueZero DEF Lanes
<1>3. NodeOK(State) /\ State \in NodeStates
  BY DEF IInv, NodeOK
<1>4. NodeOK(s1)
  BY <1>2, <1>3, BytesFollow DEF Follows
<1>5. s1.mmu = mmu /\ s1.dev = dev
  BY <1>3, StateIs DEF NodeStates
<1> HIDE DEF s1
<1>6. f \in Fits(out, 0)
  <2>1. FALSE \in Flags
    BY DEF Flags
  <2> QED
    BY <2>1, <1>2, QueueZero DEF Control, Fits, Frames, IsPfc
<1> HIDE DEF f
<1> DEFINE z == 0
<1>7. z \in AllQueues /\ f \in Fits(out, z) /\ t = Enqueue(s1, out, z, f)
  BY <1>6, QueueZero
<1>8. \A c \in Queues : c \in AllQueues /\ c # z
  BY QueueZero
<1> HIDE DEF t, z, coin
<1>9. /\ NodeOK(t) /\ t.mmu = s1.mmu
      /\ \A o \in Ports, c \in AllQueues :
            o # out \/ c # z => t.dev[o].fifo[c] = s1.dev[o].fifo[c]
  BY <1>4, <1>7, EnqueueChanges
<1>10. SameData(State, t) /\ t.mmu = mmu
  BY <1>5, <1>8, <1>9, StateIs DEF SameData
<1> QED
  BY <1>1, <1>9, <1>10, DequeueStep

\* ReceiveResume: the device may send a packet of the class.
LEMMA ReceiveResumeStep ==
    ASSUME IInv, NEW p \in Ports, NEW q \in Queues, NEW coin,
           ReceiveResume(p, q, coin)
    PROVE  [Mmu!Next]_(Mmu!vars)
<1> DEFINE d == dev[p]
           e == Paused(d, q, FALSE)
           s == WithDev(State, p, e)
           t == [State EXCEPT !.dev[p].paused[q] = FALSE]
<1>1. /\ Running /\ Becomes(DequeueAndTransmit(t, p, coin)) /\ UNCHANGED <<halted, leaked>>
  BY DEF ReceiveResume
<1>2. NodeOK(State) /\ State \in NodeStates /\ d \in Devices /\ Sound(p, d)
  BY StateIs DEF IInv, NodeOK, NodeStates
<1>3. /\ e \in Devices /\ Sound(p, e) /\ e.up = d.up
      /\ e.current = d.current /\ e.fifo = d.fifo
  <2> DEFINE b == FALSE
  <2>1. e = Paused(d, q, b) /\ b \in BOOLEAN
    OBVIOUS
  <2> HIDE DEF b, d, e
  <2> QED
    BY <2>1, <1>2, PausedDevice
<1>4. t = s
  BY <1>2, StateIs DEF WithDev, Paused, NodeStates, Devices, Lines
<1> HIDE DEF e, t
<1>5. NodeOK(s)
  BY <1>2, <1>3, StateIs, DeviceFollows
<1>6. /\ s.mmu = mmu /\ s.dev[p] = e
      /\ \A o \in Ports \ {p} : s.dev[o] = dev[o]
  BY <1>2, <1>3, WithDevIs, StateIs
<1> HIDE DEF s
<1>7. SameData(State, s)
  BY <1>3, <1>6, StateIs DEF SameData
<1> QED
  BY <1>1, <1>4, <1>5, <1>6, <1>7, DequeueStep

\* TransmitComplete: the device takes the next frame.
LEMMA TransmitCompleteStep ==
    ASSUME IInv, NEW p \in Ports, NEW coin, TransmitComplete(p, coin)
    PROVE  [Mmu!Next]_(Mmu!vars)
<1> DEFINE d == dev[p]
           e == Freed(d)
           s == WithDev(State, p, e)
           t == [State EXCEPT !.dev[p].tx = "READY", !.dev[p].current = Idle]
<1>1. /\ Running /\ Becomes(DequeueAndTransmit(t, p, coin)) /\ UNCHANGED <<halted, leaked>>
  BY DEF TransmitComplete
<1>2. NodeOK(State) /\ State \in NodeStates /\ d \in Devices /\ Sound(p, d)
  BY StateIs DEF IInv, NodeOK, NodeStates
<1>3. e \in Devices /\ Sound(p, e)
  BY <1>2, FreedAgrees
<1>4. t = s /\ e.fifo = d.fifo
  BY <1>2, StateIs DEF WithDev, Freed, NodeStates, Devices
<1> HIDE DEF e, t
<1>5. /\ s \in NodeStates /\ s.mmu = mmu /\ s.dev[p] = e
      /\ \A o \in Ports \ {p} : s.dev[o] = dev[o]
  BY <1>2, <1>3, WithDevIs, StateIs
<1> HIDE DEF s
<1>6. NodeOK(s)
  BY <1>2, <1>3, <1>5, StateIs DEF NodeOK
<1>7. SameData(State, s)
  BY <1>4, <1>5, StateIs DEF SameData
<1> QED
  BY <1>1, <1>4, <1>5, <1>6, <1>7, DequeueStep

\* ReceivePause, DeliverPfc and LosePfc do not concern the MMU.
LEMMA QuietStep ==
    ASSUME IInv, NEW p \in Ports,
           (\E q \in Queues : ReceivePause(p, q)) \/ DeliverPfc(p) \/ LosePfc(p)
    PROVE  [Mmu!Next]_(Mmu!vars)
<1>1. mmu' = mmu /\ UNCHANGED <<halted, leaked>>
  BY DEF ReceivePause, DeliverPfc, LosePfc
<1>2. dev \in [Ports -> Devices]
  BY StateIs DEF IInv, NodeOK, NodeStates
<1>3. ASSUME NEW q \in Queues, ReceivePause(p, q), NEW o \in Ports
      PROVE  dev'[o].fifo = dev[o].fifo
  <2>1. dev' = [dev EXCEPT ![p].paused[q] = TRUE]
    BY <1>3 DEF ReceivePause
  <2> QED
    BY <2>1, <1>2 DEF Devices
<1>4. ASSUME DeliverPfc(p) \/ LosePfc(p) PROVE dev' = dev
  BY <1>4 DEF DeliverPfc, LosePfc
<1>5. \A o \in Ports : dev'[o].fifo = dev[o].fifo
  BY <1>3, <1>4
<1>6. State.dev = dev /\ State'.dev = dev'
  BY DEF State
<1>7. SameData(State, State')
  BY <1>5, <1>6 DEF SameData
<1> QED
  BY <1>1, <1>7, QuietStutters

\* RejectData: "Headroom full".
LEMMA RejectDataStep ==
    ASSUME IInv, NEW in \in Ports, NEW out \in Ports, NEW q \in Queues,
           NEW size \in PacketSizes, RejectData(in, out, q, size)
    PROVE  [Mmu!Next]_(Mmu!vars)
<1>1. /\ ~halted /\ ~Mmu!CheckIngressAdmission(mmu, <<in, q>>, size) /\ halted' = TRUE
      /\ mmu' = mmu /\ State' = State /\ leaked' = leaked
  BY DEF RejectData, Running, State
<1>2. HeldIn' = HeldIn /\ HeldOut' = HeldOut
  BY <1>1, HeldIs, HeldIsNext
<1>3. Mmu!Reject(in, q, size)
  BY <1>1, <1>2 DEF Mmu!Reject
<1> QED
  BY <1>3 DEF Mmu!Next

\* TakeDown: what the queues held stays accounted, now as dropped.
LEMMA TakeDownStep ==
    ASSUME IInv, NEW p \in Ports, TakeDown(p)
    PROVE  [Mmu!Next]_(Mmu!vars)
<1> DEFINE none == [q \in AllQueues |-> <<>>]
           clear == [q \in Queues |-> FALSE]
           lost(l) == IF l[2] = p THEN Bytes(dev[p].fifo[l[3]], l[1]) ELSE 0
<1>1. /\ dev' = [dev EXCEPT ![p].up = FALSE, ![p].fifo = none, ![p].paused = clear]
      /\ leaked' = [l \in DOMAIN leaked |-> leaked[l] + lost(l)]
      /\ mmu' = mmu /\ halted' = halted
  BY DEF TakeDown
<1>2. /\ dev \in [Ports -> Devices] /\ leaked \in [DataLanes -> Nat] /\ leaked \in Tables
      /\ NodeOK(State)
  BY StateIs DEF IInv, NodeOK, NodeStates, WiresOK, Tables
<1>3. dev'[p].fifo = none /\ \A o \in Ports \ {p} : dev'[o] = dev[o]
  <2> HIDE DEF none, clear
  <2> QED
    BY <1>1, <1>2 DEF Devices
<1>4. State.dev = dev /\ State'.dev = dev'
  BY DEF State
<1>5. ASSUME NEW l \in DataLanes
      PROVE  Table(State', leaked')[l] = Table(State, leaked)[l]
  <2> DEFINE b == Bytes(dev[l[2]].fifo[l[3]], l[1])
             c == Bytes(dev'[l[2]].fifo[l[3]], l[1])
  <2>1. l[2] \in Ports /\ l[3] \in AllQueues
    BY QueueZero DEF DataLanes, Lanes
  <2>2. b \in Nat /\ leaked[l] \in Nat
    BY <2>1, <1>2, <1>4, TableType, BytesType
  <2>3. /\ Table(State, leaked)[l] = b + leaked[l]
        /\ Table(State', leaked')[l] = c + leaked'[l]
    BY <1>4 DEF Table
  <2>4. leaked'[l] = leaked[l] + lost(l)
    BY <1>1, <1>2
  <2>5. CASE l[2] = p
    <3>1. c = 0
      BY <2>1, <2>5, <1>3, BytesEmpty
    <3>2. lost(l) = b
      BY <2>5
    <3> HIDE DEF b, c, lost
    <3> QED
      BY <3>1, <3>2, <2>2, <2>3, <2>4
  <2>6. CASE l[2] # p
    <3>1. c = b
      BY <2>1, <2>6, <1>3
    <3>2. lost(l) = 0
      BY <2>6
    <3> HIDE DEF b, c, lost
    <3> QED
      BY <3>1, <3>2, <2>2, <2>3, <2>4
  <2> QED
    BY <2>5, <2>6
<1>6. Table(State', leaked') = Table(State, leaked)
  <2> DEFINE g == Table(State', leaked')
             h == Table(State, leaked)
  <2>1. g = [l \in DataLanes |-> g[l]] /\ h = [l \in DataLanes |-> h[l]]
    BY DEF Table
  <2>2. \A l \in DataLanes : g[l] = h[l]
    BY <1>5
  <2> HIDE DEF g, h
  <2>3. g = h
    BY <2>1, <2>2
  <2> QED
    BY <2>3 DEF g, h
<1> QED
  BY <1>1, <1>6, MmuStutters

\* ReceiveData: the packet is admitted, and released at once when the device has
\* nothing else to send.
LEMMA ReceiveDataStep ==
    ASSUME IInv, NEW in \in Ports, NEW out \in Ports, NEW q \in Queues,
           NEW size \in PacketSizes, NEW coin, ReceiveData(in, out, q, size, coin)
    PROVE  [Mmu!Next]_(Mmu!vars)
<1> DEFINE x == <<in, q>>
           m1 == Mmu!UpdateIngressAdmission(mmu, x, size)
           m2 == Mmu!UpdateEgressAdmission(m1, <<out, q>>, size)
           m3 == Mmu!Enqueued(mmu, in, out, q, size)
           s0 == [State EXCEPT !.mmu = m2]
           s1 == CheckAndSendPfc(s0, in, q)
           s2 == [s1 EXCEPT !.m_bytes[<<in, out, q>>] = Mmu!Plus(@, size)]
           f == Data(in, q, size)
           t == Enqueue(s2, out, q, f)
           r == DequeueAndTransmit(t, out, coin)
<1>1. /\ Running /\ <<in, out>> \in DataRoutes /\ dev[out].up /\ Becomes(r)
      /\ Mmu!CheckIngressAdmission(mmu, x, size)
      /\ UNCHANGED <<halted, leaked>>
  BY DEF ReceiveData, Forwardable, SwitchSend
<1>2. size \in Nat /\ x \in PQ /\ <<out, q>> \in PQ /\ q \in AllQueues /\ q # 0
  BY <1>1, NodeAssumption, QueueZero DEF PQ
<1>3. NodeOK(State) /\ State \in NodeStates /\ mmu \in MmuStates /\ leaked \in Tables
  BY StateIs DEF IInv, NodeOK, NodeStates, WiresOK, Tables
<1>4. m1 \in MmuStates /\ m1.paused = mmu.paused
  BY <1>2, <1>3, MmuTypes
<1>5. m3 = Mmu!SetPauseIfNeeded(m2, x)
  BY DEF Mmu!Enqueued
<1> HIDE DEF m1, m3
<1>6. m2 \in MmuStates /\ m2.paused = mmu.paused
  BY <1>2, <1>4, MmuTypes
<1> HIDE DEF m2
<1>7. NodeOK(s0) /\ s0.mmu = m2 /\ s0.dev = dev
  <2>1. Follows(State, s0)
    BY <1>3, <1>6, StateIs, CountersFollow
  <2>2. s0.mmu = m2 /\ s0.dev = dev
    BY <1>3, StateIs DEF NodeStates
  <2> QED
    BY <2>1, <2>2 DEF Follows
<1> HIDE DEF s0
<1>8. /\ NodeOK(s1) /\ SameData(s0, s1) /\ s1.mmu = m3
      /\ \A o \in Ports \ {in} : s1.dev[o] = s0.dev[o]
      /\ \/ s1.dev[in] = s0.dev[in]
         \/ \E kind \in {"pause", "resume"} : SentBy(s0.dev[in], s1.dev[in], kind)
  <2>1. s1.mmu = m3
    BY <1>5, <1>7, CheckAndSendMmu
  <2>2. s1 = CheckAndSendPfc(s0, in, q)
    OBVIOUS
  <2> HIDE DEF s1
  <2>3. /\ Follows(s0, s1) /\ SameData(s0, s1)
        /\ \A o \in Ports \ {in} : s1.dev[o] = s0.dev[o]
        /\ \/ s1.dev[in] = s0.dev[in]
           \/ \E kind \in {"pause", "resume"} :
                 /\ SentBy(s0.dev[in], s1.dev[in], kind)
                 /\ kind = "resume" \/ ~s0.mmu.paused[<<in, q>>]
    BY <2>2, <1>7, CheckAndSendIs
  <2> QED
    BY <2>1, <2>3 DEF Follows
<1> HIDE DEF s1
<1>9. <<in, out, q>> \in Lanes(AllQueues) /\ <<in, out, q>> \in DataLanes
  BY <1>1, <1>2 DEF Lanes, DataLanes
<1>10. NodeOK(s2) /\ s2.mmu = m3 /\ s2.dev = s1.dev
  <2>1. Follows(s1, s2)
    BY <1>2, <1>8, <1>9, BytesFollow
  <2>2. s1 \in NodeStates
    BY <1>8 DEF NodeOK
  <2>3. s2.mmu = m3 /\ s2.dev = s1.dev
    BY <2>2, <1>8 DEF NodeStates
  <2> QED
    BY <2>1, <2>3 DEF Follows
<1> HIDE DEF s2
<1>11. /\ SameData(State, s2) /\ s2.dev[out].up /\ s2.dev[out].paused = dev[out].paused
       /\ s2.dev[out].tx = "READY" => dev[out].tx = "READY"
  <2>1. SameData(State, s2)
    BY <1>7, <1>8, <1>10, StateIs DEF SameData
  <2>2. s2.dev[out] = dev[out] \/ \E kind : SentBy(dev[out], s2.dev[out], kind)
    BY <1>7, <1>8, <1>10
  <2> QED
    BY <2>1, <2>2, <1>1 DEF SentBy
<1>12. f \in Fits(out, q) /\ f \in Frames /\ f.in = in /\ f.size = size
  <2>1. FALSE \in Flags
    BY DEF Flags
  <2> QED
    BY <2>1, <1>1, <1>2 DEF Data, Fits, Frames
<1> HIDE DEF f
<1>13. /\ NodeOK(t) /\ t.mmu = m3
       /\ t.dev[out].up /\ (t.dev[out].tx = "READY" => dev[out].tx = "READY")
       /\ t.dev[out].paused = dev[out].paused
       /\ t.dev[out].fifo[q] = Append(dev[out].fifo[q], f)
       /\ \A o \in Ports, c \in AllQueues :
             o # out \/ c # q => t.dev[o].fifo[c] = s2.dev[o].fifo[c]
  <2>0. t = Enqueue(s2, out, q, f) /\ NodeOK(s2) /\ q \in AllQueues /\ f \in Fits(out, q)
    BY <1>2, <1>10, <1>12
  <2>1. /\ NodeOK(t) /\ t.mmu = s2.mmu
        /\ t.dev[out].up = s2.dev[out].up /\ t.dev[out].tx = s2.dev[out].tx
        /\ t.dev[out].paused = s2.dev[out].paused
        /\ t.dev[out].fifo[q] = Append(s2.dev[out].fifo[q], f)
        /\ \A o \in Ports, c \in AllQueues :
              o # out \/ c # q => t.dev[o].fifo[c] = s2.dev[o].fifo[c]
    BY <2>0, EnqueueChanges, SMTT(60)
  <2> HIDE DEF t
  <2> QED
    BY <2>1, <1>10, <1>11, StateIs DEF SameData
<1> HIDE DEF t
<1>14. \A o \in Ports, c \in Queues :
           o # out \/ c # q => t.dev[o].fifo[c] = State.dev[o].fifo[c]
  BY <1>11, <1>13, QueueZero DEF SameData
<1>15. NodeOK(r) /\ (Quiet(t, r) \/ Sends(t, r, out))
  BY <1>13, DequeueAndTransmitIs DEF Ends
<1> HIDE DEF r
<1>16. State' = r /\ mmu' = r.mmu /\ ~halted
  BY <1>1, <1>15, BecomesIs DEF NodeOK, Becomes, Running
<1>17. /\ HeldIn = InOf(Table(State, leaked)) /\ HeldOut = OutOf(Table(State, leaked))
       /\ HeldIn' = InOf(Table(r, leaked)) /\ HeldOut' = OutOf(Table(r, leaked))
  BY <1>1, <1>16, HeldIs, HeldIsNext
<1>18. CASE Quiet(t, r)
  <2> DEFINE h == Table(State, leaked)
             g == Table(t, leaked)
             l == <<f.in, out, q>>
  <2>1. ASSUME NEW i
        PROVE  Bytes(t.dev[out].fifo[q], i) = Bytes(State.dev[out].fifo[q], i) + Weight(f, i)
    <3>1. State.dev[out].fifo[q] \in Seq(Frames) /\ State.dev = dev
      BY <1>2, <1>3, TableType, StateIs
    <3> QED
      BY <3>1, <1>12, <1>13, BytesAppend
  <2>2. l \in DataLanes
    BY <1>9, <1>12
  <2>3. g[l] = h[l] + f.size /\ \A k \in DataLanes \ {l} : g[k] = h[k]
    <3>1. /\ NodeOK(State) /\ NodeOK(t) /\ leaked \in Tables /\ f \in Frames
          /\ \A i : Bytes(t.dev[out].fifo[q], i)
                     = Bytes(State.dev[out].fifo[q], i) + Weight(f, i)
          /\ \A o \in Ports, c \in Queues :
                o # out \/ c # q => t.dev[o].fifo[c] = State.dev[o].fifo[c]
      BY <2>1, <1>3, <1>12, <1>13, <1>14
    <3> QED
      BY <3>1, <2>2, LaneChange
  <2>4. h \in Tables /\ g \in Tables
    BY <1>3, <1>13, TableType
  <2>5. l[1] = in /\ l[2] = out /\ l[3] = q
    BY <1>12
  <2>6. Table(r, leaked) = g /\ mmu' = m3
    BY <1>13, <1>16, <1>18, TableSame DEF Quiet
  <2> HIDE DEF g, h, l
  <2>7. g[l] = h[l] + size
    BY <2>3, <1>12
  <2>8. /\ InOf(g) = [InOf(h) EXCEPT ![<<l[1], l[3]>>] = @ + size]
        /\ OutOf(g) = [OutOf(h) EXCEPT ![<<l[2], l[3]>>] = @ + size]
    BY <2>2, <2>3, <2>4, <2>7, <1>2, SumsChange
  <2>9. /\ HeldIn = InOf(h) /\ HeldOut = OutOf(h)
        /\ HeldIn' = InOf(g) /\ HeldOut' = OutOf(g)
    BY <2>6, <1>17 DEF h
  <2>10. /\ HeldIn' = [HeldIn EXCEPT ![<<in, q>>] = @ + size]
         /\ HeldOut' = [HeldOut EXCEPT ![<<out, q>>] = @ + size]
    BY <2>5, <2>8, <2>9
  <2>11. Mmu!Admit(in, out, q, size)
    BY <2>6, <2>10, <1>1, <1>16 DEF Mmu!Admit, m3
  <2> QED
    BY <2>11 DEF Mmu!Next
<1>19. CASE Sends(t, r, out)
  <2>1. PICK c \in Eligible(t.dev[out]) :
            /\ r.mmu = Mmu!Dequeued(t.mmu, Head(t.dev[out].fifo[c]).in, out, c,
                                    Head(t.dev[out].fifo[c]).size)
            /\ r.dev[out].fifo[c] = Tail(t.dev[out].fifo[c])
            /\ \A o \in Ports, k \in Queues :
                  o # out \/ k # c => r.dev[o].fifo[k] = t.dev[o].fifo[k]
    BY <1>19 DEF Sends
  <2>2. Eligible(dev[out]) = {}
    BY <1>1, <1>13, <1>19 DEF Sends, IInv, Serving, Running
  <2>3. c \in Queues /\ ~t.dev[out].paused[c] /\ t.dev[out].fifo[c] # <<>>
    BY DEF Eligible
  <2>4. c = q
    <3>1. SUFFICES ASSUME c # q PROVE FALSE
      OBVIOUS
    <3>2. ~dev[out].paused[c] /\ dev[out].fifo[c] # <<>>
      BY <3>1, <2>3, <1>13, <1>14, StateIs
    <3> QED
      BY <3>2, <2>2, <2>3 DEF Eligible
  <2>5. dev[out].fifo[q] = <<>>
    BY <2>2, <2>3, <2>4, <1>13 DEF Eligible
  <2>6. /\ Head(t.dev[out].fifo[q]) = f /\ Tail(t.dev[out].fifo[q]) = <<>>
    BY <2>5, <1>12, <1>13
  <2>7. mmu' = Mmu!Dequeued(m3, in, out, q, size)
    BY <2>1, <2>4, <2>6, <1>12, <1>13, <1>16
  <2>8. ASSUME NEW o \in Ports, NEW k \in Queues
        PROVE  r.dev[o].fifo[k] = State.dev[o].fifo[k]
    <3>1. CASE o = out /\ k = q
      BY <3>1, <2>1, <2>4, <2>5, <2>6, StateIs
    <3>2. CASE o # out \/ k # q
      BY <3>2, <2>1, <2>4, <1>14
    <3> QED
      BY <3>1, <3>2
  <2>9. SameData(State, r)
    BY <2>8 DEF SameData
  <2>10. Table(r, leaked) = Table(State, leaked)
    BY <2>9, TableSame
  <2>11. HeldIn' = HeldIn /\ HeldOut' = HeldOut
    BY <2>10, <1>17
  <2>12. Mmu!AdmitAndRelease(in, out, q, size)
    BY <2>7, <2>11, <1>1, <1>16 DEF Mmu!AdmitAndRelease, m3
  <2> QED
    BY <2>12 DEF Mmu!Next
<1> QED
  BY <1>15, <1>18, <1>19

\* The node holds nothing at the start.
LEMMA InitMaps == Init => Mmu!Init
<1> SUFFICES ASSUME Init PROVE Mmu!Init
  OBVIOUS
<1> DEFINE z == 0
<1>1. NodeOK(State) /\ leaked \in Tables
  BY InitHolds DEF IInv, WiresOK, Tables
<1>2. mmu = Mmu!SwitchMmuInit /\ halted = FALSE /\ leaked = [l \in DataLanes |-> 0]
  BY DEF Init
<1>3. \A p \in Ports, q \in AllQueues : dev[p].fifo[q] = <<>>
  BY DEF Init
<1>4. ASSUME NEW l \in DataLanes PROVE Table(State, leaked)[l] = z
  <2>1. dev[l[2]].fifo[l[3]] = <<>>
    BY <1>3, QueueZero DEF DataLanes, Lanes
  <2>2. Bytes(dev[l[2]].fifo[l[3]], l[1]) = 0 /\ leaked[l] = 0
    BY <2>1, <1>2, BytesEmpty
  <2> QED
    BY <2>2, StateIs DEF Table
<1> DEFINE t == Table(State, leaked)
<1> HIDE DEF t, z
<1>5. z \in Nat /\ \A n \in Nat : n * z = z
  BY DEF z
<1>6. ASSUME NEW L \in SUBSET DataLanes PROVE SumOf([l \in L |-> t[l]]) = z
  <2>1. [l \in L |-> t[l]] = [l \in L |-> z]
    BY <1>4 DEF t
  <2>2. IsFiniteSet(L)
    BY LanesFinite, FS_Subset
  <2>3. SumOf([l \in L |-> z]) = Cardinality(L) * z
    BY <2>2, <1>5, SumConstant
  <2>4. Cardinality(L) \in Nat
    BY <2>2, FS_CardinalityType
  <2> QED
    BY <2>1, <2>3, <2>4, <1>5
<1>7. \A x : InLanes(x) \in SUBSET DataLanes /\ OutLanes(x) \in SUBSET DataLanes
  BY DEF InLanes, OutLanes
<1>8. InOf(t) = [x \in PQ |-> z] /\ OutOf(t) = [x \in PQ |-> z]
  BY <1>6, <1>7 DEF InOf, OutOf
<1>9. HeldIn = [x \in PQ |-> 0] /\ HeldOut = [x \in PQ |-> 0]
  BY <1>8, HeldIs DEF t, z
<1> QED
  BY <1>2, <1>9 DEF Mmu!Init, Mmu!PQ, PQ

\* Every event of the node is a step of the MMU, or nothing to it.
LEMMA NextMaps == IInv /\ [Next]_vars => [Mmu!Next]_(Mmu!vars)
<1> SUFFICES ASSUME IInv, [Next]_vars PROVE [Mmu!Next]_(Mmu!vars)
  OBVIOUS
<1>1. CASE \E in \in Ports, out \in Ports, q \in Queues, size \in PacketSizes :
              \/ \E coin \in Coins : ReceiveData(in, out, q, size, coin)
              \/ RejectData(in, out, q, size)
  BY <1>1, ReceiveDataStep, RejectDataStep
<1>2. CASE \E in \in Ports, out \in Ports : ReceiveControl(in, out)
  BY <1>2, ReceiveControlStep
<1>3. CASE \E p \in Ports, q \in Queues :
              \/ ReceivePause(p, q)
              \/ \E coin \in Coins : ReceiveResume(p, q, coin)
  BY <1>3, QuietStep, ReceiveResumeStep
<1>4. CASE \E p \in Ports : \/ \E coin \in Coins : TransmitComplete(p, coin)
                            \/ DeliverPfc(p)
                            \/ LosePfc(p)
                            \/ TakeDown(p)
  BY <1>4, TransmitCompleteStep, QuietStep, TakeDownStep
<1>5. CASE UNCHANGED vars
  <2>1. mmu' = mmu /\ UNCHANGED <<halted, leaked>> /\ State' = State
    BY <1>5 DEF vars, State
  <2> QED
    BY <2>1, MmuStutters
<1> QED
  BY <1>1, <1>2, <1>3, <1>4, <1>5 DEF Next

-----------------------------------------------------------------------------
(* The theorem *)

\* The switch implements the MMU specification: whatever the devices do, a packet is
\* released once, by SwitchNotifyDequeue, with the port, the queue and the size that
\* SendToDev admitted it with, and what TakeDown drops is never released.
THEOREM Refinement == Spec => MmuRefinement
<1>1. Init => Mmu!Init
  BY InitMaps
<1>2. IInv /\ [Next]_vars => [Mmu!Next]_(Mmu!vars)
  BY NextMaps
<1> QED
  BY <1>1, <1>2, Invariance, PTL DEF Spec, MmuRefinement, Mmu!Spec

=============================================================================
