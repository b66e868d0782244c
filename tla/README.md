# ParaleonPlus: TLA+ models, model checks and proofs

ParaleonPlus simulates an RDMA data-centre network in ns-3 and tunes its DCQCN
and ECN parameters while the simulation runs. This directory holds TLA+ modules
for the parts of the simulator on which the losslessness and the progress of
that network rest, the TLC configurations that check them on small instances,
and proofs, checked by TLAPS, of every safety invariant for every configuration, and
that the switch implements the specification of its buffer management. They cover the
switch's buffer management and its devices, the RDMA transport, DCQCN and the DCQCN+
receiver scheduler, routing, the flow reports, the reading of the PFC trace, and the
tuner. Liveness is model-checked only.

Paths below are relative to the repository root; `model/` stands for
`src/point-to-point/model/`.

## 1. Inventory

| component | source | state | operations |
|---|---|---|---|
| Switch MMU | `model/switch-mmu.cc` | `shared_used_bytes`; per ingress (port, class): `ingress_bytes`, `hdrm_bytes`, `paused`; per egress (port, class): `egress_bytes` | admission check, charge and release at ingress and egress, pause and resume decisions, ECN decision |
| Switch node | `model/switch-node.cc` | `m_bytes[in][out][q]`, routing table, ECMP seed, sketch | `SendToDev`, `SwitchNotifyDequeue`, `CheckAndSendPfc`, `CheckAndSendResume` |
| Port device and egress queue | `model/qbb-net-device.cc`, `src/network/utils/broadcom-egress-queue.cc` | transmitter state, `m_paused[class]`, one FIFO per class, `m_rrlast`, link state | `DequeueAndTransmit`, `TransmitComplete`, `Receive`, `SendPfc`, `SwitchSend`, `TakeDown` |
| Host NIC | `model/qbb-net-device.cc` | group of QPs, `m_rrlast`, `m_nextSend` event, ACK queue | `GetNextQindex`, `DequeueAndTransmit`, `TriggerTransmit`, `UpdateNextAvail`, `TakeDown` |
| RDMA transport | `model/rdma-hw.cc`, `rdma-queue-pair.cc` | per sending QP `snd_nxt`, `snd_una`, window, slot; per receiving QP expected sequence number, NACK timer, last NACK | `AddQueuePair`, `GetNxtPacket`, `ReceiveUdp`, `ReceiverCheckSeq`, `ReceiveAck`, `RecoverQueue`, `QpComplete` |
| DCQCN rate control | `rdma-hw.cc` 530-640, 868-1051 | rate, target rate, alpha, timers, stage counters; minimum rate and steps | CNP received, alpha update, rate decrease and increase events, `ChangeParameters` at run time |
| DCQCN+ receiver scheduler | `rdma-hw.cc` 368-481 | table of congested flows, order, cursor, scan event | register, remove, scan, send CNP |
| HPCC, TIMELY, DCTCP, PINT | `rdma-hw.cc`, `pint.cc` | floating-point control state per QP | per-ACK update |
| Simulation driver | `scratch/third.cc` | flow list and counts of scheduled and active flows, table of work requests per host, links and next hops, monitor files, `pfc.txt`, parameter file | flow injection, `qp_finish`, end of the simulation (last flow, or stop time), monitors, parameter reload, routing, `TakeDownLink` |
| Tuner | `scratch/tuning.py` | current and best parameters, flow ratios, `is_tuning`, `parameter.txt`, two positions in `pfc.txt` with the links paused there | main loop, tuning thread, `write_parameters`, reading of reports and of `pfc.txt` |
| Application and driver | `src/applications/model/rdma-client.cc`, `rdma-driver.cc` | none of their own | start a QP, be told of its end |
| Launcher, traffic generators, analysis | `run.py`, `traffic_gen/`, `analysis/` | files | offline |
| ns-3 core | `src/core/` and the rest | event list | vendored |

**Interactions.** The simulator is one thread: an event runs to completion, and
a handler calls across components inside it. The arrival of one packet at a
switch can charge the MMU, send a PAUSE out of the port it came in by, enqueue
the packet, start its transmission because the egress port is idle, release it
from the MMU and send a RESUME, all before the next event. Concurrency comes from
the order of events: transmissions on different ports, PFC frames, ACKs and CNPs
under way, rate slots, rate and NACK timers, scans, flow arrivals and link
failures. The tuner is a
second process (with a thread of its own) that shares files with the simulator.

**What is hard.** Losslessness depends on the MMU charging and releasing bytes
consistently although a release does not name the tier the packet was charged
to. PFC depends on two flags in different devices staying in step through frames
that queue, are delayed and can be corrupted. Progress depends on somebody
calling `DequeueAndTransmit` at every moment something becomes sendable.
Reliability depends on a receiver-driven go-back-N without a retransmission
timer, and the NIC picks QPs from a vector it compacts in the same call. Tuning
depends on files that one process truncates while the other reads them, and on
variables that two threads share without a lock. What the tuner believes of the
network depends on files it may find in part: a report whose rows come from a
hash table without chaining, and a PFC trace whose rows arrive late. The list of
hazards, each at its line, is in `PROJECT.json`.

**What makes the components correct.**
- MMU: charges equal bytes held; pool and headroom are not exceeded; headroom is
  used only under PAUSE; a paused queue can still be resumed.
- Switch: the devices use the MMU as specified; no lost wake-up; the neighbour's
  pause flag follows the MMU's; the devices' assertions hold; a paused neighbour
  is resumed.
- Transport: nothing is acknowledged that was not received; the window bounds
  what is on the fly; the NIC's group stays consistent; flows complete.
- Tuner: one search at a time, from the set in use to the best set measured;
  the simulator runs sets that the tuner wrote.
- Rate control and DCQCN+ scheduler: table, order, cursor and scan event agree;
  every mark is answered; timers end with their QP; rates recover.
- Driver: shortest paths only, also after a failure; no QP on a dead NIC; every
  finished flow is reported; the simulation ends with the last flow, or before it at its
  stop time only.
- Monitoring: the tuner counts the flows of the whole latest report and the
  links that were paused in a window.

## 2. Modules

| module | models | used by |
|---|---|---|
| `SwitchMmu` | the MMU and the calls a node makes on it | `SwitchNode` (INSTANCE), `SwitchMmuProofs` (EXTENDS) |
| `Counting` | counting what is kept of a list, adding up a table of counters | `SwitchMmu`, `RdmaTransport`, `FlowMonitor`, `SwitchNode`, `Routing` |
| `SwitchNode` | switch node, devices, egress queues, PFC frames to the neighbours; refines `SwitchMmu` | |
| `RdmaTransport` | sending QPs, host NIC, receiving QPs, lossy channels | |
| `Dcqcn` | marks, CNPs, DCQCN+ receiver scheduler, rate control of the sending QPs | |
| `Routing` | route computation, routing tables, QPs on NICs, packets under way, `TakeDownLink` | |
| `FlowMonitor` | flow injection, table of work requests, flow report, end of the simulation; the tuner's reading of the report | |
| `PfcAccounting` | the PFC trace and the tuner's counting of paused links | |
| `ParameterTuning` | tuner main loop and tuning threads, the simulator's monitors and parameter reload, the files between them | |
| `...Proofs` | the theorems about the module of that name and their proofs (section 6); `MonitoringProofs` holds those about `FlowMonitor` and `PfcAccounting` | |
| `MC...` | constants of the small instances | the `.cfg` files |

Operators whose comment starts with "Mutation" are wrong variants of the
operator they precede. They are used nowhere in the specifications; each is
substituted for that operator (see "mutants" in `PROJECT.json`) to make sure that
the property it is listed with notices the change.

### SwitchMmu

`mmu` is the record of the counters of `switch-mmu.h`, for the classes other than
queue 0 (which the node never accounts). The handlers are operators on that
record with the names of the code: `CheckIngressAdmission`,
`UpdateIngressAdmission` (reserve, then shared pool, then headroom),
`RemoveFromIngressAdmission` (headroom first, then pool, then reserve),
`CheckShouldPause`, `CheckShouldResume`. Counters are unsigned and wrap at
`UintRange`. `GetPfcThreshold` is the shift of the free pool, written as a
division by `PfcDivisor[port]`.

The actions are the sequences of these calls in `SwitchNode::SendToDev` and
`SwitchNotifyDequeue`: `Admit`, `AdmitAndRelease` (the egress port was idle),
`Release`, and `Reject`, after which the program has exited (`halted`). `inQ` and
`outQ` are what the node holds; they are not in the code and bound what a caller
may release. `Release` takes any packet size that both queues cover, a superset of
what a node does, so that what holds here holds for every node.

### SwitchNode

`mmu` and `halted` as above; `dev[p]` is the device of port p (transmitter,
frame being transmitted, FIFO per queue, `m_paused`, `m_rrlast`, link state);
`m_bytes` the node's counter; `wire[p]` the PFC frames on the link and `peer` the
neighbour's `m_paused`; `failed` the assertion that has failed; `leaked` and
`lostPfc` are histories: bytes dropped by `TakeDown`, and whether a PFC frame has
been lost. One action is one simulator event:

| action | code |
|---|---|
| `ReceiveData`, `RejectData`, `ReceiveControl` | `SendToDev`, then `SwitchSend` and `DequeueAndTransmit` |
| `TransmitComplete` | `TransmitComplete`, then `DequeueAndTransmit` |
| `ReceivePause`, `ReceiveResume` | `Receive` of a PFC frame, `Resume` |
| `DeliverPfc`, `LosePfc` | the neighbour's `Receive`, its error model |
| `TakeDown` | `TakeDown` at both ends of a link; a neighbour that is a switch forgets its `m_paused`, a host keeps it, and either may happen |

Routing is a set of pairs of ports, `DataRoutes`. Those among them that only the tables
computed after `LINK_DOWN` give are `Detours`, and packets take them once some port is
down. A detour may be `<<p, p>>`: the table of a switch that has lost its link may send a
packet back out of the port it came in by (`GetOutDev` does not look at the ingress port).
The dequeue of such a packet releases it, and if that makes the switch send a RESUME,
`SendPfc` uses the transmitter that is about to take the packet: the assertion "Must be
READY to transmit" fails (`failed = "ready"`, which `switch_node` reaches).
`ReadyUnlessHairpin` states that this is the only way for it to fail. The drop of a full
`BEgressQueue` is left out, since its limit is far above what the MMU admits, and
so are INT and PINT headers, the sketch and byte counters for monitoring. The
random draw of `ShouldSendCN` is the parameter `coin`.

`MmuRefinement` is the statement that `SwitchNode` implements `SwitchMmu` under the
mapping `inQ <- HeldIn`, `outQ <- HeldOut` (bytes in the FIFOs, plus those that
`TakeDown` dropped and the MMU still charges).

### RdmaTransport

`qp[f]` is the sending QP (`nxt`, `una`; `avail` says that `m_nextAvail` has come),
`nic` the group of QPs, `m_rrlast`, the packet being transmitted, paused classes
and the pending send event; `rx[f]` the receiving QP; `data` and `acks` the
channels. `nic.fault` says that `m_qps` was read beyond its end, which is
undefined, and the model stops there. `taken` is a history: the bytes that have
reached the receiver without a gap.

`nic.nextSend` is the set of QPs over whose slots the minimum was taken when the
send event was scheduled: the event fires when the first of these slots comes,
which is the time the code scheduled it for, whichever order the slots come in.
The rate decides only how far away a slot is, so slots come in any order; a slot
of a QP that has just sent always lies in the future.

`Cleared` is the compaction at the end of `GetNextQindex`, including its treatment
of a picked QP that is removed. The receive path keeps the code's decision to set
`m_milestone_rx` to the ack interval before each comparison. `qp_finish` of
`scratch/third.cc` deletes the receiving QP in the same event as `QpComplete`, and
so does `ReceiveAck`.

Left out: ECN echo, CNP and rate (only slots remain here; see `Dcqcn`), INT headers, the
variable window (`m_var_win`), and the high-priority ACK queue of the receiving
host, which is a part of the reply channel. Each flow has FIFO channels: all
packets of a flow take one ECMP path and one class. Flows are smaller than
2^32 bytes (`TransportAssumption`); sequence numbers still wrap at `SeqRange`.

### Dcqcn

`plus` chooses between DCQCN and DCQCN+ at the start. `rcv` is the receiver's part:
`table[f]` (present, `ecnPending`, time since `lastCnpTime`), `order`, `cursor`, and
`scan`, the scan event (off, armed, or due now). `back[f]` holds the ACKs and CNPs
under way to the sender, in order; `qp[f]` is the sender's rate, target rate, stage,
`m_first_cnp`, `m_decrease_cnp_arrived`, and the set of timers that are armed.
`sent[f]` says whether the last packet has arrived and how many late duplicates.
`par` is the minimum rate and the two steps of the increase that are in force.

| action | code |
|---|---|
| `ReceiveUdp`, `ReceiveLateUdp` | `ReceiveUdp` with `TrackDcqcnPlusReceiverEcn`, for new data and for a duplicate after the last packet |
| `Tick`, `RunDcqcnPlusReceiverScheduler` | passing of a scan interval, the scan event |
| `ReceiveAck` | `ReceiveAck`, `QpComplete`, `qp_finish` and `DeleteRxQp`, and only then the CNP flag of the same ACK |
| `ReceiveCnp` | `ReceiveCnp` |
| `CheckRateDecreaseMlx`, `RateIncEventTimerMlx` | the timers |
| `ChangeParameters` | `parameter_tuning` of `third.cc` and `RdmaHw::ChangeParameters`: another member of `ParameterSets`, at any time |

`alpha` is left out: its value only decides by how much a cut reduces the rate, and
a cut may here end anywhere from half the rate to the rate itself, lifted to `m_minRate`.
The first CNP may leave any rate up to the present one, whatever `RATE_ON_FIRST_CNP` is,
and is not lifted. `ChangeParameters` does not touch the rates of the QPs: after a raise of
`m_minRate` a rate stays below it until the next cut, which lifts it, possibly above its
target. `TypeOK` says that nothing else puts a rate above its target. Of the three increase phases the step of the target remains.

The ACK that completes a QP may carry its first CNP. With DCQCN, `ReceiveAck` then
arms alpha and decrease timers after `QpComplete` cancelled all timers, and they
rearm themselves until the simulation ends. `TimersEndWithQp` states that this is the
only case.

### Routing

`up` are the links that are up, `tables[n][h]` the next hops of node n towards host
h, `nic[p]` the NIC that carries the QP of a pair of hosts, `packet` one packet under
way, `failed` the assertion of `GetNicIdxOfQp`. Init takes every subset of `AllLinks` as
the topology. `CalculateRoute` is the breadth-first search with its queue, written as
a recursive function over the rounds of the loop. `RoutesAreShortest` compares its
result with `Distance`, which quantifies over paths and knows nothing of a queue.
Hashes (`EcmpHash`, `dport % size`) are a choice of any next hop. Delays, bandwidths
and the resulting window sizes are left out.

`TakeDownLink` is one event, as in the code: tables are recomputed and replaced, both
devices drop what they hold, and every host redistributes its QPs.

### FlowMonitor

`idx`, `active`, `stopped` and the state of each flow are the driver's side of a run;
`stopped` tells the two ends of a simulation apart, `"finished"` (the stop that
`MaybeStopWhenAllFlowsFinish` asks for) and `"time"` (`StopTime`, the
`Simulator::Stop(Seconds(simulator_stop_time))` of `third.cc` 1407, which may come at any
moment, with flows open and a report being written);
`table` is the table of work requests, one entry per slot that some flow hashes to;
`out` is the report being written, `file` what can be read of it; `tuner` the hash and
the flows that were counted as large and as small. `final` and `lost` are histories:
how often a report showed the flow finished, and which finished flows were evicted
before one did.

A report is opened (and truncated) in the event that builds it, appears in pieces
(`FlushReport`, which may end within a number of a row) and is whole when it is
closed; no other event of the simulator runs in between. The tuner hashes and reads
at any time, in two steps. The order of `m_qpMap`, an `unordered_map`, is any order.

### PfcAccounting

`rows` is what `get_pfc` has written, `visible` and `cut` what of it can be read. Each
`reader` (the cycle summary of the main loop, and the search) keeps its line and the
links paused there. `Read` is `pfc_handling_with_state` with the rows before the
window, within it and after it. A row that is cut within `pfc_type` is of no known
type to the reader; a row that lacks a column is dropped and read again. The windows
are those of the callers: an interval before a report (reports can be skipped, and
one can be read twice), the interval before a search, and rounds that follow each
other.

### ParameterTuning

The simulator is `sim` (time in monitor intervals, next step of the interval), the
sets in force at hosts and switches (`hosts`, `ecn`), and the files it rewrites:
`rtt`, `rate` (`switch_portrate.tr`) and `report`. The tuner is `main` (program counter,
last hash, time of the observation, trigger), `isTuning`, the two flow ratios, and
`th[t]`, the local variables of a tuning thread. `file` is what `parameter.txt` holds
and `written` the history of all sets written.

| action | code |
|---|---|
| `MonitorBuffer`, `MonitorHostFlowReport` | `monitor_buffer_new`, `monitor_host_flow_report` |
| `ReloadParameters` | `parameter_tuning`, `RdmaHw::ChangeParameters`, `SwitchNode::ChangeECNthreshold` |
| `InitialWrite`, `Poll`, `LoadObservation`, `WaitForMonitorSnapshots` | main program of `tuning.py`, up to `collect_monitor_cycle_summary` |
| `SetFlag`, `StartThread`, `KeepAndReset` | the rest of an iteration |
| `Begin` | `start_tuning` |
| `Baseline`, `WriteCandidate`, `WaitForSnapshot`, `Evaluate` | `aggressive_tuning` and `conservative_tuning`, which differ in weights and directions only |
| `CheckRatio`, `UseRatio` | `get_new_solution_direction` within `generate_new_parameters` |
| `ClearFlag` | the end of `start_tuning` |

What is abstracted:

- A parameter set is an identity: 1 is the set of defaults, a new candidate has the
  number of the write that first stores it. Limits, steps and the order of `kmin`
  and `kmax` do not matter to the protocol. The built-in thresholds of
  `ChangeECNthreshold` (400, 1600, 0.2) are the defaults of `tuning.py`.
- Opening a file for writing truncates it, and its content appears when it is
  closed, because a parameter set, a snapshot and a report fit one buffer. Opening
  and closing are separate steps; the other process may run in between.
- Time counts monitor intervals. A tuning interval is 1.002 ms and a monitor
  interval 1 ms, so that a reload follows the monitors of its interval and
  "after the end of the round" means a later snapshot.
- Threads interleave between the statements that touch shared variables; within
  one of them Python's interpreter lock makes the step atomic.
- `get_new_solution_direction` is called once per parameter; one call with the
  worst interleaving stands for all of them.
- A utility is any member of `Utilities`: what a measurement yields depends on the
  network and on whether the files were complete when they were read.
- The scheme is `paraleon_plus` and `PARALEON_COLLECT_ONLY` is off. The sketch path
  is left out. How a report gets its counts is `FlowMonitor`; the bookkeeping of
  `pfc.txt`, which feeds a utility, is `PfcAccounting`.

`th[t].pc = "dead"` is a thread that an exception has ended: the counts it checked
were reset before it divided by their sum. The flag then stays set, and the tuner
never searches again. The model reaches this state; no property denies it.

## 3. Runs

| run | checks | shows |
|---|---|---|
| `switch_mmu` | accounting and pause invariants | two unlike ports, one class, packets of one and two bytes: all tiers are reached, queues share the pool and move each other's thresholds |
| `switch_node` | device invariants, `MmuRefinement` | two data classes one way, a control packet the other, PAUSE from downstream at any time, an upstream neighbour that keeps sending until the headroom is full, corrupted PFC frames, and a link that goes down with packets in its queues, after which packets may also be sent back the way they came |
| `switch_node_live` | `EventuallyResumed` | once downstream stops pausing, every paused neighbour is resumed; with ECN marking |
| `rdma_transport` | `OnTheFlyBounded`, `AllComplete` | without loss, flows under window, rate slots and PFC all complete |
| `rdma_transport_lossy` | reliability and NIC invariants | two losses at any place; uneven packets and window |
| `rdma_transport_window` (violation) | `OnTheFlyBounded` | a second NACK for one gap lets `snd_una` pass `snd_nxt`; the unsigned difference wraps and the QP is blocked |
| `dcqcn` | `TypeOK`, scheduler and timer invariants, `MarksAnswered`, `RateRecovers` | two flows into one receiver with DCQCN+; one flow with either, with cuts of every depth and increases of every phase while the tuner changes minimum rate and steps; marks at any time, completion racing scans, CNPs and timers |
| `routing` | `RoutesAreShortest`, `QpsOnLiveNics`, `PacketsReachDst`, `NoPacketCircles` | all 128 topologies over seven links between two hosts with two NICs each and three switches, and every single failure at every moment |
| `flow_monitor` | report and table invariants, `EndedByFlows`, `StopsWhenAllFlowsFinish` | two flows of one slot and a later third one, reports and completions in any order, reports read in part, a stop time that may come at any moment |
| `pfc_accounting` | `CarriedIsReplay`, `CountIsExact` | pauses and resumes of two links, late and cut rows, windows that follow, overlap and leave gaps |
| `parameter_tuning` | tuner invariants | two observations that trigger, searches of two rounds, and every interleaving of simulator, main loop and threads over five intervals |
| `parameter_tuning_torn` (violation) | `OneSetInForce` | a reload of a truncated `parameter.txt` leaves the hosts alone and resets the switches |

The violation runs are findings in `PROJECT.json`, each with the line of the
repository that says otherwise. `OnTheFlyBounded` is also checked where it holds
(without loss), so that the runs show the condition under which the code is right.

Deadlock is not checked: a simulation ends when no event is left, and the model
also stops after `exit(-1)`, a failed assertion or a fault.

### Observations without a run

The properties above are stated so that they hold; what follows is where they would
not, each reproducible by changing one constant or dropping one condition.

- *Two lossless classes exceed the buffer.* `ConfigNPort` sets headroom and reserve
  aside once per port, the admission grants them per port and class. With
  `Queues = {3, 4}`, `OccupancyWithinBuffer` fails.
- *A lost PAUSE makes the next RESUME fail an assertion* ("Must be PAUSEd",
  `qbb-net-device.cc` 342), and a lost RESUME pauses the neighbour for good:
  `NeighbourAgrees` without its condition on `lostPfc`. `ERROR_RATE_PER_LINK` applies to
  PFC frames as it does to data; `run.py` sets it to 0.
- *Without a window* (`HAS_WIN 0`, `Win` of 0 in `RdmaTransport`) a QP that is finished
  but was rewound can be picked and removed in the same call, and the group is read
  beyond its end: `PickInRange` fails.
- *A packet sent back where it came from fails an assertion.* After `LINK_DOWN`, the RESUME that
  its own dequeue sends takes the transmitter before it ("Must be READY to transmit",
  `qbb-net-device.cc` 447): `ReadyUnlessHairpin` without its condition. `switch_node` reaches
  this state.
- *A QP whose slot has come may wait on an idle NIC* for a later send event of
  another QP (`qbb-net-device.cc` 282-294).
- *`m_bytes` of queue 0* is incremented for each control packet and never decremented
  (`switch-node.cc` 234); nothing reads it.
- *A thread that finds both counts zero dies of a division* and leaves `is_tuning`
  set; `parameter_tuning` reaches this state.
- *Gaps between PFC windows.* Each window starts from the links that were paused where
  the reader stopped. A link that was resumed in the gap since then is counted in a
  window in which it was never paused, and one that was paused in the gap and stays so
  without another frame is not counted: `CountIsExact` needs `exact`. The key of a link
  lacks the class, so that two lossless classes of one link would mix.
- *A cut row of `pfc.txt`* is never read again: the link keeps the wrong state until its
  next frame (`misread`).
- *Flows that share a slot hide each other* in the report, and a finished one can be
  evicted before a report shows it (`lost`).
- *The last flow's final report is never written* if its completion stops the
  simulation before the next report is due.
- *A raised minimum rate* (`rpg_min_rate` is tuned) is not applied to a QP before its next
  cut, and that cut can then raise the rate: `TypeOK` of `Dcqcn`.
- `run.py` asks for `scratch/acc_controller.py`, which is not in the repository.

## 4. Bounds

- **Buffers.** `BufferSize`, `Reserve`, `Headroom` are a few bytes. What the MMU
  distinguishes is whether a packet fits reserve, threshold and headroom, and
  whether it straddles a boundary; sizes 1 and 2 against a reserve of 1 and
  thresholds that move with the other port give all of these, and the divisors
  differ between the ports. The two-class instance `switch_node` has no reserve and a
  buffer of 4, which is enough for pool and headroom of both ports to fill up.
  The proofs (section 6) remove these bounds.
- **UintRange = 64** is above every legal sum and small enough that a wrapped
  counter is seen as one.
- **MaxPfc** stops data of a class while that many PFC frames for it have not been
  delivered. Otherwise a stream of packets that pause and resume could queue
  PFC frames without bound on a slow link.
- **MaxControl** bounds the bytes of control packets per route: `m_bytes` of
  queue 0 never shrinks.
- **Flows**: two flows, the least with which the round robin, compaction and
  send event interact; up to three packets, so that a gap has packets on both
  sides.
- **MaxLoss = 2** loses a packet and its retransmission, or data and a reply.
  Duplicated NACKs arise from the NACK timer, not from a bound.
- **MaxPause** bounds PAUSE frames to the host.
- **CounterRange = 64** stands for 2^64 and **SeqRange = 32** for 2^32.
- **`Dcqcn`**: two entries are the least with which the cursor can be before, at or
  behind a removed one. Flows meet in the table of the receiver only, which knows nothing
  of rates; so two flows share it whose senders ignore CNPs (class 1), and a third one,
  alone, varies its rate (`MCStarted`). Rates are 1 to 6 and three parameter sets have
  minimum rates of 1, 2 and 4, so that a rate can be below the minimum and a cut can lift
  it above the target.
  `MaxBack = 1` holds back data while a reply is under way (CNPs of a scan come on top);
  `MaxLate = 1` duplicate recreates an entry after its deletion. The threshold of stages
  is 1 and the target is not clamped, as in `run.py`.
- **`Routing`**: three switches give paths of different length, equal-cost paths and
  cycles; one failure, since the code schedules at most one.
- **`FlowMonitor`**: sizes 2, 1, 1, a chunk of 2 and a threshold of 2, so that a small
  flow would be taken for large without the cap; three reports are one that shows a
  flow finished, one that clears it, and one more.
- **`PfcAccounting`**: `MaxRows = 3` pauses, resumes and pauses a link again, or mixes two;
  `MaxReads = 3` and `MaxTime = 5` allow two windows in a row and one after a gap. Links
  are interchangeable and their permutations a symmetry.
- **Threads** are slots: two are enough to see two searches at once.
- **Rounds = 2** measures the defaults and one new candidate after the baseline, so
  that the set accepted last, the best and the last one written can all differ.
- **MaxTime = 5** leaves room for a first search, its end and a second trigger.
- **Utilities = {0, 1}** gives better, equal and worse.

Thread slots are interchangeable, and their permutations are a symmetry of
`ParameterTuning`, whose runs check no liveness; so are the links of `PfcAccounting`.
No symmetry is used elsewhere: ports, nodes and flows are compared and ordered.

## 5. Fairness

The event list of ns-3 runs every scheduled event. `SwitchNode!Fairness` is weak
fairness of the end of a transmission and of the delivery of a frame per port,
each of which is one scheduled event. `RdmaTransport!Fairness` is weak fairness of
`Scheduled`, the disjunction of the events that are on the list (start of a flow,
end of a transmission, slot, arrival of data or reply) and the RESUME of a paused
class: that a switch resumes it is `EventuallyResumed`. Nothing is assumed of
losses, of new PAUSE frames or of the NACK timer, which is not an event but a
time the receiver compares with. Weak fairness of the disjunction is enough
because without loss each of these events can happen only finitely often.

`Dcqcn!Fairness` is weak fairness of the scan event and of the passing of time that
makes it due, of each flow's reply channel and of each timer; data may stop coming
at any moment, and parameters need not change. In `Routing` a packet that is sent arrives at the other end of its
link. In `FlowMonitor` flows are read and started at their times, each open QP makes
progress (that is `AllComplete` of `RdmaTransport`), a report that is begun is closed,
and the tuner runs; reports themselves need no fairness, and nothing is assumed of the
stop time. The liveness properties of the other modules are about a simulation whose stop
time has not come.

`EventuallyResumed` assumes in addition that downstream neighbours eventually
stop pausing, and that a neighbour obeys its own `m_paused` (`PeersObey`).

## 6. Proofs

Every theorem below is for all values of the constants that the named assumptions
of its module allow; TLC evaluates these assumptions in the runs. A component's
invariants are proved together, as one inductive invariant (`Inv` or `IInv`, theorem
`Invariance`), because none of them is inductive alone; each inductive invariant was
model-checked on the instance of its run before it was proved. Next to it stand one
lemma per operator of the model (what a handler does to a state that satisfies the
invariant) and one lemma or step per action.

### Switch MMU (`SwitchMmuProofs`)

| theorem | statement |
|---|---|
| `TypeCorrect` | counters stay in the unsigned range |
| `IngressConservation` | `ingress_bytes + hdrm_bytes` is what the node holds, per queue |
| `EgressConservation` | `egress_bytes` is the length of the egress queue |
| `HeadroomSafe` | headroom is used only while paused, and never beyond its size |
| `PausedQueueHoldsBytes` | a paused queue holds bytes |
| `SharedAccounting` | `shared_used_bytes` is the sum of all use above reserves, at most the pool |
| `ClassFitsBuffer` | what the switch holds of one class fits `buffer_size` |
| `BufferHolds` | if there is one class, everything the switch holds fits `buffer_size` |

*Assumptions.* `PortsAssumption`: finitely many ports and classes.
`SizesAssumption`: parameters are natural numbers, packets are not empty, divisors
are positive. `WidthAssumption`: headroom and reserve leave a pool (otherwise the
subtraction of the configuration itself wraps), and a full queue plus one packet
fits a counter.

*Argument.* `SharedExact` alone is not inductive: a release subtracts
`min(psize - fromHdrm, sharedUsed)`, and this is the change of the sum only if the
queue's own counters hold at least the bytes released. That is
`IngressConserved`, which in turn needs the additions not to wrap, hence
`HeadroomBound` and a bound on `ingress`, hence `PoolBound`, because the threshold is
computed by an unsigned subtraction; and `PoolBound` rests on `SharedExact`. So they
are proved together: `Inv` is `Accounted` (types, `shared` within the pool and equal
to the sum, per-queue conservation and bounds) and `PausedWell` (headroom implies
paused, paused implies bytes held).

The sum over queues is `SumOf`, a cardinality with one unit for each byte.
`SumUpdate` (`CountingProofs`) says that changing one value changes the sum by the
difference, from which `UpdateIngressAccounted` and `RemoveIngressAccounted` follow;
`EnqueuedGood` and `DequeuedGood` add the pause and resume decisions, and `NextInv`
puts one step per action on top. That the last release of a paused queue resumes it
uses the disjunct `shared_used == 0` of `CheckShouldResume`.

No check bounds `egress_bytes`. It does not wrap because the switch holds no more of a
class than the buffer (`ClassBound`: reserves and headroom of all ports and the pool
add up to `buffer_size`), and what it holds of a class is the same whether it is
counted by ingress or by egress port (`Through`, a second invariant on top of `Inv`).
With more than one class `BufferHolds` is false (section 3).

### Switch node (`SwitchNodeProofs`)

| theorem | statement |
|---|---|
| `TypeCorrect` | devices, FIFOs and wires hold what belongs there; a transmitter is busy iff it holds a frame |
| `NoLostWakeUp` | a device that is up and READY has nothing it may send (`WorkConserving`) |
| `TransmitterReady` | `TransmitStart` finds the transmitter READY, unless the packet it takes came in by the same port and its release has put a RESUME there (`ReadyUnlessHairpin`) |
| `NeighboursInStep` | as long as no PFC frame is lost, the frames under way lead from the neighbour's `m_paused` to the MMU's flag, and every RESUME finds the class paused |
| `Refinement` | the switch implements `SwitchMmu` (`MmuRefinement`): each event is `Admit`, `AdmitAndRelease`, `Release`, `Reject`, or does not concern the MMU |

Nothing is assumed of the routes. *Argument.* One event makes up to four nested
calls into devices: a packet is enqueued, its transmission starts, the dequeue
notification releases it, and the RESUME this may trigger is enqueued at the
ingress port and starts to be transmitted there. The lemmas follow this nesting from
the inside: `SendPfc` at a port whose device serves its queues leaves it serving, and
puts exactly one frame behind those under way; a notification touches only the ingress
port; so the device that is about to transmit is untouched by it if the packet came in by
another port. If it came in by the same one, either no RESUME is due and the device is
untouched as well, or `SendPfc` finds that device READY and leaves the RESUME in its
transmitter (`SentBy`): the assertion fails with `Hairpin`, and the model stops in a
state that satisfies the rest of the invariant (`Ends`). `InStep` is
stated with `Leads`, the existence of a sequence of views through the frames in the
transmitter, in FIFO 0 and on the wire.

`Refinement` uses the same invariant. `HeldIn` and `HeldOut` are sums of one table, the
bytes per lane (ingress port, egress port, class) in the FIFOs and dropped by
`TakeDown`. A FIFO's bytes change by the packet appended or taken (`BytesAppend`,
`BytesTail`: the latter renumbers the rest of the queue, `SumReorder`), so one entry of the
table changes, and with it one entry of each sum (`LaneChange`, `SumsChange`). A dequeue
is then a `Release` with the values of the packet's own admission, because the head
of a FIFO carries them (`SendsReleases`), or leaves all data queues alone. The event in
which an arriving packet is sent at once maps to one step, `AdmitAndRelease`: a
device that is READY had nothing it may send (`Serving`), so the packet that
leaves is the one that came. `TakeDown` moves bytes from a FIFO to `leaked` and stutters.
The theorems of `SwitchMmuProofs` hold of `Mmu!Spec`, hence, where the assumptions of
both modules hold, of the packets in the devices' queues.

### RDMA transport (`RdmaTransportProofs`)

| theorem | statement |
|---|---|
| `TypeCorrect` | types of QPs, NIC, channels and receivers |
| `Reliability` | nothing is acknowledged that was not received, whatever is lost |
| `PickIsInRange` | `GetNextQindex` picks a QP of the group, without loss or if every flow has a window |
| `WindowIsKept` | until something is lost, less than a packet more than the window is on the fly |
| `NothingSentTwice` | until something is lost, the receiver asks for nothing again |
| `NothingLeftBehind` | until something is lost, no packet of a completed flow is under way |

*Argument.* Under loss the invariant bounds each sequence number by the next one down
the chain: `una`, replies and `expected` by the bytes `taken`, packets and `nxt` by the size.
Without loss it says more: packets in transmission and under way are the bytes from
`taken` to `nxt` in order, each once (`Line`). The group is compacted in the call that
picks; `Rank` and `Nth` (`Counting`) give the new place of a QP that stays, and the pick
stays because a QP that may send is not finished. Under loss this last step fails
for a QP without window, as section 3 says; with one, a QP with `snd_nxt < snd_una` is
blocked by the wrapped difference. The conditions of the theorems are those of the
runs: `OnTheFlyBounded` is violated after a loss (`rdma_transport_window`).

### Routing (`RoutingProofs`)

| theorem | statement |
|---|---|
| `ShortestPaths` | the tables hold exactly the next hops on shortest paths through switches, over the links that are up |
| `LiveNics` | open QPs are on NICs that are up and lead to their destination; "at least one NIC is alive" fails only when a pair of hosts is cut off |
| `PacketsArrive` | a packet uses links that are up, ends at its destination only, and is dropped only after a failure on its way |
| `RoutingInvariant` | the inductive invariant they rest on |

*Assumption.* `RoutingAssumption`: finitely many nodes with numbers, hosts are not
switches, a link joins two of them. Nothing is assumed of the topology, which need
not be connected; parallel links are one.

*Argument.* The state invariant `RoutingInv` says that the tables are what
`CalculateRoutes` computes for the present links (`Routed`), that a QP's NIC is an entry
of its host's table (`NicsOk`), and that a packet is on a link that is up and, unless a
link has gone down since, on its way to a node that has an entry for it (`PacketOk`).
The weight is in what the search computes. Its loop invariant `Explored` says of the
state after i rounds that the queue holds the host and the labelled switches, each once
and by label, the labels at most one above that of the node being expanded (`QueueOk`,
`Ordered`); that each label has a predecessor one closer (`Reached`); that the neighbours
of what was expanded have labels at most one higher (`Covered`); and that the next hops
are those neighbours that were expanded and are one closer (`HopsOk`). The queue has no
node twice, so there are at most as many rounds as nodes (`QueueBound`), and what is left
at the end is `Labelled`. From that, `ChainBound` shows that no path is shorter than a
label, and `DescentExists` that a path of that length exists; so labels are the distances
of the property (`LabelIsDistance`), and `RoutesAre` compares the tables with them.

### PFC trace (`MonitoringProofs`)

| theorem | statement |
|---|---|
| `LinksCarried` | the links a reader carries are those paused at its line, but for links whose last row it read cut (`CarriedIsReplay`) |
| `WindowsExact` | in a window that follows the one before, both read in full, exactly the links paused in it are counted (`CountIsExact`) |
| `PfcInvariant` | the inductive invariant they rest on |

*Assumption.* `PfcAssumption`: intervals are positive, bounds are natural numbers.

*Argument.* `CarriedIsReplay` is not inductive: it does not say where a reader stands.
`PfcInv` adds that rows are in the order of their times (`TraceOk`) and, for each reader,
that its line is among the visible rows and not beyond its latest window, that the rows
counted in `upto` are those up to the window's end, also when rows with that same time
are still to come, and that after a window that was read in full and was the latest one
the line is `upto` (`Placed`). Of the loop over the rows, `ReplayIs` says that the last row
of a link decides, or, if there is none, the state before; `PausedByLast` and `PausedKept` say
the same of the property's side. A read is then followed by three lemmas, one per
conjunct (`ReadPlaces`, `ReadCarries`, `ReadCounts`); all other steps extend the trace, and
the past of the trace does not change (`ReaderStays`). That a link which a row of the
window finds paused is counted without being in the claimed set cannot happen, because
it was paused before the window or by a row of it (`ReplayFrom`).

### DCQCN (`DcqcnProofs`), flow reports (`MonitoringProofs`), tuner (`ParameterTuningProofs`)

| theorem | statement |
|---|---|
| `DcqcnProofs!TypeCorrect` | rates and targets are positive and at most the link rate; a rate is above its target only up to a minimum rate, however parameters change |
| `SchedulerIsConsistent` | order and table hold the same QPs, each once; the cursor is among them; a scan is scheduled iff there are any |
| `TimersEnd` | timers of a completed QP are off, unless the CNP in its last ACK armed them |
| `MonitoringProofs!TypeCorrect` | types of flows, table, report and tuner |
| `ReportsAreCurrent` | a report under way has a row for each slot with an open QP, as of now, and full sizes for finished ones |
| `FinishedOnce` | a finished flow is reported as such once, unless another flow took its entry |
| `LatestIsCounted` | a tuner that finds nothing new has classified all of the report |
| `EndsWithTheFlows` | the simulation has ended by itself exactly when every flow has finished; otherwise it runs or was ended by its stop time (`EndedByFlows`) |
| `ParameterTuningProofs!TypeCorrect` | types of simulator, files, main loop and threads (no run checks it separately) |
| `HonestFlag` | `is_tuning` is set exactly while a search is about to start, runs or has died |
| `SingleTuner` | there are never two searches at once |
| `BestInPlace` | a search that has ended has left its best set in `parameter.txt` |

*Dcqcn.* Rates are bounded per QP (`RatesIn`), by the minimum rates of all sets and not only
the one in force, since a set that lifted a rate may be gone (`Lifted`). The timers need what is in the reply channel: no acknowledgement follows the
last one, and with DCQCN+ none carries a CNP (`InOrder`, `Complete`). A removal shifts
the cursor; the lemma about it distinguishes entries before, at and behind it.

*FlowMonitor.* A flow is shown finished once because the value last reported of an
entry equals its size exactly if the final row was written (`EntryOK`), and an open QP
has always acknowledged less than its size (`Progress`). `EndsWithTheFlows` needs
`active_flow_count` to be the number of flows installed or open, and idx to separate
those that wait. That the tuner has counted the whole report although it hashes and
reads the file in two steps rests on file contents never coming back (`HashOK`).

*ParameterTuning.* A trigger is computed from a cleared flag and used some steps later;
it is still valid then because only the main loop sets the flag (`Handover`). The
best set is one of those measured and none of them was better (`BestIn`); the last
round writes it, and no other writer is left that could overwrite it.

### Lemmas about counting (`CountingProofs`)

`Rank` and `Nth` are inverse bijections between a set of positions and `1 .. n`; `SumOf` of a
changed, constant, larger, extended, reordered or added function, and of a table with one
column. `RunExists` says that a loop of n steps over a given step function has a run, which
gives the recursive functions of `Routing` and `PfcAccounting` their values.
Induction is by a least counterexample (`LeastElement`, from the well-foundedness of
`<`): the induction theorems of the library take a predicate as parameter, which the
installed provers cannot instantiate.

## 7. Model-checked only

- Liveness under fairness is outside the proof system used here: `EventuallyResumed`,
  `AllComplete`, `MarksAnswered`, `RateRecovers`, `NoPacketCircles` and
  `StopsWhenAllFlowsFinish`.
- The two violations (section 3) are counterexamples.

## 8. Plan

All invariants that the runs check are proved. What could be added:

1. The two hazards without a property: what a round of the tuner measures when the
   reload comes late (`tuning.py` 1347), and the counts that both threads touch (1107),
   which need a specification of what the tuner should do that the repository does not
   give.
2. The liveness properties by hand, from the measures that the invariants give.

A composition of a host's transport with a switch (`RdmaTransport` with its PAUSE and
RESUME driven by `SwitchNode`) was considered: the two meet only in `m_paused`, on
which each module already allows every behaviour of the other.

## 9. Not modelled

- HPCC, TIMELY, DCTCP and PINT: floating-point control laws of one QP, without shared
  state; their effect on the transport is the time of the next slot.
- The elastic sketch: its accuracy is statistical, and so is that of the flow
  classification built on it in `tuning.py` (the schemes other than `paraleon_plus`).
- The monitor for the `acc` scheme: its controller is not in the repository.
- Packet headers: messages are records.
- ECMP hashing: any next hop may be taken. Parsing of configuration and topology.
- Logs and metric files that nothing reads back.
- The launcher: one thread that writes a configuration, starts two processes and waits
  for one of them. Two launchers at once may pick the same run number (`run.py` 203-219),
  which is outside of one run.
- Traffic generation and analysis: offline.
- ns-3 itself, which with its generated bindings makes up most of the lines of the
  repository: only the run-to-completion of events is used.
