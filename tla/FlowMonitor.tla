----------------------------- MODULE FlowMonitor -----------------------------
(***************************************************************************)
(* The flows of a run and what the tuner knows of them (paraleon_plus).    *)
(*                                                                         *)
(* scratch/third.cc reads flows from a file and starts their queue pairs,  *)
(* keeps a hash table of work requests per host, rewrites                  *)
(* host_flow_report.tr from it on a timer and stops when all flows have    *)
(* finished, or when its stop time comes first.  scratch/tuning.py polls   *)
(* the report, and counts large and small flows.                           *)
(*                                                                         *)
(* The table has no chaining: a flow takes the slot of its hash, whoever   *)
(* is in it.  The report is written through a stream buffer, so that the   *)
(* tuner may find a part of it, the last row cut short.  The numbers of    *)
(* evicted and cleared entries, which nothing reads, are left out.         *)
(***************************************************************************)
EXTENDS Integers, Sequences, FiniteSets, SequencesExt, Counting

CONSTANTS
    FlowNum,      \* flow_num
    Size,         \* m_size of each flow
    Start,        \* start_time of each flow, in the order of the file
    Slot,         \* host and slot of get_host_wr_slot for each flow
    Chunk,        \* HOST_FLOW_CHUNK_BYTES
    Threshold,    \* large_flow_threshold_bytes
    MaxReports    \* bound: reports until qlen_mon_end

Flows == 1 .. FlowNum
Slots == {Slot[f] : f \in Flows}

ASSUME FlowAssumption ==
    /\ FlowNum \in Nat \ {0} /\ {Chunk, Threshold, MaxReports} \subseteq Nat \ {0}
    /\ Size \in [Flows -> Nat \ {0}] /\ Slot \in [Flows -> Nat]
    /\ Start \in [Flows -> Nat] /\ \A f, g \in Flows : f < g => Start[f] <= Start[g]

VARIABLES
    idx,       \* flow_input.idx and scheduled_flow_count
    active,    \* active_flow_count
    qp,        \* each flow: "waiting", "installed", "open" (in m_qpMap) or "done"
    una,       \* snd_una of each queue pair
    table,     \* host_wr_tables
    reports,   \* reports begun
    out,       \* the report being written: all of its rows
    file,      \* host_flow_report.tr as it can be read
    stopped,   \* Simulator::Stop: "no", "finished" (no flow is left) or "time"
    tuner,     \* main loop: hash, and the flows of previous_flow_ratio by class
    final,     \* history: reports that showed the flow finished
    lost       \* history: finished flows evicted before a report showed them

simVars == <<idx, active, qp, una, table, stopped, lost>>
vars == <<simVars, reports, out, file, tuner, final>>

NeverReported == -1    \* numeric_limits<uint64_t>::max()
NoEntry == [flow |-> 0, completed |-> 0, size |-> 0, reported |-> NeverReported,
            finished |-> FALSE]
NotWriting == [time |-> 0, rows |-> <<>>]
NoFile == [time |-> 0, rows |-> <<>>, whole |-> FALSE]

Init ==
    /\ idx = 0 /\ active = 0
    /\ qp = [f \in Flows |-> "waiting"] /\ una = [f \in Flows |-> 0]
    /\ table = [s \in Slots |-> NoEntry]
    /\ reports = 0 /\ out = NotWriting /\ file = NoFile
    /\ stopped = "no"
    /\ tuner = [pc |-> "poll", hash |-> NoFile, large |-> {}, small |-> {}]
    /\ final = [f \in Flows |-> 0] /\ lost = {}

Open == {f \in Flows : qp[f] = "open"}
\* An event runs to completion before the next: no other while a report is written.
Running == stopped = "no" /\ out = NotWriting

-----------------------------------------------------------------------------
(* Flows *)

\* Mutation: flows that are not scheduled yet are forgotten.
StopWhenIdle(scheduled, activeNow) == activeNow = 0
MaybeStopWhenAllFlowsFinish(scheduled, activeNow) ==
    scheduled >= FlowNum /\ activeNow = 0

\* Mutation: the last flow is left in the file.
MoreFlowsButLast == idx + 1 < FlowNum
\* Whether ScheduleFlowInputs has scheduled itself for the next flow of the file.
MoreFlows == idx < FlowNum

\* All flows that start now; their applications start in events of their own.
ScheduleFlowInputs ==
    /\ Running /\ MoreFlows
    /\ LET now == {f \in Flows : f > idx /\ Start[f] = Start[idx + 1]}
       IN  /\ idx' = idx + Cardinality(now)
           /\ active' = active + Cardinality(now)
           /\ qp' = [f \in Flows |-> IF f \in now THEN "installed" ELSE qp[f]]
    /\ stopped' = IF idx' = FlowNum /\ MaybeStopWhenAllFlowsFinish(idx', active')
                  THEN "finished" ELSE "no"
    /\ UNCHANGED <<una, table, lost, reports, out, file, tuner, final>>

\* RdmaClient::StartApplication: the queue pair enters m_qpMap.
StartApplication(f) ==
    /\ Running /\ qp[f] = "installed"
    /\ qp' = [qp EXCEPT ![f] = "open"]
    /\ UNCHANGED <<idx, active, una, table, stopped, lost, reports, out, file, tuner, final>>

\* An ACK or NACK that leaves the queue pair unfinished.
Acknowledge(f) ==
    /\ Running /\ qp[f] = "open"
    /\ una[f] + 1 < Size[f]
    /\ una' = [una EXCEPT ![f] = @ + 1]
    /\ UNCHANGED <<idx, active, qp, table, stopped, lost, reports, out, file, tuner, final>>

-----------------------------------------------------------------------------
(* The table of work requests *)

\* Mutation: the flow that has the slot keeps it.
UpsertIfFree(entry, f) == IF entry.flow = 0 THEN [NoEntry EXCEPT !.flow = f] ELSE entry
\* upsert_host_wr_entry: the entry of another flow is replaced.
Upsert(entry, f) == IF entry.flow = f THEN entry ELSE [NoEntry EXCEPT !.flow = f]

\* update_host_wr_entry, of the entry in the slot of f.
UpdateHostWrEntry(entry, f, finished) ==
    LET completed == IF finished \/ una[f] > Size[f] THEN Size[f] ELSE una[f]
    IN  [Upsert(entry, f) EXCEPT !.completed = completed, !.size = Size[f],
                                 !.finished = finished \/ completed >= Size[f]]

\* Finished flows that the table t2 no longer holds, though not yet reported.
Evicted(t1, t2) ==
    {t1[s].flow : s \in {s \in Slots : /\ t1[s].finished /\ t1[s].flow # t2[s].flow
                                       /\ t1[s].reported # t1[s].completed}}

\* Mutation: the count is left as it is.
KeepCount(n) == n
LessOne(n) == IF n > 0 THEN n - 1 ELSE 0

\* The ACK of the last byte: QpComplete calls qp_finish and deletes the queue pair.
QpFinish(f) ==
    /\ Running /\ qp[f] = "open" /\ una[f] + 1 >= Size[f]
    /\ una' = [una EXCEPT ![f] = Size[f]]
    /\ qp' = [qp EXCEPT ![f] = "done"]
    /\ table' = [table EXCEPT ![Slot[f]] = UpdateHostWrEntry(table[Slot[f]], f, TRUE)]
    /\ lost' = lost \cup Evicted(table, table')
    /\ active' = LessOne(active)
    /\ stopped' = IF MaybeStopWhenAllFlowsFinish(idx, active') THEN "finished" ELSE "no"
    /\ UNCHANGED <<idx, reports, out, file, tuner, final>>

Here(s) == {f \in Open : Slot[f] = s}
\* The queue pair of each slot that is visited last (0: the slot has none), in
\* whatever order the unordered_map is walked.
Walks ==
    {last \in [Slots -> Flows \cup {0}] :
        \A s \in Slots : last[s] \in (IF Here(s) = {} THEN {0} ELSE Here(s))}
\* sync_host_wr_entries_from_active_qps: the queue pair that is visited last has
\* the slot.  It finds the entry of before if it is the only one, and otherwise
\* one to replace.
SyncFromActiveQps(t, last) ==
    [s \in Slots |->
        IF last[s] = 0 THEN t[s]
        ELSE UpdateHostWrEntry(IF Here(s) = {last[s]} THEN t[s] ELSE NoEntry,
                               last[s], FALSE)]

\* Mutation: a finished entry is cleared whether it was reported or not.
ClearsFinished(entry) == entry.finished
Clears(entry) == entry.finished /\ entry.completed = entry.reported

Row(entry) == [flow |-> entry.flow, completed |-> entry.completed, size |-> entry.size]
Reported(t) == {s \in Slots : t[s].flow # 0 /\ ~Clears(t[s])}
\* The first call only marks the monitor initialized; the others write a row for
\* each entry and clear those whose final value has been written before.
MonitorHostFlowReport ==
    /\ Running /\ reports < MaxReports
    /\ reports' = reports + 1
    /\ \E last \in Walks : \E t \in {SyncFromActiveQps(table, last)} :
          /\ lost' = lost \cup Evicted(table, t)
          /\ out' = [time |-> reports',
                     rows |-> [i \in 1 .. Cardinality(Reported(t)) |->
                                 Row(t[Nth(Reported(t), i)])]]
          /\ table' = [s \in Slots |->
                IF s \in Reported(t) THEN [t[s] EXCEPT !.reported = t[s].completed]
                ELSE NoEntry]
          /\ final' = [f \in Flows |->
                IF \E s \in Reported(t) : t[s].flow = f /\ t[s].finished
                THEN final[f] + 1 ELSE final[f]]
    /\ file' = NoFile
    /\ UNCHANGED <<idx, active, qp, una, stopped, tuner>>

\* The stream writes a full buffer: it may end anywhere in a row, which counts
\* only if its last number has begun.
FlushReport ==
    /\ out # NotWriting
    /\ \E n \in Len(file.rows) + 1 .. Len(out.rows) :
        \E size \in 1 .. out.rows[n].size :
          file' = [time |-> out.time, whole |-> FALSE,
                   rows |-> [SubSeq(out.rows, 1, n) EXCEPT ![n].size = size]]
    /\ UNCHANGED <<simVars, reports, out, tuner, final>>

\* The last row, wr_summary, and close.
CloseReport ==
    /\ out # NotWriting
    /\ file' = [time |-> out.time, rows |-> out.rows, whole |-> TRUE]
    /\ out' = NotWriting
    /\ UNCHANGED <<simVars, reports, tuner, final>>

-----------------------------------------------------------------------------
(* The tuner *)

\* Mutation: a report is told from the last one by its time.
TimeOnly(f) == [NoFile EXCEPT !.time = f.time]
\* calculate_file_hash, without collisions.
Hash(f) == f

Poll ==
    /\ tuner.pc = "poll" /\ Hash(file) # tuner.hash
    /\ tuner' = [tuner EXCEPT !.pc = "load", !.hash = Hash(file)]
    /\ UNCHANGED <<simVars, reports, out, file, final>>

Ceil(n, d) == ((n + d - 1) \div d) * d
\* compute_chunk_visible_size
Visible(progress, size) ==
    IF Ceil(progress, Chunk) < size THEN Ceil(progress, Chunk) ELSE size

\* load_host_flow_report and classify_host_flow_progress, of a file that may have
\* changed since it was hashed.  A report without a flow is skipped.
LoadAndClassify ==
    /\ tuner.pc = "load"
    /\ LET rows == ToSet(file.rows)
           isLarge(r) == Visible(r.completed, r.size) >= Threshold
       IN  tuner' = IF rows = {} THEN [tuner EXCEPT !.pc = "poll"]
                    ELSE [tuner EXCEPT !.pc = "poll",
                             !.large = {r.flow : r \in {x \in rows : isLarge(x)}},
                             !.small = {r.flow : r \in {x \in rows : ~isLarge(x)}}]
    /\ UNCHANGED <<simVars, reports, out, file, final>>

\* The event at simulator_stop_time, which main schedules in every run: it may
\* find flows that are under way, installed or still to be read.
StopTime ==
    /\ Running
    /\ stopped' = "time"
    /\ UNCHANGED <<idx, active, qp, una, table, lost, reports, out, file, tuner, final>>

Simulate ==
    \/ StopTime
    \/ ScheduleFlowInputs \/ MonitorHostFlowReport \/ FlushReport \/ CloseReport
    \/ \E f \in Flows : StartApplication(f) \/ Acknowledge(f) \/ QpFinish(f)
Tune == Poll \/ LoadAndClassify
Next == Simulate \/ Tune

Spec == Init /\ [][Next]_vars

\* Events that are due happen and the network makes progress; the tuner runs.
\* The stop time may be later than anything else.
FairSpec ==
    /\ Spec
    /\ WF_vars(ScheduleFlowInputs) /\ WF_vars(CloseReport) /\ WF_vars(Tune)
    /\ \A f \in Flows :
          WF_vars(StartApplication(f)) /\ WF_vars(Acknowledge(f) \/ QpFinish(f))

-----------------------------------------------------------------------------
(* Properties *)

\* Type correctness; active_flow_count is the number of flows that were
\* installed and have not finished, so that its guard against wrapping is idle.
TypeOK ==
    /\ idx \in 0 .. FlowNum
    /\ active = Cardinality({f \in Flows : qp[f] \in {"installed", "open"}})
    /\ una \in [Flows -> Nat] /\ \A f \in Flows : una[f] <= Size[f]
    /\ \A s \in Slots : table[s] = NoEntry \/ Slot[table[s].flow] = s
    /\ reports \in 0 .. MaxReports /\ stopped \in {"no", "finished", "time"}
    /\ tuner.large \cup tuner.small \subseteq Flows

\* A report speaks for every slot with an open queue pair, with the progress
\* that the reported queue pair has made by now; a row of a queue pair that is
\* gone shows its full size.
ReportIsCurrent ==
    out # NotWriting =>
        /\ \A f \in Open : \E r \in ToSet(out.rows) :
              r.flow \in Open /\ Slot[r.flow] = Slot[f]
        /\ \A r \in ToSet(out.rows) :
              \/ qp[r.flow] = "open" /\ r.completed = una[r.flow]
              \/ qp[r.flow] = "done" /\ r.completed = Size[r.flow]

\* A finished flow appears as such in one report and no other: its entry stays
\* until then, and goes with the next report.  Only a flow that shares its slot
\* can be evicted before.
FinalReportedOnce ==
    \A f \in Flows :
        /\ final[f] <= 1
        /\ f \in lost => final[f] = 0 /\ \E g \in Flows \ {f} : Slot[g] = Slot[f]
        /\ qp[f] = "done" /\ final[f] = 0 /\ f \notin lost =>
              table[Slot[f]].flow = f /\ table[Slot[f]].finished

\* Once the main loop finds nothing new in the report, it has counted the flows
\* of the report that is there, the whole of it, although the file is read
\* again after it was hashed and may be found in part.  A flow of at least the
\* threshold is large as soon as it enters the chunk that reaches it.
LatestReportCounted ==
    LET isLarge(r) == r.size >= Threshold /\ r.completed > ((Threshold - 1) \div Chunk) * Chunk
    IN  tuner.pc = "poll" /\ tuner.hash = Hash(file) /\ file.rows # <<>> =>
            /\ tuner.large = {r.flow : r \in {x \in ToSet(file.rows) : isLarge(x)}}
            /\ tuner.large \cup tuner.small = {r.flow : r \in ToSet(file.rows)}

\* MaybeStopWhenAllFlowsFinish has ended the simulation exactly if all flows of
\* the file have finished: not in a pause between flows, when none is active, nor
\* while an application that was installed has yet to open its queue pair.
EndedByFlows == stopped = "finished" <=> \A f \in Flows : qp[f] = "done"

\* The simulation ends, with its last flow or at its stop time: no flow is left in
\* the file, and no count keeps it alive when all flows have finished.
StopsWhenAllFlowsFinish == <>(stopped # "no")

=============================================================================
