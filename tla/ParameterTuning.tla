--------------------------- MODULE ParameterTuning ---------------------------
(***************************************************************************)
(* The tuning loop: scratch/tuning.py -> parameter.txt -> scratch/third.cc.*)
(*                                                                         *)
(* Two processes share files.  The simulator rewrites the metric files and *)
(* the flow report and reloads parameter.txt, each on a timer in simulated *)
(* time.  The tuner's main loop watches the report and starts a tuning     *)
(* thread, which searches by simulated annealing: write a candidate, wait  *)
(* for a metric snapshot, judge.  Every file is truncated when it is       *)
(* opened for writing and gets its content when it is closed (both fit one *)
(* buffer), so that the other side may find it empty.                      *)
(*                                                                         *)
(* A parameter set is an identity, not a vector of values: 1 is the set of *)
(* defaults, and each new candidate gets the number of the write that      *)
(* first stored it.  Time counts monitor intervals.                        *)
(***************************************************************************)
EXTENDS Integers, Sequences, FiniteSets

CONSTANTS
    Threads,     \* slots for tuning threads
    Ratios,      \* what a flow report may show: records of large and small
    Utilities,   \* the values that calculate_utility_breakdown may return
    Rounds,      \* annealing rounds of one tuning: attempt_times per temperature
    MaxTime      \* bound: monitor intervals that are simulated

ASSUME TuningAssumption ==
    /\ IsFiniteSet(Threads) /\ Threads # {}
    /\ Ratios \subseteq [large : Nat, small : Nat]
    /\ Utilities \subseteq Int /\ Utilities # {}
    /\ Rounds \in Nat \ {0} /\ MaxTime \in Nat \ {0}

VARIABLES
    sim,         \* the simulator: time and next step
    hosts,       \* write whose set the hosts run, 0 before the first reload
    ecn,         \* write whose thresholds the switches run, 0: built-in ones
    rtt, rate,   \* time of the snapshot in rtt.tr and switch_portrate.tr, or Empty
    report,      \* host_flow_report.tr
    file,        \* write that parameter.txt holds, or Empty
    written,     \* the sets written to parameter.txt, in order
    main,        \* the main loop
    isTuning,    \* is_tuning
    curRatio,    \* current_flow_ratio
    prevRatio,   \* previous_flow_ratio
    th           \* the tuning threads; seen is a history: what was measured

simVars == <<sim, hosts, ecn, rtt, rate, report>>
vars == <<simVars, file, written, main, isTuning, curRatio, prevRatio, th>>

Empty == 0
DefaultSet == 1

NoFlows == [large |-> 0, small |-> 0]
Unknown == [large |-> -1, small |-> -1]
\* What load_host_flow_report and classify_host_flow_progress make of a report.
Report(t, r) == [time |-> t, ratio |-> r]
Missing == Report(-1, NoFlows)
Truncated == Report(Empty, NoFlows)

IdleThread ==
    [pc |-> "idle", trigger |-> "none", stop |-> 0, round |-> 0, new |-> 0,
     cur |-> 0, curVal |-> 0, best |-> 0, bestVal |-> 0, seen |-> {}]

Alive(t) == th[t].pc # "idle"

\* The first interval whose report is written: the call of
\* monitor_host_flow_report before it does nothing.  A snapshot of that earlier
\* interval, time 0, satisfies no wait and is as good as none.
Init ==
    /\ sim = [time |-> 1, next |-> "rttOpen"]
    /\ hosts = 0 /\ ecn = 0
    /\ rtt = Empty /\ rate = Empty
    /\ report = Missing
    /\ file = Empty /\ written = <<>>
    /\ main = [pc |-> "initOpen", hash |-> Missing.time, time |-> 0, trigger |-> "none"]
    /\ isTuning = FALSE
    /\ curRatio = NoFlows /\ prevRatio = Unknown
    /\ th = [t \in Threads |-> IdleThread]

-----------------------------------------------------------------------------
(* The simulator; an event runs to completion in simulated time, but the     *)
(* tuner sees the files between its steps.                                   *)

TunerUnchanged ==
    UNCHANGED <<file, written, main, isTuning, curRatio, prevRatio, th>>

\* monitor_buffer_new rewrites rtt.tr, then switch_portrate.tr; an interval
\* without an ACK or without traffic leaves the file empty.
MonitorBuffer ==
    /\ \/ /\ sim.next = "rttOpen"
          /\ rtt' = Empty /\ rate' = rate
          /\ sim' = [sim EXCEPT !.next = "rttClose"]
       \/ /\ sim.next = "rttClose"
          /\ rtt' \in {Empty, sim.time} /\ rate' = Empty
          /\ sim' = [sim EXCEPT !.next = "rateClose"]
       \/ /\ sim.next = "rateClose"
          /\ rate' \in {Empty, sim.time} /\ rtt' = rtt
          /\ sim' = [sim EXCEPT !.next = "reportOpen"]
    /\ UNCHANGED <<hosts, ecn, report>>
    /\ TunerUnchanged

\* monitor_host_flow_report rewrites the report of flows in progress.
MonitorHostFlowReport ==
    /\ \/ /\ sim.next = "reportOpen"
          /\ report' = Truncated
          /\ sim' = [sim EXCEPT !.next = "reportClose"]
       \/ /\ sim.next = "reportClose"
          /\ \E r \in Ratios : report' = Report(sim.time, r)
          /\ sim' = [sim EXCEPT !.next = "reload"]
    /\ UNCHANGED <<hosts, ecn, rtt, rate>>
    /\ TunerUnchanged

\* ChangeParameters: for the keys found; an empty file has none.
ChangeParameters == IF file = Empty THEN hosts ELSE file
\* ChangeECNthreshold: without a key the built-in thresholds are set.
ChangeECNthreshold == file

\* parameter_tuning, whose interval is a little longer than the monitors'; the
\* monitors come next, until MaxTime, which stands for qlen_mon_end.
ReloadParameters ==
    /\ sim.next = "reload"
    /\ hosts' = ChangeParameters
    /\ ecn' = ChangeECNthreshold
    /\ sim' = IF sim.time < MaxTime THEN [time |-> sim.time + 1, next |-> "rttOpen"]
              ELSE [sim EXCEPT !.next = "end"]
    /\ UNCHANGED <<rtt, rate, report>>
    /\ TunerUnchanged

-----------------------------------------------------------------------------
(* Operators of the tuner *)

\* write_parameters: opening truncates, closing stores the set s.
OpenForWriting == file' = Empty /\ written' = written
CloseWith(s) == written' = Append(written, s) /\ file' = Len(written) + 1

\* load_current_parameters: the defaults if there is nothing to read.
LoadCurrentParameters == IF file = Empty THEN DefaultSet ELSE written[file]

\* compute_divergence exceeds the threshold: the shares of large and small
\* flows differ.  (Nearly equal shares do not occur in small numbers.)
Diverges(c, p) ==
    /\ c.large + c.small > 0 /\ p.large + p.small > 0
    /\ c.large * p.small # p.large * c.small

\* Mutation: a tuning is started beside another.
TriggerAlways(current) ==
    IF prevRatio.small = -1 THEN "initial"
    ELSE IF Diverges(current, prevRatio) THEN "divergence" ELSE "none"
\* The trigger_reason for the counts of a new report.
Trigger(current) ==
    IF isTuning THEN "none"
    ELSE IF prevRatio.small = -1 THEN "initial"
    ELSE IF Diverges(current, prevRatio) THEN "divergence" ELSE "none"

-----------------------------------------------------------------------------
(* The main loop *)

At(pc) == main.pc = pc
Goto(pc) == main' = [main EXCEPT !.pc = pc]

\* At start-up the defaults are written if there is no parameter file.
InitialWrite ==
    /\ \/ At("initOpen") /\ OpenForWriting /\ Goto("initClose")
       \/ At("initClose") /\ CloseWith(DefaultSet) /\ Goto("poll")
    /\ UNCHANGED <<simVars, isTuning, curRatio, prevRatio, th>>

\* The hash of the report tells whether it is new: each has another time in it.
Poll ==
    /\ At("poll") /\ report.time # main.hash
    /\ main' = [main EXCEPT !.hash = report.time, !.pc = "load"]
    /\ UNCHANGED <<simVars, file, written, isTuning, curRatio, prevRatio, th>>

\* The report is read again; without a flow in it, it is skipped.  is_tuning is
\* read a moment later: a thread that clears it meanwhile touches nothing else
\* that is read here, and might as well have cleared it before.
LoadObservation ==
    /\ At("load")
    /\ IF report.ratio = NoFlows
         THEN Goto("poll") /\ UNCHANGED curRatio
         ELSE /\ main' = [main EXCEPT !.time = report.time, !.pc = "waitRate",
                                      !.trigger = Trigger(report.ratio)]
              /\ curRatio' = report.ratio
    /\ UNCHANGED <<simVars, file, written, isTuning, prevRatio, th>>

\* wait_for_monitor_snapshots_at_or_after: both files must be recent.
WaitForMonitorSnapshots ==
    /\ \/ At("waitRate") /\ rate >= main.time /\ Goto("waitRtt")
       \/ At("waitRtt") /\ Goto(IF rtt < main.time THEN "waitRate"
                                ELSE IF main.trigger = "none" THEN "keep" ELSE "flag")
    /\ UNCHANGED <<simVars, file, written, isTuning, curRatio, prevRatio, th>>

\* Mutation: the flag is set once the thread runs.
SetFlagLate ==
    /\ At("flag") /\ Goto("spawn")
    /\ UNCHANGED <<simVars, file, written, isTuning, curRatio, prevRatio, th>>
SetFlag ==
    /\ At("flag") /\ Goto("spawn")
    /\ isTuning' = TRUE
    /\ UNCHANGED <<simVars, file, written, curRatio, prevRatio, th>>

StartThread ==
    /\ At("spawn") /\ Goto("keep")
    /\ \E t \in Threads :
          /\ th[t].pc = "idle"
          /\ th' = [s \in Threads |->
                IF s = t THEN [IdleThread EXCEPT !.pc = "begin", !.stop = main.time,
                                                 !.trigger = main.trigger]
                ELSE IF Alive(s) THEN th[s] ELSE IdleThread]
    /\ UNCHANGED <<simVars, file, written, isTuning, curRatio, prevRatio>>

\* The counts become the previous ones and are reset one by one.
KeepAndReset ==
    /\ \/ At("keep") /\ Goto("resetLarge")
          /\ prevRatio' = curRatio /\ UNCHANGED curRatio
       \/ At("resetLarge") /\ Goto("resetSmall")
          /\ curRatio' = [curRatio EXCEPT !.large = 0] /\ UNCHANGED prevRatio
       \/ At("resetSmall")
          /\ main' = [main EXCEPT !.time = 0, !.trigger = "none", !.pc = "poll"]
          /\ curRatio' = [curRatio EXCEPT !.small = 0] /\ UNCHANGED prevRatio
    /\ UNCHANGED <<simVars, file, written, isTuning, th>>

-----------------------------------------------------------------------------
(* A tuning thread: start_tuning and aggressive_tuning or conservative_tuning *)

ThreadAt(t, pc) == th[t].pc = pc
ThreadBecomes(t, r) == th' = [th EXCEPT ![t] = r]
MainUnchanged == UNCHANGED <<simVars, main, curRatio, prevRatio>>

\* The first tuning waits for one more interval.
Begin(t) ==
    LET first == th[t].trigger = "initial"
        from == th[t].stop + (IF first THEN 1 ELSE 0)
    IN  /\ ThreadAt(t, "begin")
        /\ first => rate > from
        /\ ThreadBecomes(t, [th[t] EXCEPT !.trigger = "none", !.stop = from,
                                         !.pc = "baseline"])
        /\ UNCHANGED <<file, written, isTuning>> /\ MainUnchanged

\* The set in use is measured; the first candidate are the defaults.
Baseline(t) ==
    LET base == LoadCurrentParameters
    IN  /\ ThreadAt(t, "baseline")
        /\ \E v \in Utilities :
              ThreadBecomes(t, [th[t] EXCEPT !.cur = base, !.curVal = v,
                                             !.best = base, !.bestVal = v,
                                             !.seen = {<<base, v>>},
                                             !.new = DefaultSet, !.pc = "open"])
        /\ UNCHANGED <<file, written, isTuning>> /\ MainUnchanged

\* Mutation: the last candidate stays in place.
AfterLastRound(t) == [th[t] EXCEPT !.pc = "clear"]
\* The candidate after the last round is not measured; the best set replaces it.
WriteBest(t) == [th[t] EXCEPT !.new = th[t].best, !.round = @ + 1, !.pc = "open"]

WriteCandidate(t) ==
    /\ \/ /\ ThreadAt(t, "open") /\ OpenForWriting
          /\ ThreadBecomes(t, [th[t] EXCEPT !.pc = "close"])
       \/ /\ ThreadAt(t, "close") /\ CloseWith(th[t].new)
          /\ ThreadBecomes(t,
                CASE th[t].round < Rounds -> [th[t] EXCEPT !.pc = "wait"]
                  [] th[t].round = Rounds -> WriteBest(t)
                  [] OTHER -> [th[t] EXCEPT !.pc = "clear"])
    /\ UNCHANGED isTuning /\ MainUnchanged

\* wait_for_throughput_snapshot_after the end of the round.
WaitForSnapshot(t) ==
    /\ ThreadAt(t, "wait") /\ rate > th[t].stop + 1
    /\ ThreadBecomes(t, [th[t] EXCEPT !.stop = @ + 1, !.pc = "evaluate"])
    /\ UNCHANGED <<file, written, isTuning>> /\ MainUnchanged

UpdateBest(r) ==
    IF r.curVal > r.bestVal THEN [r EXCEPT !.best = r.cur, !.bestVal = r.curVal] ELSE r

\* A candidate that is not worse is accepted, a worse one may be.
Evaluate(t) ==
    /\ ThreadAt(t, "evaluate")
    /\ \E v \in Utilities, lucky \in BOOLEAN :
          LET r == [th[t] EXCEPT !.seen = @ \cup {<<th[t].new, v>>},
                                 !.round = @ + 1, !.pc = "check"]
          IN  ThreadBecomes(t,
                UpdateBest(IF v >= r.curVal \/ lucky
                             THEN [r EXCEPT !.cur = r.new, !.curVal = v] ELSE r))
    /\ UNCHANGED <<file, written, isTuning>> /\ MainUnchanged

\* get_new_solution_direction looks at the counts, and reads them again.
CheckRatio(t) ==
    /\ ThreadAt(t, "check")
    /\ ThreadBecomes(t, [th[t] EXCEPT !.pc =
          IF curRatio.large # 0 /\ curRatio.small # 0 THEN "useCurrent" ELSE "usePrevious"])
    /\ UNCHANGED <<file, written, isTuning>> /\ MainUnchanged

\* Dividing by no flows raises an exception, which ends the thread.
Direct(t, r) ==
    ThreadBecomes(t, IF r.large + r.small = 0
                       THEN [IdleThread EXCEPT !.pc = "dead"]
                       ELSE [th[t] EXCEPT !.new = Len(written) + 1, !.pc = "open"])

UseRatio(t) ==
    /\ \/ ThreadAt(t, "useCurrent") /\ Direct(t, curRatio)
       \/ ThreadAt(t, "usePrevious") /\ Direct(t, prevRatio)
    /\ UNCHANGED <<file, written, isTuning>> /\ MainUnchanged

ClearFlag(t) ==
    /\ ThreadAt(t, "clear")
    /\ isTuning' = FALSE
    /\ ThreadBecomes(t, [IdleThread EXCEPT !.best = th[t].best, !.bestVal = th[t].bestVal,
                                           !.seen = th[t].seen])
    /\ UNCHANGED <<file, written>> /\ MainUnchanged

Next ==
    \/ MonitorBuffer \/ MonitorHostFlowReport \/ ReloadParameters
    \/ InitialWrite \/ Poll \/ LoadObservation
    \/ WaitForMonitorSnapshots \/ SetFlag \/ StartThread \/ KeepAndReset
    \/ \E t \in Threads :
          \/ Begin(t) \/ Baseline(t) \/ WriteCandidate(t) \/ WaitForSnapshot(t)
          \/ Evaluate(t) \/ CheckRatio(t) \/ UseRatio(t) \/ ClearFlag(t)

Spec == Init /\ [][Next]_vars

-----------------------------------------------------------------------------
(* Properties *)

\* At most one thread searches, although is_tuning is read before the main loop
\* waits for the monitors and set after it: two searches would overwrite each
\* other's candidates and judge the wrong ones.
OneTuner == Cardinality({t \in Threads : Alive(t)}) <= 1

\* is_tuning is set exactly while a thread is about to start, runs or has died
\* of an exception: it is never left set by a thread that finished early nor
\* cleared under one that still runs.
FlagIsHonest ==
    isTuning <=> (main.pc = "spawn" \/ \E t \in Threads : Alive(t))

\* When a search has ended, parameter.txt is complete and holds a set that was
\* measured at least as good as every other, the original one included.
EndsWithBest ==
    \A t \in Threads : (~isTuning /\ th[t].seen # {}) =>
        /\ file # Empty
        /\ \A m \in th[t].seen :
              \E b \in th[t].seen : b[1] = written[file] /\ b[2] >= m[2]

\* README.md: parameter.txt is the "live parameter file written by the tuner and
\* reloaded by the simulator".  Hosts and switches run the same written set; the
\* built-in thresholds are those of the defaults.
OneSetInForce ==
    hosts # 0 => (IF ecn = 0 THEN DefaultSet ELSE written[ecn]) = written[hosts]

=============================================================================
