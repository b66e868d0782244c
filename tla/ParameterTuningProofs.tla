------------------------ MODULE ParameterTuningProofs ------------------------
(***************************************************************************)
(* Proofs about ParameterTuning: for any number of threads and rounds, any *)
(* utilities and any flow reports, the flag is_tuning admits one search at *)
(* a time, and a search that ends leaves the best set it measured in       *)
(* parameter.txt.                                                          *)
(***************************************************************************)
EXTENDS ParameterTuning, SequenceTheorems, FiniteSetTheorems, TLAPS

Counts == [large : Nat, small : Nat]

MainPCs == {"initOpen", "initClose", "poll", "load", "waitRate", "waitRtt", "flag",
            "spawn", "keep", "resetLarge", "resetSmall"}
\* Where a thread has not yet measured anything, and where it has.
EarlyPCs == {"begin", "baseline"}
SearchPCs == {"open", "close", "wait", "evaluate", "check", "useCurrent",
              "usePrevious", "clear"}
ThreadPCs == {"idle", "dead"} \cup EarlyPCs \cup SearchPCs

Triggers == {"none", "initial", "divergence"}

ThreadType ==
    [pc : ThreadPCs, trigger : Triggers, stop : Int,
     round : Nat, new : Nat, cur : Nat, curVal : Int, best : Nat, bestVal : Int,
     seen : SUBSET (Nat \X Int)]

\* The types of everything, the records of the processes included.
SimTypes ==
    /\ sim \in [time : 1 .. MaxTime,
                next : {"rttOpen", "rttClose", "rateClose", "reportOpen",
                        "reportClose", "reload", "end"}]
    /\ hosts \in Nat /\ ecn \in Nat
    /\ rtt \in 0 .. MaxTime /\ rate \in 0 .. MaxTime
    /\ report \in [time : Int, ratio : Counts]
MainTypes ==
    /\ main \in [pc : MainPCs, hash : Int, time : Int,
                 trigger : Triggers]
    /\ isTuning \in BOOLEAN
    /\ curRatio \in Counts /\ prevRatio \in [large : Int, small : Int]
SearchTypes ==
    /\ file \in Nat /\ written \in Seq(Nat)
    /\ th \in [Threads -> ThreadType]
Types == SimTypes /\ MainTypes /\ SearchTypes

\* The numbers of writes and sets refer to writes that happened.
Numbering ==
    /\ hosts <= Len(written) /\ ecn <= Len(written) /\ file <= Len(written)
    /\ \A i \in 1 .. Len(written) : written[i] \in 1 .. i

\* The handover of is_tuning between the main loop and its threads.  A trigger
\* computed from the cleared flag stays valid until the flag is set, since no
\* thread is left that could be in the way and only the main loop starts one.
Handover ==
    /\ isTuning <=> (main.pc = "spawn" \/ \E t \in Threads : Alive(t))
    /\ \A s, t \in Threads : Alive(s) /\ Alive(t) => s = t
    /\ main.pc = "spawn" => \A t \in Threads : ~Alive(t)
    /\ main.pc \in {"waitRate", "waitRtt", "flag"} /\ main.trigger # "none" => ~isTuning
    /\ main.pc = "flag" => main.trigger # "none"
    /\ main.pc \in {"initOpen", "initClose"} =>
          \A t \in Threads : th[t].pc = "idle" /\ th[t].seen = {}

\* The best set of a thread's record r is one that was measured, and none was
\* measured better.
BestIn(r) ==
    /\ <<r.best, r.bestVal>> \in r.seen
    /\ \A m \in r.seen : m[2] <= r.bestVal

\* What holds of the record r of a thread that searches; n writes have happened.
\* The last round writes the best set.
Searching(r, n) ==
    /\ BestIn(r) /\ r.curVal <= r.bestVal
    /\ r.best \in 1 .. n + 1 /\ r.cur \in 1 .. n + 1 /\ r.new \in 1 .. n + 1
    /\ r.pc \in {"wait", "evaluate"} => r.round < Rounds
    /\ r.pc \in {"check", "useCurrent", "usePrevious"} => r.round <= Rounds
    /\ r.pc \in {"open", "close"} =>
          r.round <= Rounds \/ (r.round = Rounds + 1 /\ r.new = r.best)

InPlace(r) == file # Empty /\ written[file] = r.best

ThreadInv(t) ==
    /\ th[t].pc \in EarlyPCs => th[t].round = 0 /\ th[t].seen = {}
    /\ th[t].pc = "dead" => th[t].seen = {}
    /\ th[t].pc \in SearchPCs => Searching(th[t], Len(written))
    /\ th[t].pc = "clear" => InPlace(th[t])
    /\ th[t].pc = "idle" /\ th[t].seen # {} =>
          BestIn(th[t]) /\ InPlace(th[t]) /\ \A s \in Threads : ~Alive(s)

\* The inductive invariant.
IInv == Types /\ Numbering /\ Handover /\ \A t \in Threads : ThreadInv(t)

-----------------------------------------------------------------------------
(* The initial states *)

\* The invariant holds when the tuner and the simulator start.
LEMMA InitIInv == Init => IInv
<1> SUFFICES ASSUME Init PROVE IInv
  OBVIOUS
<1>1. Types
  <2>1. SearchTypes
    BY DEF Init, SearchTypes, IdleThread, ThreadType, ThreadPCs, Triggers, Empty
  <2>2. main \in [pc : MainPCs, hash : Int, time : Int,
                  trigger : Triggers]
    BY DEF Init, MainPCs, Triggers, Missing, Report
  <2>3. /\ report \in [time : Int, ratio : Counts] /\ curRatio \in Counts
        /\ prevRatio \in [large : Int, small : Int]
    BY DEF Init, Counts, Missing, Report, NoFlows, Unknown
  <2>4. SimTypes
    BY <2>3, TuningAssumption DEF Init, SimTypes, Empty
  <2> QED
    BY <2>1, <2>2, <2>3, <2>4 DEF Init, Types, MainTypes
<1>2. Numbering
  BY DEF Init, Numbering, Empty
<1>3. Handover
  BY DEF Init, Handover, Alive, IdleThread
<1>4. \A t \in Threads : ThreadInv(t)
  BY DEF Init, ThreadInv, IdleThread, EarlyPCs, SearchPCs
<1> QED
  BY <1>1, <1>2, <1>3, <1>4 DEF IInv

-----------------------------------------------------------------------------
(* Steps that leave parts of the state alone *)

\* The state of the threads' searches depends on the file and the threads only.
LEMMA SearchFrame ==
    ASSUME \A t \in Threads : ThreadInv(t), UNCHANGED <<file, written, th>>
    PROVE  \A t \in Threads : ThreadInv(t)'
BY DEF ThreadInv, InPlace, Alive

\* Truncating parameter.txt keeps the numbering of the writes.
LEMMA OpenNumbering ==
    ASSUME Types, Numbering, OpenForWriting, UNCHANGED <<hosts, ecn>>
    PROVE  file' \in Nat /\ written' \in Seq(Nat) /\ Numbering'
BY DEF Types, SearchTypes, Numbering, OpenForWriting, Empty

\* Storing a set in parameter.txt keeps it, if the set is known or a new one.
LEMMA CloseNumbering ==
    ASSUME Types, Numbering, NEW s \in 1 .. Len(written) + 1, CloseWith(s),
           UNCHANGED <<hosts, ecn>>
    PROVE  /\ file' \in Nat /\ written' \in Seq(Nat) /\ Numbering'
           /\ Len(written') = Len(written) + 1
           /\ file' # Empty /\ written'[file'] = s
<1>1. written \in Seq(Nat) /\ s \in Nat /\ Len(written) \in Nat
  BY DEF Types, SearchTypes
<1>2. /\ written' \in Seq(Nat) /\ Len(written') = Len(written) + 1
      /\ \A i \in 1 .. Len(written) : written'[i] = written[i]
      /\ written'[Len(written) + 1] = s
  BY <1>1, AppendProperties DEF CloseWith
<1> QED
  BY <1>1, <1>2 DEF Types, SimTypes, Numbering, CloseWith, Empty

\* The simulator's events touch neither the tuner's files nor its flag.
LEMMA SimulatorStep ==
    ASSUME IInv, MonitorBuffer \/ MonitorHostFlowReport \/ ReloadParameters
    PROVE  IInv'
<1> USE DEF IInv
<1>1. TunerUnchanged
  BY DEF MonitorBuffer, MonitorHostFlowReport, ReloadParameters
<1>2. UNCHANGED <<file, written, main, isTuning, curRatio, prevRatio, th>>
  BY <1>1 DEF TunerUnchanged
<1>3. SimTypes'
  <2> USE DEF Types, SimTypes
  <2>1. CASE MonitorBuffer
    <3>1. rtt' \in 0 .. MaxTime /\ rate' \in 0 .. MaxTime
      BY <2>1, TuningAssumption DEF MonitorBuffer, Empty
    <3>2. sim' \in [time : 1 .. MaxTime,
                    next : {"rttOpen", "rttClose", "rateClose", "reportOpen",
                            "reportClose", "reload", "end"}]
      BY <2>1 DEF MonitorBuffer
    <3> QED
      BY <2>1, <3>1, <3>2 DEF MonitorBuffer
  <2>2. CASE MonitorHostFlowReport
    <3>1. report' \in [time : Int, ratio : Counts]
      BY <2>2, TuningAssumption
         DEF MonitorHostFlowReport, Truncated, Report, NoFlows, Counts, Empty
    <3> QED
      BY <2>2, <3>1 DEF MonitorHostFlowReport
  <2>3. CASE ReloadParameters
    <3>1. hosts' \in Nat /\ ecn' \in Nat
      BY <2>3 DEF ReloadParameters, ChangeParameters, ChangeECNthreshold, SearchTypes
    <3> QED
      BY <2>3, <3>1, TuningAssumption DEF ReloadParameters
  <2> QED
    BY <2>1, <2>2, <2>3
<1>7. Types'
  BY <1>2, <1>3 DEF Types, MainTypes, SearchTypes
<1>4. Numbering'
  BY <1>2 DEF Numbering, MonitorBuffer, MonitorHostFlowReport, ReloadParameters,
     ChangeParameters, ChangeECNthreshold
<1>5. Handover'
  BY <1>2 DEF Handover, Alive
<1>6. \A t \in Threads : ThreadInv(t)'
  BY <1>2, SearchFrame
<1> QED
  BY <1>4, <1>5, <1>6, <1>7

-----------------------------------------------------------------------------
(* The main loop *)

\* A step of the main loop that leaves the files and the threads alone only has
\* to respect the handover.
LEMMA MainFrame ==
    ASSUME IInv, UNCHANGED <<simVars, file, written, th>>, MainTypes', Handover'
    PROVE  IInv'
<1>1. Types' /\ Numbering'
  BY DEF IInv, Types, SimTypes, SearchTypes, Numbering, simVars
<1>2. \A t \in Threads : ThreadInv(t)'
  BY SearchFrame DEF IInv
<1> QED
  BY <1>1, <1>2 DEF IInv

\* A search is triggered only by what the main loop computes from the flag.
LEMMA TriggerType ==
    ASSUME NEW c
    PROVE  /\ Trigger(c) \in Triggers
           /\ Trigger(c) # "none" => ~isTuning
BY DEF Trigger, Triggers

\* The main loop takes the hash of a new observation: only its own record changes.
LEMMA PollStep == ASSUME IInv, Poll PROVE IInv'
<1>1. MainTypes'
  BY DEF IInv, Types, MainTypes, SimTypes, Poll, At, MainPCs
<1>2. Handover'
  BY DEF IInv, Types, MainTypes, Handover, Poll, At, Alive
<1> QED
  BY <1>1, <1>2, MainFrame DEF Poll

\* The main loop loads the observation it hashed, or goes back to polling.
LEMMA LoadObservationStep == ASSUME IInv, LoadObservation PROVE IInv'
<1>1. MainTypes'
  <2>1. report.ratio \in Counts /\ report.time \in Int /\ Trigger(report.ratio) \in Triggers
    BY TriggerType DEF IInv, Types, SimTypes
  <2> QED
    BY <2>1 DEF IInv, Types, MainTypes, LoadObservation, Goto, MainPCs
<1>2. /\ main.pc = "load" /\ main'.pc \in {"poll", "waitRate"}
      /\ main'.pc = "waitRate" /\ main'.trigger # "none" => ~isTuning
  BY TriggerType DEF IInv, Types, MainTypes, LoadObservation, At, Goto
<1>3. Handover'
  BY <1>2 DEF IInv, Handover, LoadObservation, Alive
<1> QED
  BY <1>1, <1>3, MainFrame DEF LoadObservation

\* The main loop leaves wait_for_monitor_snapshots.
LEMMA WaitForMonitorSnapshotsStep == ASSUME IInv, WaitForMonitorSnapshots PROVE IInv'
<1>1. MainTypes'
  BY DEF IInv, Types, MainTypes, WaitForMonitorSnapshots, At, Goto, MainPCs
<1>2. Handover'
  BY DEF IInv, Types, MainTypes, Handover, WaitForMonitorSnapshots, At, Goto, Alive
<1> QED
  BY <1>1, <1>2, MainFrame DEF WaitForMonitorSnapshots

\* The main loop raises tuning_in_progress, before it starts a thread.
LEMMA SetFlagStep == ASSUME IInv, SetFlag PROVE IInv'
<1>1. MainTypes'
  BY DEF IInv, Types, MainTypes, SetFlag, At, Goto, MainPCs
<1>2. Handover'
  BY DEF IInv, Types, MainTypes, Handover, SetFlag, At, Goto, Alive
<1> QED
  BY <1>1, <1>2, MainFrame DEF SetFlag

\* The main loop keeps the counts of flows as the previous ones and resets them.
LEMMA KeepAndResetStep == ASSUME IInv, KeepAndReset PROVE IInv'
<1>1. MainTypes'
  <2>1. main' \in [pc : MainPCs, hash : Int, time : Int,
                   trigger : Triggers]
    <3>1. CASE main' = [main EXCEPT !.time = 0, !.trigger = "none", !.pc = "poll"]
      <4>1. main.hash \in Int
        BY DEF IInv, Types, MainTypes
      <4>2. main' = [pc |-> "poll", hash |-> main.hash, time |-> 0, trigger |-> "none"]
        BY <3>1 DEF IInv, Types, MainTypes
      <4> QED
        BY <4>1, <4>2 DEF MainPCs, Triggers
    <3>2. CASE \E p \in {"resetLarge", "resetSmall"} : Goto(p)
      BY <3>2 DEF IInv, Types, MainTypes, Goto, MainPCs
    <3> QED
      BY <3>1, <3>2 DEF KeepAndReset
  <2>2. curRatio' \in Counts /\ prevRatio' \in [large : Int, small : Int]
    BY DEF IInv, Types, MainTypes, KeepAndReset, Counts
  <2> QED
    BY <2>1, <2>2 DEF IInv, Types, MainTypes, KeepAndReset
<1>2. Handover'
  BY DEF IInv, Types, MainTypes, Handover, KeepAndReset, At, Goto, Alive
<1> QED
  BY <1>1, <1>2, MainFrame DEF KeepAndReset


\* The defaults are written before there is a thread.
LEMMA InitialWriteStep == ASSUME IInv, InitialWrite PROVE IInv'
<1> USE DEF IInv, Types
<1>1. MainTypes'
  BY DEF MainTypes, InitialWrite, Goto, MainPCs
<1>2. SimTypes'
  BY DEF SimTypes, InitialWrite, simVars
<1>3. file' \in Nat /\ written' \in Seq(Nat) /\ Numbering'
  <2>1. UNCHANGED <<hosts, ecn>>
    BY DEF InitialWrite, simVars
  <2>2. CASE OpenForWriting
    BY <2>1, <2>2, OpenNumbering
  <2>3. CASE CloseWith(DefaultSet)
    BY <2>1, <2>3, CloseNumbering DEF SearchTypes, DefaultSet
  <2> QED
    BY <2>2, <2>3 DEF InitialWrite
<1>6. SearchTypes'
  BY <1>3 DEF SearchTypes, InitialWrite
<1>4. Handover'
  BY DEF MainTypes, Handover, InitialWrite, At, Goto, Alive
<1>5. \A t \in Threads : ThreadInv(t)'
  BY DEF Handover, InitialWrite, At, ThreadInv, EarlyPCs, SearchPCs
<1> QED
  BY <1>1, <1>2, <1>3, <1>4, <1>5, <1>6

\* A new thread is well-formed.
LEMMA NewThreadType ==
    ASSUME NEW c \in Triggers, NEW n \in Int
    PROVE  [IdleThread EXCEPT !.pc = "begin", !.stop = n, !.trigger = c] \in ThreadType
<1>1. IdleThread \in ThreadType
  BY DEF IdleThread, ThreadType, ThreadPCs, Triggers
<1>2. ASSUME NEW i \in ThreadType
      PROVE  [i EXCEPT !.pc = "begin", !.stop = n, !.trigger = c] \in ThreadType
  BY DEF ThreadType, ThreadPCs, EarlyPCs
<1> QED
  BY <1>1, <1>2

\* The flag was set by the main loop, so that no thread is there when it starts
\* one; what earlier searches measured is forgotten.
LEMMA StartThreadStep == ASSUME IInv, StartThread PROVE IInv'
<1> USE DEF IInv, Types
<1> PICK t \in Threads :
          th' = [s \in Threads |->
                IF s = t THEN [IdleThread EXCEPT !.pc = "begin", !.stop = main.time,
                                                 !.trigger = main.trigger]
                ELSE IF Alive(s) THEN th[s] ELSE IdleThread]
  BY DEF StartThread
<1>1. \A s \in Threads : ~Alive(s)
  BY DEF StartThread, At, Handover
<1>2. th'[t] = [IdleThread EXCEPT !.pc = "begin", !.stop = main.time,
                                  !.trigger = main.trigger]
  OBVIOUS
<1>3. \A s \in Threads \ {t} : th'[s] = IdleThread
  BY <1>1
<1>4. MainTypes'
  BY DEF MainTypes, StartThread, Goto, MainPCs
<1>5. SimTypes'
  BY DEF SimTypes, StartThread, simVars
<1>6. SearchTypes'
  <2>1. IdleThread \in ThreadType
    BY DEF IdleThread, ThreadType, ThreadPCs, Triggers
  <2>2. th'[t] \in ThreadType
    BY <1>2, NewThreadType DEF MainTypes
  <2>3. th' \in [Threads -> ThreadType]
    BY <1>3, <2>1, <2>2
  <2> QED
    BY <2>3 DEF SearchTypes, StartThread
<1>7. Numbering'
  BY DEF Numbering, StartThread, simVars
<1>8. Handover'
  BY <1>2, <1>3 DEF MainTypes, Handover, StartThread, At, Goto, Alive, IdleThread
<1>9. \A s \in Threads : ThreadInv(s)'
  BY <1>2, <1>3 DEF ThreadInv, IdleThread, EarlyPCs, SearchPCs
<1> QED
  BY <1>4, <1>5, <1>6, <1>7, <1>8, <1>9

-----------------------------------------------------------------------------
(* The tuning threads *)

\* A step of the one thread that searches, which goes on as r: the other threads
\* are idle and forgotten, so that only its own part has to be shown.
LEMMA ThreadFrame ==
    ASSUME IInv, NEW t \in Threads, Alive(t), NEW r \in ThreadType, r.pc # "idle",
           ThreadBecomes(t, r), MainUnchanged, UNCHANGED isTuning,
           file' \in Nat, written' \in Seq(Nat), Numbering',
           ThreadInv(t)'
    PROVE  IInv'
<1>1. th'[t] = r /\ \A s \in Threads \ {t} : th'[s] = th[s] /\ th[s].pc = "idle"
  BY DEF IInv, Types, SearchTypes, Handover, ThreadBecomes, Alive
<1>2. Types'
  BY DEF IInv, Types, SimTypes, MainTypes, SearchTypes, ThreadBecomes, MainUnchanged, simVars
<1>3. Handover'
  BY <1>1 DEF IInv, Handover, Alive, MainUnchanged
<1>4. ASSUME NEW s \in Threads \ {t} PROVE ThreadInv(s)'
  <2>1. th[s].pc = "idle" /\ th[s].seen = {}
    BY <1>1 DEF IInv, ThreadInv
  <2> QED
    BY <1>1, <2>1 DEF ThreadInv, EarlyPCs, SearchPCs
<1> QED
  BY <1>2, <1>3, <1>4 DEF IInv

\* The same for a step that leaves parameter.txt alone.
LEMMA QuietFrame ==
    ASSUME IInv, NEW t \in Threads, Alive(t), NEW r \in ThreadType, r.pc # "idle",
           ThreadBecomes(t, r), MainUnchanged, UNCHANGED <<file, written, isTuning>>,
           ThreadInv(t)'
    PROVE  IInv'
<1>1. file' \in Nat /\ written' \in Seq(Nat) /\ Numbering'
  BY DEF IInv, Types, SearchTypes, Numbering, MainUnchanged, simVars
<1> QED
  BY <1>1, ThreadFrame

\* A tuning thread begins; the first one waits for an interval more.
LEMMA BeginStep == ASSUME IInv, NEW t \in Threads, Begin(t) PROVE IInv'
<1>1. th[t] \in ThreadType /\ th[t].pc = "begin"
  BY DEF IInv, Types, SearchTypes, Begin, ThreadAt
<1> PICK n \in Int :
      ThreadBecomes(t, [th[t] EXCEPT !.trigger = "none", !.stop = n, !.pc = "baseline"])
  <2>1. th[t].stop \in Int
    BY <1>1 DEF ThreadType
  <2> QED
    BY <2>1, th[t].stop + 1 \in Int, th[t].stop + 0 \in Int DEF Begin
<1> DEFINE r == [th[t] EXCEPT !.trigger = "none", !.stop = n, !.pc = "baseline"]
<1>2. r \in ThreadType
  BY <1>1 DEF ThreadType, ThreadPCs, EarlyPCs, Triggers
<1>3. r.pc = "baseline" /\ r.round = th[t].round /\ r.seen = th[t].seen
  BY <1>1 DEF ThreadType
<1>4. th'[t] = r
  BY DEF IInv, Types, SearchTypes, ThreadBecomes
<1> HIDE DEF r
<1>5. ThreadInv(t)'
  BY <1>1, <1>3, <1>4 DEF IInv, ThreadInv, EarlyPCs, SearchPCs
<1> QED
  BY <1>1, <1>2, <1>3, <1>5, QuietFrame DEF Begin, Alive, r

\* The set in use is a known one.
LEMMA LoadType ==
    ASSUME IInv PROVE LoadCurrentParameters \in 1 .. Len(written) + 1
BY DEF IInv, Types, SearchTypes, Numbering, LoadCurrentParameters, Empty, DefaultSet

\* A tuning thread measures the parameters that are in place.
LEMMA BaselineStep == ASSUME IInv, NEW t \in Threads, Baseline(t) PROVE IInv'
<1> DEFINE base == LoadCurrentParameters
           r(v) == [th[t] EXCEPT !.cur = base, !.curVal = v, !.best = base, !.bestVal = v,
                                 !.seen = {<<base, v>>}, !.new = DefaultSet, !.pc = "open"]
<1>1. th[t] \in ThreadType /\ th[t].pc = "baseline"
  BY DEF IInv, Types, SearchTypes, Baseline, ThreadAt
<1>2. base \in 1 .. Len(written) + 1 /\ Len(written) \in Nat
  BY LoadType DEF IInv, Types, SearchTypes
<1>3. PICK v \in Utilities : ThreadBecomes(t, r(v))
  BY DEF Baseline
<1> HIDE DEF base
<1>4. v \in Int
  BY TuningAssumption
<1>5. r(v) \in ThreadType
  <2>1. base \in Nat /\ {<<base, v>>} \in SUBSET (Nat \X Int)
    BY <1>2, <1>4
  <2> QED
    BY <1>1, <1>4, <2>1 DEF ThreadType, ThreadPCs, SearchPCs, DefaultSet
<1>6. /\ r(v).cur = base /\ r(v).curVal = v /\ r(v).best = base /\ r(v).bestVal = v
      /\ r(v).seen = {<<base, v>>} /\ r(v).new = 1 /\ r(v).pc = "open"
      /\ r(v).round = th[t].round
  BY <1>1 DEF ThreadType, DefaultSet
<1>7. th'[t] = r(v)
  BY <1>3 DEF IInv, Types, SearchTypes, ThreadBecomes
<1> HIDE DEF r
<1>8. th[t].round = 0
  BY <1>1 DEF IInv, ThreadInv, EarlyPCs
<1>9. Searching(r(v), Len(written))
  BY <1>2, <1>4, <1>6, <1>8, TuningAssumption DEF Searching, BestIn
<1>10. ThreadInv(t)'
  BY <1>6, <1>7, <1>9 DEF Baseline, ThreadInv, EarlyPCs, SearchPCs
<1> QED
  BY <1>1, <1>3, <1>5, <1>6, <1>10, QuietFrame DEF Baseline, Alive

\* Another write does not disturb a search.
LEMMA SearchingGrows ==
    ASSUME NEW r, NEW n \in Nat, Searching(r, n)
    PROVE  Searching(r, n + 1)
BY DEF Searching

\* Opening truncates the file; no thread has its best set in place meanwhile.
\* Closing stores the candidate or, after the last round, the best set.
LEMMA WriteCandidateStep == ASSUME IInv, NEW t \in Threads, WriteCandidate(t) PROVE IInv'
<1>1. th[t] \in ThreadType /\ th[t].pc \in {"open", "close"} /\ Len(written) \in Nat
  BY DEF IInv, Types, SearchTypes, WriteCandidate, ThreadAt
<1>2. Searching(th[t], Len(written))
  BY <1>1 DEF IInv, ThreadInv, SearchPCs
<1>3. UNCHANGED <<hosts, ecn, isTuning>> /\ MainUnchanged
  BY DEF WriteCandidate, MainUnchanged, simVars
<1>4. Alive(t)
  BY <1>1 DEF Alive
<1>5. CASE OpenForWriting /\ ThreadBecomes(t, [th[t] EXCEPT !.pc = "close"]) /\ ThreadAt(t, "open")
  <2> DEFINE r == [th[t] EXCEPT !.pc = "close"]
  <2>1. r \in ThreadType /\ r.pc = "close"
    BY <1>1 DEF ThreadType, ThreadPCs, SearchPCs
  <2>2. th'[t] = r /\ written' = written
    BY <1>5 DEF IInv, Types, SearchTypes, ThreadBecomes, OpenForWriting
  <2>3. Searching(r, Len(written))
    BY <1>1, <1>2, <1>5 DEF Searching, BestIn, ThreadType, ThreadAt
  <2> HIDE DEF r
  <2>4. ThreadInv(t)'
    BY <2>1, <2>2, <2>3 DEF ThreadInv, EarlyPCs, SearchPCs
  <2>5. file' \in Nat /\ written' \in Seq(Nat) /\ Numbering'
    BY <1>3, <1>5, OpenNumbering DEF IInv
  <2> QED
    BY <1>3, <1>4, <1>5, <2>1, <2>4, <2>5, ThreadFrame DEF r
<1>6. CASE /\ ThreadAt(t, "close") /\ CloseWith(th[t].new)
           /\ ThreadBecomes(t,
                CASE th[t].round < Rounds -> [th[t] EXCEPT !.pc = "wait"]
                  [] th[t].round = Rounds -> WriteBest(t)
                  [] OTHER -> [th[t] EXCEPT !.pc = "clear"])
  <2>1. /\ file' \in Nat /\ written' \in Seq(Nat) /\ Numbering'
        /\ Len(written') = Len(written) + 1
        /\ file' # Empty /\ written'[file'] = th[t].new
    BY <1>2, <1>3, <1>6, CloseNumbering DEF IInv, Searching
  <2>2. ASSUME NEW r \in ThreadType, ThreadBecomes(t, r), Searching(r, Len(written)),
               r.pc \in {"wait", "open", "clear"}, r.pc = "clear" => r.best = th[t].new
        PROVE  IInv'
    <3>1. th'[t] = r
      BY <2>2 DEF IInv, Types, SearchTypes, ThreadBecomes
    <3>2. Searching(r, Len(written'))
      BY <1>1, <2>1, <2>2, SearchingGrows
    <3>3. InPlace(r)' <=> r.best = th[t].new
      BY <2>1, <3>1 DEF InPlace
    <3>4. ThreadInv(t)'
      BY <2>2, <3>1, <3>2, <2>1 DEF ThreadInv, InPlace, EarlyPCs, SearchPCs
    <3> QED
      BY <1>3, <1>4, <2>1, <2>2, <3>4, ThreadFrame
  <2>6. th[t].round \in Nat /\ Rounds \in Nat
    BY <1>1, TuningAssumption DEF ThreadType
  <2>3. CASE th[t].round < Rounds
    <3> DEFINE r == [th[t] EXCEPT !.pc = "wait"]
    <3>1. ThreadBecomes(t, r)
      BY <1>6, <2>3, <2>6
    <3>2. r \in ThreadType /\ r.pc = "wait"
      BY <1>1 DEF ThreadType, ThreadPCs, SearchPCs
    <3>3. Searching(r, Len(written))
      BY <1>1, <1>2, <2>3 DEF Searching, BestIn, ThreadType
    <3> QED
      BY <3>1, <3>2, <3>3, <2>2
  <2>4. CASE th[t].round = Rounds
    <3>1. ThreadBecomes(t, WriteBest(t))
      BY <1>6, <2>4, <2>6
    <3>2. WriteBest(t) \in ThreadType /\ WriteBest(t).pc = "open"
      <4>1. th[t].best \in Nat /\ th[t].round + 1 \in Nat
        BY <1>1 DEF ThreadType
      <4> QED
        BY <1>1, <4>1 DEF WriteBest, ThreadType, ThreadPCs, SearchPCs
    <3>3. Searching(WriteBest(t), Len(written))
      BY <1>1, <1>2, <2>4 DEF WriteBest, Searching, BestIn, ThreadType
    <3> QED
      BY <3>1, <3>2, <3>3, <2>2
  <2>5. CASE th[t].round = Rounds + 1 /\ th[t].new = th[t].best
    <3> DEFINE r == [th[t] EXCEPT !.pc = "clear"]
    <3>1. ThreadBecomes(t, r)
      BY <1>6, <2>5, <2>6
    <3>2. r \in ThreadType /\ r.pc = "clear" /\ r.best = th[t].best
      BY <1>1 DEF ThreadType, ThreadPCs, SearchPCs
    <3>3. Searching(r, Len(written))
      BY <1>1, <1>2, <2>5 DEF Searching, BestIn, ThreadType
    <3> QED
      BY <3>1, <3>2, <3>3, <2>2, <2>5
  <2> QED
    BY <1>1, <1>2, <2>3, <2>4, <2>5, <2>6 DEF Searching
<1> QED
  BY <1>5, <1>6 DEF WriteCandidate

\* A step of a searching thread to r that leaves the file alone and does not end
\* the search.
LEMMA SearchingStep ==
    ASSUME IInv, NEW t \in Threads, Alive(t), NEW r \in ThreadType,
           r.pc \in SearchPCs \ {"clear"}, Searching(r, Len(written)),
           ThreadBecomes(t, r), MainUnchanged, UNCHANGED <<file, written, isTuning>>
    PROVE  IInv'
<1>1. th'[t] = r
  BY DEF IInv, Types, SearchTypes, ThreadBecomes
<1>2. ThreadInv(t)'
  BY <1>1 DEF ThreadInv, EarlyPCs, SearchPCs
<1> QED
  BY <1>2, QuietFrame DEF SearchPCs

\* A tuning thread finds a snapshot from after the end of its round.
LEMMA WaitForSnapshotStep == ASSUME IInv, NEW t \in Threads, WaitForSnapshot(t) PROVE IInv'
<1> DEFINE r == [th[t] EXCEPT !.stop = @ + 1, !.pc = "evaluate"]
<1>1. th[t] \in ThreadType /\ th[t].pc = "wait"
  BY DEF IInv, Types, SearchTypes, WaitForSnapshot, ThreadAt
<1>2. Searching(th[t], Len(written))
  BY <1>1 DEF IInv, ThreadInv, SearchPCs
<1>3. r \in ThreadType /\ r.pc = "evaluate"
  <2>1. th[t].stop + 1 \in Int
    BY <1>1 DEF ThreadType
  <2> QED
    BY <1>1, <2>1 DEF ThreadType, ThreadPCs, SearchPCs
<1>4. Searching(r, Len(written))
  BY <1>1, <1>2 DEF Searching, BestIn, ThreadType
<1>5. ThreadBecomes(t, r)
  BY DEF WaitForSnapshot
<1> QED
  BY <1>1, <1>3, <1>4, <1>5, SearchingStep DEF WaitForSnapshot, Alive, SearchPCs

\* A tuning thread looks at the counts of flows that it will divide by.
LEMMA CheckRatioStep == ASSUME IInv, NEW t \in Threads, CheckRatio(t) PROVE IInv'
<1>1. th[t] \in ThreadType /\ th[t].pc = "check"
  BY DEF IInv, Types, SearchTypes, CheckRatio, ThreadAt
<1>2. Searching(th[t], Len(written))
  BY <1>1 DEF IInv, ThreadInv, SearchPCs
<1>3. PICK p \in {"useCurrent", "usePrevious"} : ThreadBecomes(t, [th[t] EXCEPT !.pc = p])
  BY DEF CheckRatio
<1> DEFINE r == [th[t] EXCEPT !.pc = p]
<1>4. r \in ThreadType /\ r.pc = p
  BY <1>1 DEF ThreadType, ThreadPCs, SearchPCs
<1>5. Searching(r, Len(written))
  BY <1>1, <1>2 DEF Searching, BestIn, ThreadType
<1> QED
  BY <1>1, <1>3, <1>4, <1>5, SearchingStep DEF CheckRatio, Alive, SearchPCs

\* The best of what was measured so far stays the best when the accepted set is
\* compared with it.
LEMMA UpdateBestSearching ==
    ASSUME NEW q \in ThreadType, NEW n \in Nat, q.pc = "check", q.round <= Rounds,
           q.best \in 1 .. n + 1, q.cur \in 1 .. n + 1, q.new \in 1 .. n + 1,
           <<q.best, q.bestVal>> \in q.seen,
           q.curVal > q.bestVal => <<q.cur, q.curVal>> \in q.seen,
           \A m \in q.seen : m[2] <= q.bestVal \/ m[2] <= q.curVal
    PROVE  /\ UpdateBest(q) \in ThreadType /\ UpdateBest(q).pc = "check"
           /\ Searching(UpdateBest(q), n)
<1>1. q.curVal \in Int /\ q.bestVal \in Int /\ q.cur \in Nat /\ q.seen \in SUBSET (Nat \X Int)
  BY DEF ThreadType
<1>2. \A m \in q.seen : m[2] \in Int
  BY <1>1
<1>3. CASE q.curVal > q.bestVal
  <2> DEFINE r == [q EXCEPT !.best = q.cur, !.bestVal = q.curVal]
  <2>1. UpdateBest(q) = r
    BY <1>3 DEF UpdateBest
  <2>2. /\ r.best = q.cur /\ r.bestVal = q.curVal /\ r.cur = q.cur /\ r.curVal = q.curVal
        /\ r.new = q.new /\ r.seen = q.seen /\ r.pc = "check" /\ r.round = q.round
    BY DEF ThreadType
  <2>3. r \in ThreadType
    BY <1>1 DEF ThreadType
  <2> HIDE DEF r
  <2>4. \A m \in q.seen : m[2] <= q.curVal
    BY <1>1, <1>2, <1>3
  <2>5. Searching(r, n)
    BY <1>1, <1>3, <2>2, <2>4 DEF Searching, BestIn
  <2> QED
    BY <2>1, <2>2, <2>3, <2>5
<1>4. CASE ~(q.curVal > q.bestVal)
  <2>1. UpdateBest(q) = q
    BY <1>4 DEF UpdateBest
  <2>2. q.curVal <= q.bestVal /\ \A m \in q.seen : m[2] <= q.bestVal
    BY <1>1, <1>2, <1>4
  <2> QED
    BY <2>1, <2>2 DEF Searching, BestIn
<1> QED
  BY <1>3, <1>4

\* A measured candidate that is accepted and better than the best becomes the
\* best; one that is not accepted is worse than the current one, hence no better.
LEMMA EvaluateStep == ASSUME IInv, NEW t \in Threads, Evaluate(t) PROVE IInv'
<1>1. th[t] \in ThreadType /\ th[t].pc = "evaluate" /\ Len(written) \in Nat
  BY DEF IInv, Types, SearchTypes, Evaluate, ThreadAt
<1>2. Searching(th[t], Len(written))
  BY <1>1 DEF IInv, ThreadInv, SearchPCs
<1> DEFINE r(v) == [th[t] EXCEPT !.seen = @ \cup {<<th[t].new, v>>},
                                 !.round = @ + 1, !.pc = "check"]
           a(v) == [r(v) EXCEPT !.cur = r(v).new, !.curVal = v]
<1>3. PICK v \in Utilities, lucky \in BOOLEAN :
        ThreadBecomes(t, UpdateBest(IF v >= r(v).curVal \/ lucky THEN a(v) ELSE r(v)))
  BY DEF Evaluate
<1>4. /\ v \in Int /\ th[t].new \in Nat /\ th[t].round + 1 \in Nat
      /\ th[t].curVal \in Int /\ th[t].bestVal \in Int
      /\ th[t].seen \cup {<<th[t].new, v>>} \in SUBSET (Nat \X Int)
  <2> HIDE DEF r, a
  <2>1. v \in Int
    BY TuningAssumption
  <2>2. /\ th[t].new \in Nat /\ th[t].round \in Nat /\ th[t].curVal \in Int
        /\ th[t].bestVal \in Int /\ th[t].seen \in SUBSET (Nat \X Int)
    BY <1>1 DEF ThreadType
  <2>3. th[t].round + 1 \in Nat
    BY <2>2
  <2>4. th[t].seen \cup {<<th[t].new, v>>} \in SUBSET (Nat \X Int)
    BY <2>1, <2>2
  <2> QED BY <2>1, <2>2, <2>3, <2>4
<1>5. r(v) \in ThreadType
  BY <1>1, <1>4 DEF ThreadType, ThreadPCs, SearchPCs
<1>6. /\ r(v).seen = th[t].seen \cup {<<th[t].new, v>>}
      /\ r(v).round = th[t].round + 1 /\ r(v).pc = "check" /\ r(v).new = th[t].new
      /\ r(v).cur = th[t].cur /\ r(v).curVal = th[t].curVal
      /\ r(v).best = th[t].best /\ r(v).bestVal = th[t].bestVal
  BY <1>1 DEF ThreadType
<1> HIDE DEF r
<1>7. a(v) \in ThreadType
  BY <1>4, <1>5, <1>6 DEF ThreadType
<1>8. /\ a(v).seen = r(v).seen /\ a(v).round = r(v).round /\ a(v).pc = "check"
      /\ a(v).new = th[t].new /\ a(v).cur = th[t].new /\ a(v).curVal = v
      /\ a(v).best = th[t].best /\ a(v).bestVal = th[t].bestVal
  BY <1>5, <1>6 DEF ThreadType
<1> HIDE DEF a
<1>9. /\ <<th[t].best, th[t].bestVal>> \in r(v).seen /\ <<th[t].new, v>> \in r(v).seen
      /\ \A m \in r(v).seen : m[2] <= th[t].bestVal \/ m[2] = v
      /\ th[t].round + 1 <= Rounds /\ th[t].curVal <= th[t].bestVal
  BY <1>1, <1>2, <1>4, <1>6, TuningAssumption DEF Searching, BestIn, ThreadType
<1>10. ASSUME NEW q, q = a(v) \/ (q = r(v) /\ v < th[t].curVal),
              ThreadBecomes(t, UpdateBest(q))
       PROVE  IInv'
  <2>1. \A m \in r(v).seen : m[2] \in Int
    BY <1>5 DEF ThreadType
  <2>2. CASE q = a(v)
    <3>1. /\ q \in ThreadType /\ q.pc = "check" /\ q.round <= Rounds
          /\ q.best \in 1 .. Len(written) + 1 /\ q.cur \in 1 .. Len(written) + 1
          /\ q.new \in 1 .. Len(written) + 1
      BY <1>2, <1>6, <1>7, <1>8, <1>9, <2>2 DEF Searching
    <3>2. /\ <<q.best, q.bestVal>> \in q.seen /\ <<q.cur, q.curVal>> \in q.seen
          /\ \A m \in q.seen : m[2] <= q.bestVal \/ m[2] <= q.curVal
      BY <1>4, <1>8, <1>9, <2>1, <2>2
    <3>3. UpdateBest(q) \in ThreadType /\ UpdateBest(q).pc = "check"
          /\ Searching(UpdateBest(q), Len(written))
      BY <1>1, <3>1, <3>2, UpdateBestSearching
    <3> QED
      BY <1>1, <1>10, <3>3, SearchingStep DEF Evaluate, Alive, SearchPCs
  <2>3. CASE q = r(v) /\ v < th[t].curVal
    <3>1. /\ q \in ThreadType /\ q.pc = "check" /\ q.round <= Rounds
          /\ q.best \in 1 .. Len(written) + 1 /\ q.cur \in 1 .. Len(written) + 1
          /\ q.new \in 1 .. Len(written) + 1
      BY <1>2, <1>5, <1>6, <1>9, <2>3 DEF Searching
    <3>2. /\ <<q.best, q.bestVal>> \in q.seen /\ ~(q.curVal > q.bestVal)
          /\ \A m \in q.seen : m[2] <= q.bestVal
      BY <1>4, <1>6, <1>9, <1>10, <2>1, <2>3
    <3>3. UpdateBest(q) \in ThreadType /\ UpdateBest(q).pc = "check"
          /\ Searching(UpdateBest(q), Len(written))
      BY <1>1, <3>1, <3>2, UpdateBestSearching
    <3> QED
      BY <1>1, <1>10, <3>3, SearchingStep DEF Evaluate, Alive, SearchPCs
  <2> QED
    BY <1>10, <2>2, <2>3
<1>11. CASE v >= r(v).curVal \/ lucky
  BY <1>3, <1>10, <1>11
<1>12. CASE ~(v >= r(v).curVal \/ lucky)
  BY <1>3, <1>4, <1>6, <1>10, <1>12
<1> QED
  BY <1>11, <1>12

\* The next candidate is new.  An exception ends the thread, which stays alive
\* for the flag: nothing clears it.
LEMMA UseRatioStep == ASSUME IInv, NEW t \in Threads, UseRatio(t) PROVE IInv'
<1>1. th[t] \in ThreadType /\ th[t].pc \in {"useCurrent", "usePrevious"} /\ Len(written) \in Nat
  BY DEF IInv, Types, SearchTypes, UseRatio, ThreadAt
<1>2. Searching(th[t], Len(written))
  BY <1>1 DEF IInv, ThreadInv, SearchPCs
<1>3. CASE ThreadBecomes(t, [IdleThread EXCEPT !.pc = "dead"])
  <2> DEFINE r == [IdleThread EXCEPT !.pc = "dead"]
  <2>1. r \in ThreadType /\ r.pc = "dead" /\ r.seen = {}
    BY DEF IdleThread, ThreadType, ThreadPCs, Triggers
  <2>2. th'[t] = r
    BY <1>3 DEF IInv, Types, SearchTypes, ThreadBecomes
  <2> HIDE DEF r
  <2>3. ThreadInv(t)'
    BY <2>1, <2>2 DEF ThreadInv, EarlyPCs, SearchPCs
  <2> QED
    BY <1>1, <1>3, <2>1, <2>3, QuietFrame DEF UseRatio, Alive, r
<1>4. CASE ThreadBecomes(t, [th[t] EXCEPT !.new = Len(written) + 1, !.pc = "open"])
  <2> DEFINE r == [th[t] EXCEPT !.new = Len(written) + 1, !.pc = "open"]
  <2>1. r \in ThreadType /\ r.pc = "open"
    <3>1. Len(written) + 1 \in Nat
      BY <1>1
    <3> QED
      BY <1>1, <3>1 DEF ThreadType, ThreadPCs, SearchPCs
  <2>2. Searching(r, Len(written))
    BY <1>1, <1>2 DEF Searching, BestIn, ThreadType
  <2> QED
    BY <1>1, <1>4, <2>1, <2>2, SearchingStep DEF UseRatio, Alive, SearchPCs
<1> QED
  BY <1>3, <1>4 DEF UseRatio, Direct

\* The thread leaves with its best set in place and takes the flag along.
LEMMA ClearFlagStep == ASSUME IInv, NEW t \in Threads, ClearFlag(t) PROVE IInv'
<1> DEFINE r == [IdleThread EXCEPT !.best = th[t].best, !.bestVal = th[t].bestVal,
                                   !.seen = th[t].seen]
<1>1. th[t] \in ThreadType /\ th[t].pc = "clear"
  BY DEF IInv, Types, SearchTypes, ClearFlag, ThreadAt
<1>2. BestIn(th[t]) /\ InPlace(th[t])
  BY <1>1 DEF IInv, ThreadInv, Searching, SearchPCs
<1>3. \A s \in Threads \ {t} : th[s].pc = "idle" /\ th[s].seen = {}
  BY <1>1 DEF IInv, Handover, Alive, ThreadInv
<1>4. /\ r.best = th[t].best /\ r.bestVal = th[t].bestVal /\ r.seen = th[t].seen
      /\ r.pc = "idle"
  BY DEF IdleThread
<1>5. r \in ThreadType
  <2>1. th[t].best \in Nat /\ th[t].bestVal \in Int /\ th[t].seen \in SUBSET (Nat \X Int)
    BY <1>1 DEF ThreadType
  <2>2. IdleThread \in ThreadType
    BY DEF IdleThread, ThreadType, ThreadPCs, Triggers
  <2>3. ASSUME NEW i \in ThreadType
        PROVE  [i EXCEPT !.best = th[t].best, !.bestVal = th[t].bestVal,
                         !.seen = th[t].seen] \in ThreadType
    BY <2>1 DEF ThreadType
  <2> QED
    BY <2>2, <2>3
<1>6. th'[t] = r /\ \A s \in Threads \ {t} : th'[s] = th[s]
  BY DEF IInv, Types, SearchTypes, ClearFlag, ThreadBecomes
<1>7. th' \in [Threads -> ThreadType]
  BY <1>5 DEF IInv, Types, SearchTypes, ClearFlag, ThreadBecomes
<1> HIDE DEF r
<1>8. Types' /\ Numbering'
  BY <1>7 DEF IInv, Types, SimTypes, MainTypes, SearchTypes, Numbering, ClearFlag,
     MainUnchanged, simVars
<1>9. \A s \in Threads : th'[s].pc = "idle"
  BY <1>3, <1>4, <1>6
<1>10. main.pc # "spawn" /\ ~(main.pc \in {"initOpen", "initClose"})
  BY <1>1 DEF IInv, Handover, Alive
<1>11. Handover'
  BY <1>9, <1>10 DEF IInv, Handover, Alive, ClearFlag, MainUnchanged
<1>12. ThreadInv(t)'
  BY <1>2, <1>4, <1>6, <1>9 DEF ThreadInv, BestIn, InPlace, Alive, ClearFlag, EarlyPCs, SearchPCs
<1>13. ASSUME NEW s \in Threads \ {t} PROVE ThreadInv(s)'
  BY <1>3, <1>6 DEF ThreadInv, EarlyPCs, SearchPCs
<1> QED
  BY <1>8, <1>11, <1>12, <1>13 DEF IInv

-----------------------------------------------------------------------------
(* Theorems *)

\* Every step of the two processes keeps the invariant.
LEMMA NextIInv == IInv /\ [Next]_vars => IInv'
<1> SUFFICES ASSUME IInv, [Next]_vars PROVE IInv'
  OBVIOUS
<1>1. CASE MonitorBuffer \/ MonitorHostFlowReport \/ ReloadParameters
  BY <1>1, SimulatorStep
<1>2. CASE InitialWrite
  BY <1>2, InitialWriteStep
<1>3. CASE Poll
  BY <1>3, PollStep
<1>4. CASE LoadObservation
  BY <1>4, LoadObservationStep
<1>5. CASE WaitForMonitorSnapshots
  BY <1>5, WaitForMonitorSnapshotsStep
<1>6. CASE SetFlag
  BY <1>6, SetFlagStep
<1>7. CASE StartThread
  BY <1>7, StartThreadStep
<1>8. CASE KeepAndReset
  BY <1>8, KeepAndResetStep
<1>9. ASSUME NEW t \in Threads,
             \/ Begin(t) \/ Baseline(t) \/ WriteCandidate(t) \/ WaitForSnapshot(t)
             \/ Evaluate(t) \/ CheckRatio(t) \/ UseRatio(t) \/ ClearFlag(t)
      PROVE  IInv'
  BY <1>9, BeginStep, BaselineStep, WriteCandidateStep, WaitForSnapshotStep, EvaluateStep,
     CheckRatioStep, UseRatioStep, ClearFlagStep
<1>10. CASE UNCHANGED vars
  <2>1. UNCHANGED <<simVars, file, written, main, isTuning, curRatio, prevRatio, th>>
    BY <1>10 DEF vars
  <2>2. MainTypes' /\ Handover'
    BY <2>1 DEF IInv, Types, MainTypes, Handover, Alive
  <2> QED
    BY <2>1, <2>2, MainFrame
<1> QED
  BY <1>1, <1>2, <1>3, <1>4, <1>5, <1>6, <1>7, <1>8, <1>9, <1>10 DEF Next

\* The invariant holds in every reachable state.
THEOREM Invariance == Spec => []IInv
BY InitIInv, NextIInv, PTL DEF Spec

\* Type correctness of the files, flags and counts.
TypeOK ==
    /\ file \in 0 .. Len(written) /\ hosts \in 0 .. Len(written)
    /\ ecn \in 0 .. Len(written)
    /\ rtt \in 0 .. MaxTime /\ rate \in 0 .. MaxTime
    /\ \A i \in 1 .. Len(written) : written[i] \in 1 .. i
    /\ curRatio \in [large : Nat, small : Nat]
    /\ prevRatio \in [large : Int, small : Int]
    /\ isTuning \in BOOLEAN

\* Whatever the two processes do to the files, every number in them refers to a
\* write that happened, and the counts stay counts.
THEOREM TypeCorrect == Spec => []TypeOK
<1>1. IInv => TypeOK
  BY DEF IInv, Types, SimTypes, MainTypes, SearchTypes, Numbering, TypeOK, Counts
<1> QED
  BY <1>1, Invariance, PTL

\* is_tuning is set exactly while a thread is about to start, runs or has died,
\* for any number of threads.
THEOREM HonestFlag == Spec => []FlagIsHonest
<1>1. IInv => FlagIsHonest
  BY DEF IInv, Handover, FlagIsHonest
<1> QED
  BY <1>1, Invariance, PTL

\* Two tuning threads are never alive together, although the main loop decides
\* to start one long before it sets the flag.
THEOREM SingleTuner == Spec => []OneTuner
<1>1. ASSUME IInv PROVE OneTuner
  <2> DEFINE A == {t \in Threads : Alive(t)}
  <2>1. CASE A = {}
    BY <2>1, FS_EmptySet DEF OneTuner
  <2>2. CASE A # {}
    <3>1. PICK t \in Threads : Alive(t)
      BY <2>2
    <3>2. A = {t}
      BY <1>1, <3>1 DEF IInv, Handover
    <3> QED
      BY <3>2, FS_Singleton DEF OneTuner
  <2> QED
    BY <2>1, <2>2
<1> QED
  BY <1>1, Invariance, PTL

\* However many rounds a search has, whatever it measures and whichever worse
\* candidates it accepts, parameter.txt holds a best measured set when it ends.
THEOREM BestInPlace == Spec => []EndsWithBest
<1>1. ASSUME IInv, NEW t \in Threads, ~isTuning, th[t].seen # {}
      PROVE  /\ file # Empty
             /\ \A m \in th[t].seen :
                   \E b \in th[t].seen : b[1] = written[file] /\ b[2] >= m[2]
  <2>1. th[t].pc = "idle"
    BY <1>1 DEF IInv, Handover, Alive
  <2>2. BestIn(th[t]) /\ InPlace(th[t])
    BY <1>1, <2>1 DEF IInv, ThreadInv
  <2>3. th[t] \in ThreadType
    BY <1>1 DEF IInv, Types, SearchTypes
  <2>4. th[t].bestVal \in Int /\ \A m \in th[t].seen : m[2] \in Int
    BY <2>3 DEF ThreadType
  <2>5. ASSUME NEW m \in th[t].seen
        PROVE  \E b \in th[t].seen : b[1] = written[file] /\ b[2] >= m[2]
    <3>1. <<th[t].best, th[t].bestVal>>[1] = written[file]
          /\ <<th[t].best, th[t].bestVal>>[2] >= m[2]
      BY <2>2, <2>4 DEF BestIn, InPlace
    <3> QED
      BY <2>2, <3>1 DEF BestIn
  <2> QED
    BY <2>2, <2>5 DEF InPlace
<1>2. IInv => EndsWithBest
  BY <1>1 DEF EndsWithBest
<1> QED
  BY <1>2, Invariance, PTL

=============================================================================
