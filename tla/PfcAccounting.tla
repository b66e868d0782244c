---------------------------- MODULE PfcAccounting ----------------------------
(***************************************************************************)
(* How the tuner counts paused links: scratch/third.cc appends a row to    *)
(* pfc.txt for every PFC frame that a device receives, and scratch/        *)
(* tuning.py reads the file again and again, for the cycle summary of the  *)
(* monitor ("observe") and for the rounds of a search ("tune").  Each      *)
(* reader keeps its line and the links that are paused there.              *)
(*                                                                         *)
(* The stream of pfc.txt is only flushed when its buffer is full: rows     *)
(* become visible late, and the last visible one may be cut.  A row that   *)
(* lacks a column is dropped by dropna; one that is cut within pfc_type    *)
(* counts as a row of no known type.                                       *)
(*                                                                         *)
(* Time counts monitor instants; a link carries one lossless class, as in  *)
(* the configurations of the repository.                                   *)
(***************************************************************************)
EXTENDS Integers, Sequences, FiniteSets

CONSTANTS
    Links,      \* (node_id, if_index)
    Period,     \* monitor interval: reports carry multiples of it
    Window,     \* t_tune, the length of a round
    MaxTime,    \* bound: simulated time
    MaxRows,    \* bound: rows of pfc.txt
    MaxReads    \* bound: times that pfc.txt is read

ASSUME PfcAssumption ==
    /\ {Period, Window} \subseteq Nat \ {0} /\ {MaxTime, MaxRows, MaxReads} \subseteq Nat

VARIABLES
    now,       \* simulated time
    rows,      \* what get_pfc has written
    visible,   \* rows in the file, the last one perhaps cut
    cut,       \* pfc_type of the last visible row is incomplete
    reader,    \* the two readers
    reads      \* times that pfc.txt was read

pfcVars == <<now, rows, visible, cut, reader, reads>>

Readers == {"observe", "tune"}
Pause == 20000
Resume == 10000
Unknown == 2000

\* line and links are pfc_start_line and pfc_active_links (or their namesakes
\* of the observation); stop is the end of the last window, counted the links
\* found in it.  History: upto is the number of rows the window should have taken
\* in and from that of the window before, misread the links whose last row was
\* read cut, top the latest stop, exact whether the window follows the one
\* before, and both were read in full and in order.
FreshReader ==
    [line |-> 0, links |-> {}, stop |-> 0, counted |-> {},
     from |-> 0, upto |-> 0, top |-> 0, misread |-> {}, whole |-> TRUE,
     exact |-> TRUE]

PfcInit ==
    /\ now = 0 /\ rows = <<>> /\ visible = 0 /\ cut = FALSE
    /\ reader = [r \in Readers |-> FreshReader] /\ reads = 0

-----------------------------------------------------------------------------
(* The simulator *)

\* Links that are paused after the first n rows.
Paused(n) ==
    {l \in Links : \E i \in 1 .. n : /\ rows[i].link = l /\ rows[i].type = Pause
                                     /\ \A j \in i + 1 .. n : rows[j].link # l}

Tick == now < MaxTime /\ now' = now + 1 /\ UNCHANGED <<rows, visible, cut, reader, reads>>

\* QbbNetDevice::Receive of a PFC frame; a switch sends PAUSE and RESUME in turn.
GetPfc(l) ==
    /\ Len(rows) < MaxRows /\ now > 0
    /\ rows' = Append(rows, [time |-> now, link |-> l,
                             type |-> IF l \in Paused(Len(rows)) THEN Resume ELSE Pause])
    /\ UNCHANGED <<now, visible, cut, reader, reads>>

\* The buffer is written out, up to any byte.
Flush ==
    /\ \E n \in visible .. Len(rows), c \in BOOLEAN :
          /\ n > visible \/ (n = visible /\ cut /\ ~c)
          /\ visible' = n /\ cut' = c
    /\ UNCHANGED <<now, rows, reader, reads>>

-----------------------------------------------------------------------------
(* pfc_handling_with_state *)

Data == [i \in 1 .. visible |->
            IF cut /\ i = visible THEN [rows[i] EXCEPT !.type = Unknown] ELSE rows[i]]

\* The rows up to the first one after the window, which stays for the next.
Take(data, stop) == Cardinality({i \in DOMAIN data : data[i].time <= stop})

\* Mutation: a resume is not taken in.
ApplyPauses(links, row) == IF row.type = Pause THEN links \cup {row.link} ELSE links
Apply(links, row) ==
    CASE row.type = Pause -> links \cup {row.link}
      [] row.type = Resume -> links \ {row.link}
      [] OTHER -> links
Replay(links, rs) ==
    LET after[i \in 0 .. Len(rs)] ==
            IF i = 0 THEN links ELSE Apply(after[i - 1], rs[i])
    IN  after[Len(rs)]

\* Mutation: links that were paused before the window are not counted.
CountPauses(links, rs, start) ==
    {rs[i].link : i \in {j \in DOMAIN rs : rs[j].time >= start /\ rs[j].type = Pause}}
\* active_links_this_round: the links that were paused where the reader stood,
\* and those of the rows in the window that pause, or find their link paused.
Count(links, rs, start) ==
    links \cup {rs[i].link : i \in
        {j \in DOMAIN rs : /\ rs[j].time >= start
                           /\ \/ rs[j].type = Pause
                              \/ rs[j].link \in Replay(links, SubSeq(rs, 1, j - 1))}}

\* Links whose last row of rs was cut, or was before and no row of rs corrects it.
StillMisread(misread, rs) ==
    LET later(i) == {rs[j].link : j \in i + 1 .. Len(rs)}
    IN  (misread \ later(0)) \cup
        {rs[i].link : i \in {k \in DOMAIN rs : rs[k].type = Unknown /\ rs[k].link \notin later(k)}}

Read(r, start, stop) ==
    LET old == reader[r]
        end == IF Take(Data, stop) < old.line THEN old.line ELSE Take(Data, stop)
        rs == SubSeq(Data, old.line + 1, end)
        upto == Cardinality({i \in DOMAIN rows : rows[i].time <= stop})
        whole == upto < visible \/ (upto = visible /\ ~cut)
        misread == StillMisread(old.misread, rs)
    IN  /\ reads < MaxReads /\ reads' = reads + 1
        /\ reader' = [reader EXCEPT ![r] =
              [line |-> end, links |-> Replay(old.links, rs),
               counted |-> Count(old.links, rs, start), stop |-> stop,
               from |-> old.upto, upto |-> upto, misread |-> misread, whole |-> whole,
               top |-> IF stop > old.top THEN stop ELSE old.top,
               exact |-> /\ whole /\ old.whole /\ start = old.stop /\ start = old.top
                         /\ old.misread = {} /\ misread = {}]]

Max0(n) == IF n > 0 THEN n ELSE 0

\* collect_monitor_cycle_summary, for a report that is at least as new as the
\* last: reports may have been skipped, and one may be read twice.
Observe(t) ==
    /\ t % Period = 0 /\ t > 0 /\ t >= reader["observe"].stop /\ t <= now
    /\ Read("observe", Max0(t - Period), t)
    /\ UNCHANGED <<now, rows, visible, cut>>

\* A search first looks back one interval from the report that triggered it.
StartSearch(t) ==
    /\ t % Period = 0 /\ t > 0 /\ t <= now
    /\ Read("tune", t - Window, t)
    /\ UNCHANGED <<now, rows, visible, cut>>

\* The window of a round follows the last one; the wait has seen a snapshot
\* after its end.
NextRound ==
    /\ reader["tune"].stop > 0 /\ now > reader["tune"].stop + Window
    /\ Read("tune", reader["tune"].stop, reader["tune"].stop + Window)
    /\ UNCHANGED <<now, rows, visible, cut>>

PfcNext ==
    \/ Tick \/ Flush \/ NextRound
    \/ \E l \in Links : GetPfc(l)
    \/ \E t \in 1 .. MaxTime : Observe(t) \/ StartSearch(t)

PfcSpec == PfcInit /\ [][PfcNext]_pfcVars

-----------------------------------------------------------------------------
(* Properties *)

\* The links that a reader carries from window to window are those that are
\* paused at its line, however the windows lie, whichever rows came late and
\* although two readers go through the file at their own pace: no row is
\* skipped or taken twice.  Only a link whose last row was read before it was
\* complete may differ.
CarriedIsReplay ==
    \A r \in Readers : \A l \in Links \ reader[r].misread :
        l \in reader[r].links <=> l \in Paused(reader[r].line)

\* When windows follow each other and the file has all rows of them, the
\* links counted are those that were paused at some instant of the window.
CountIsExact ==
    \A r \in Readers : reader[r].exact =>
        reader[r].counted = Paused(reader[r].from) \cup
            {rows[i].link : i \in {j \in reader[r].from + 1 .. reader[r].upto :
                                      rows[j].type = Pause}}

=============================================================================
