-------------------------- MODULE MonitoringProofs ---------------------------
(***************************************************************************)
(* Theorems about the two files that the tuner reads while the simulator    *)
(* writes them: about FlowMonitor, for every number of flows, every size,  *)
(* start and slot, every chunk and threshold and any number of reports; and *)
(* about PfcAccounting, for any links, intervals and number of rows.       *)
(***************************************************************************)
EXTENDS FlowMonitor, PfcAccounting, CountingProofs, FiniteSetTheorems, SequenceTheorems, TLAPS

-----------------------------------------------------------------------------
(* The inductive invariant *)

Entries == [flow : Flows \cup {0}, completed : Nat, size : Nat, reported : Int,
            finished : BOOLEAN]
Rows == [flow : Flows, completed : Nat, size : Nat]
Contents == [time : Nat, rows : Seq(Rows), whole : BOOLEAN]

Types ==
    /\ idx \in 0 .. FlowNum /\ active \in Nat /\ stopped \in {"no", "finished", "time"}
    /\ qp \in [Flows -> {"waiting", "installed", "open", "done"}]
    /\ una \in [Flows -> Nat]
    /\ table \in [Slots -> Entries]
    /\ reports \in 0 .. MaxReports
    /\ out \in [time : Nat, rows : Seq(Rows)] /\ file \in Contents
    /\ tuner \in [pc : {"poll", "load"}, hash : Contents,
                  large : SUBSET Flows, small : SUBSET Flows]
    /\ final \in [Flows -> 0 .. 1] /\ lost \in SUBSET Flows

\* The flows of the file that wait are those after idx, and the counter counts
\* the ones that do not wait and have not finished.
Counted ==
    /\ \A f \in Flows : qp[f] = "waiting" <=> f > idx
    /\ active = Cardinality({f \in Flows : qp[f] \in {"installed", "open"}})

\* What a queue pair has acknowledged is its size when it is done, and less before.
Progress == \A f \in Flows : IF qp[f] = "done" THEN una[f] = Size[f] ELSE una[f] < Size[f]

\* An entry belongs to a queue pair of the slot that is open or done.  The value
\* last reported of an open one is not its size, so that it is reported again
\* when the queue pair is done; then it says whether that report was written.
EntryOK(e, s, Q, U, F) ==
    \/ e = NoEntry
    \/ /\ e.flow \in Flows /\ Slot[e.flow] = s /\ e.size = Size[e.flow]
       /\ \/ Q[e.flow] = "open" /\ ~e.finished /\ e.reported <= U[e.flow]
                                /\ e.completed <= U[e.flow]
          \/ /\ Q[e.flow] = "done" /\ e.finished /\ e.completed = Size[e.flow]
             /\ e.reported = e.completed <=> F[e.flow] = 1
TableOK == \A s \in Slots : EntryOK(table[s], s, qp, una, final)

\* A finished flow is on its way to its report, was in it, or is lost for good.
FinalOK(f) ==
    /\ qp[f] # "done" => final[f] = 0 /\ f \notin lost
    /\ f \in lost => /\ final[f] = 0 /\ table[Slot[f]].flow # f
                     /\ \E g \in Flows \ {f} : Slot[g] = Slot[f]
    /\ qp[f] = "done" /\ final[f] = 0 /\ f \notin lost =>
          table[Slot[f]].flow = f /\ table[Slot[f]].finished

\* The file grows while a report is written.
Writing ==
    out # NotWriting =>
        out.time = reports /\ ~file.whole /\ Len(file.rows) <= Len(out.rows)

\* What was hashed is no further than the file, and no content comes back.
HashOK ==
    /\ file.time <= reports /\ tuner.hash.time <= reports
    /\ tuner.hash.time = reports =>
          Len(tuner.hash.rows) <= Len(file.rows) /\ (tuner.hash.whole => file.whole)

IInv ==
    /\ Types /\ Counted /\ Progress /\ EndedByFlows
    /\ TableOK /\ \A f \in Flows : FinalOK(f)
    /\ Writing /\ ReportIsCurrent
    /\ HashOK /\ LatestReportCounted

-----------------------------------------------------------------------------
(* Lemmas about the operators *)

\* Slots and flows are finite sets of numbers, as FlowAssumption makes them.
LEMMA SlotFacts ==
    /\ FlowNum \in Nat /\ FlowNum > 0
    /\ Flows \subseteq Nat \ {0} /\ IsFiniteSet(Flows)
    /\ Slots \subseteq Nat /\ IsFiniteSet(Slots)
    /\ \A f \in Flows : Slot[f] \in Slots /\ Size[f] \in Nat /\ Size[f] > 0
<1>1. /\ FlowNum \in Nat /\ FlowNum > 0 /\ Flows \subseteq Nat \ {0}
      /\ \A f \in Flows : Slot[f] \in Slots /\ Size[f] \in Nat /\ Size[f] > 0
      /\ Slots \subseteq Nat
  BY FlowAssumption DEF Flows, Slots
<1>2. IsFiniteSet(Flows)
  BY <1>1, FS_Interval DEF Flows
<1>3. IsFiniteSet(Slots)
  <2>1. Slot \in Surjection(Flows, Slots)
    BY FlowAssumption DEF Surjection, Slots
  <2> QED BY <1>2, <2>1, FS_Surjection
<1> QED BY <1>1, <1>2, <1>3

\* ScheduleFlowInputs starts the next flows of the file up to some m: the flows
\* of one start time are next to each other.
LEMMA DueFlows ==
    ASSUME NEW i \in 0 .. FlowNum - 1
    PROVE  \E m \in i + 1 .. FlowNum :
              /\ {f \in Flows : f > i /\ Start[f] = Start[i + 1]} = i + 1 .. m
              /\ Cardinality({f \in Flows : f > i /\ Start[f] = Start[i + 1]}) = m - i
<1> DEFINE due == {f \in Flows : f > i /\ Start[f] = Start[i + 1]}
           Later == {g \in i + 2 .. FlowNum + 1 : g = FlowNum + 1 \/ g \notin due}
<1>1. /\ FlowNum \in Nat /\ i \in Nat /\ i < FlowNum /\ Start \in [Flows -> Nat]
      /\ \A f, g \in Flows : f <= g => Start[f] <= Start[g]
  BY FlowAssumption DEF Flows
<1>2. Later \in SUBSET Nat /\ FlowNum + 1 \in Later
  BY <1>1
<1>3. PICK x \in Later : \A y \in Later : x <= y
  BY <1>2, LeastElement
<1> DEFINE m == x - 1
<1>4. x \in Nat /\ x >= i + 2 /\ x <= FlowNum + 1 /\ m \in i + 1 .. FlowNum
  BY <1>1, <1>3
<1>5. ASSUME NEW f \in due
      PROVE  f \in i + 1 .. m
  <2>1. f \in Flows /\ f \in Nat /\ f > i /\ f <= FlowNum /\ Start[f] = Start[i + 1]
    BY <1>1 DEF Flows
  <2>2. SUFFICES ASSUME f >= x PROVE FALSE
    BY <2>1, <1>4
  <2>3. x \in Flows /\ x \notin due /\ i + 1 \in Flows
    BY <2>1, <2>2, <1>3, <1>4, <1>1 DEF Flows
  <2>4. Start[i + 1] <= Start[x] /\ Start[x] <= Start[f]
    BY <2>1, <2>2, <2>3, <1>1, <1>4
  <2>5. Start[x] = Start[i + 1]
    BY <2>1, <2>3, <2>4, <1>1
  <2> QED BY <2>3, <2>5, <1>4, <1>1
<1>6. ASSUME NEW f \in i + 1 .. m
      PROVE  f \in due
  <2>1. f \in Flows /\ f > i /\ f < x
    BY <1>1, <1>4 DEF Flows
  <2>2. CASE f = i + 1
    BY <2>1, <2>2
  <2>3. CASE f # i + 1
    <3>1. f \in i + 2 .. FlowNum + 1 /\ f \notin Later
      BY <2>1, <2>3, <1>1, <1>3, <1>4
    <3> QED BY <3>1
  <2> QED BY <2>2, <2>3
<1>7. due = i + 1 .. m
  BY <1>5, <1>6
<1>8. Cardinality(i + 1 .. m) = m - (i + 1) + 1
  BY <1>1, <1>4, FS_Interval
<1> HIDE DEF m, due
<1>9. Cardinality(due) = m - i
  BY <1>1, <1>4, <1>7, <1>8
<1> QED BY <1>4, <1>7, <1>9 DEF due

\* The rows of a report are those of the entries that it shows.
LEMMA RowsOfReport ==
    ASSUME NEW R \in SUBSET Slots, NEW t \in [Slots -> Entries],
           \A s \in R : t[s].flow \in Flows
    PROVE  LET lines == [i \in 1 .. Cardinality(R) |-> Row(t[Nth(R, i)])]
           IN  /\ lines \in Seq(Rows)
               /\ \A s \in R : Row(t[s]) \in ToSet(lines)
               /\ \A r \in ToSet(lines) : \E s \in R : r = Row(t[s])
<1> DEFINE N == Cardinality(R)
           lines == [i \in 1 .. N |-> Row(t[Nth(R, i)])]
<1>1. R \in SUBSET Nat /\ IsFiniteSet(R)
  BY SlotFacts, FS_Subset
<1>2. N \in Nat
  BY <1>1, FS_CardinalityType
<1>3. \A i \in 1 .. N : Nth(R, i) \in R
  BY <1>1, NthIsMember
<1>4. \A s \in R : Rank(R, s) \in 1 .. N /\ Nth(R, Rank(R, s)) = s
  BY <1>1, NthOfRank
<1>5. \A s \in R : Row(t[s]) \in Rows
  BY DEF Row, Rows, Entries
<1> HIDE DEF N
<1>6. lines \in Seq(Rows) /\ DOMAIN lines = 1 .. N
  BY <1>2, <1>3, <1>5
<1>7. \A s \in R : lines[Rank(R, s)] = Row(t[s])
  BY <1>4
<1>8. \A i \in 1 .. N : lines[i] = Row(t[Nth(R, i)])
  OBVIOUS
<1> HIDE DEF lines
<1>9. \A s \in R : Row(t[s]) \in ToSet(lines)
  BY <1>4, <1>6, <1>7 DEF ToSet
<1>10. \A r \in ToSet(lines) : \E s \in R : r = Row(t[s])
  BY <1>3, <1>6, <1>8 DEF ToSet
<1> QED BY <1>6, <1>9, <1>10 DEF lines, N

\* Products with a positive number keep the order.
LEMMA Products ==
    ASSUME NEW c \in Nat \ {0}, NEW a \in Int, NEW b \in Int
    PROVE  a <= b <=> a * c <= b * c
OBVIOUS

\* A number lies between two multiples of a divisor.
LEMMA Quotient ==
    ASSUME NEW c \in Nat \ {0}, NEW a \in Nat
    PROVE  a \div c \in Nat /\ (a \div c) * c <= a /\ a < (a \div c + 1) * c
OBVIOUS

\* compute_chunk_visible_size reaches the threshold as soon as the progress
\* enters the chunk that does, if the flow is that large.
LEMMA VisibleReaches ==
    ASSUME NEW c \in Nat, NEW n \in Nat
    PROVE  Visible(c, n) >= Threshold <=>
              n >= Threshold /\ c > ((Threshold - 1) \div Chunk) * Chunk
<1> DEFINE q == (c + Chunk - 1) \div Chunk
           k == (Threshold - 1) \div Chunk
<1>1. Chunk \in Nat \ {0} /\ Threshold \in Nat \ {0}
  BY FlowAssumption
<1>2. q \in Nat /\ q * Chunk <= c + Chunk - 1 /\ c + Chunk - 1 < (q + 1) * Chunk
  <2>1. c + Chunk - 1 \in Nat
    BY <1>1
  <2> QED BY <1>1, <2>1, Quotient
<1>3. k \in Nat /\ k * Chunk <= Threshold - 1 /\ Threshold - 1 < (k + 1) * Chunk
  <2>1. Threshold - 1 \in Nat
    BY <1>1
  <2> QED BY <1>1, <2>1, Quotient
<1>4. (q + 1) * Chunk = q * Chunk + Chunk /\ (k + 1) * Chunk = k * Chunk + Chunk
  BY <1>1, <1>2, <1>3
<1>5. q * Chunk \in Nat /\ k * Chunk \in Nat
  BY <1>1, <1>2, <1>3
<1>6. k + 1 <= q <=> (k + 1) * Chunk <= q * Chunk
  BY <1>1, <1>2, <1>3, Products
<1>7. q <= k <=> q * Chunk <= k * Chunk
  BY <1>1, <1>2, <1>3, Products
<1>8. k + 1 <= q + 1 <=> (k + 1) * Chunk <= (q + 1) * Chunk
  BY <1>1, <1>2, <1>3, Products
<1>9. q + 1 <= k + 1 <=> (q + 1) * Chunk <= (k + 1) * Chunk
  BY <1>1, <1>2, <1>3, Products
<1>10. Visible(c, n) = IF q * Chunk < n THEN q * Chunk ELSE n
  BY DEF Visible, Ceil
<1> HIDE DEF q, k
<1>11. q * Chunk >= Threshold <=> c > k * Chunk
  <2> DEFINE A == q * Chunk
             B == k * Chunk
             A1 == (q + 1) * Chunk
             B1 == (k + 1) * Chunk
  <2>1. /\ A \in Nat /\ B \in Nat /\ A1 = A + Chunk /\ B1 = B + Chunk
        /\ k + 1 <= q <=> B1 <= A
        /\ q <= k <=> A <= B
        /\ q + 1 <= k + 1 <=> A1 <= B1
        /\ A <= c + Chunk - 1 /\ c + Chunk - 1 < A1
        /\ B <= Threshold - 1 /\ Threshold - 1 < B1
    BY <1>2, <1>3, <1>4, <1>5, <1>6, <1>7, <1>9
  <2> HIDE DEF A, B, A1, B1
  <2>2. A >= Threshold <=> c > B
    BY <2>1, <1>1, <1>2, <1>3
  <2> QED BY <2>2 DEF A, B
<1>12. Visible(c, n) >= Threshold <=> n >= Threshold /\ q * Chunk >= Threshold
  BY <1>10, <1>5, <1>1
<1> QED BY <1>11, <1>12 DEF k

-----------------------------------------------------------------------------
(* The table *)

\* The entry of a queue pair when it finishes, and when the report looks at it.
Finished(e, f) == UpdateHostWrEntry(e, f, TRUE)
Current(e, f) == UpdateHostWrEntry(e, f, FALSE)

\* What upsert_host_wr_entry and update_host_wr_entry leave in a slot.
LEMMA Updated ==
    ASSUME NEW e \in Entries, NEW f \in Flows, Types, Progress
    PROVE  /\ Finished(e, f) \in Entries
           /\ Finished(e, f).flow = f
           /\ Finished(e, f).size = Size[f]
           /\ Finished(e, f).completed = Size[f]
           /\ Finished(e, f).finished
           /\ Finished(e, f).reported =
                 IF e.flow = f THEN e.reported ELSE NeverReported
           /\ qp[f] = "open" =>
                 /\ Current(e, f) \in Entries
                 /\ Current(e, f).flow = f
                 /\ Current(e, f).size = Size[f]
                 /\ Current(e, f).completed = una[f]
                 /\ ~Current(e, f).finished
                 /\ Current(e, f).reported =
                       IF e.flow = f THEN e.reported ELSE NeverReported
<1> DEFINE b == Upsert(e, f)
<1>1. Size[f] \in Nat /\ una[f] \in Nat
  BY SlotFacts DEF Types
<1>2. qp[f] = "open" => una[f] < Size[f]
  BY DEF Progress
<1>3. /\ b \in Entries /\ b.flow = f
      /\ b.reported = IF e.flow = f THEN e.reported ELSE NeverReported
  <2>1. CASE e.flow = f
    BY <2>1 DEF Upsert
  <2>2. CASE e.flow # f
    <3>1. NoEntry = [flow |-> 0, completed |-> 0, size |-> 0, reported |-> -1,
                     finished |-> FALSE]
      BY DEF NoEntry, NeverReported
    <3>2. b = [flow |-> f, completed |-> 0, size |-> 0, reported |-> -1,
               finished |-> FALSE]
      BY <2>2, <3>1 DEF Upsert
    <3> QED BY <2>2, <3>2 DEF Entries, NeverReported
  <2> QED BY <2>1, <2>2
<1> HIDE DEF b
<1>4. Finished(e, f) =
        [b EXCEPT !.completed = Size[f], !.size = Size[f], !.finished = TRUE]
  BY DEF Finished, Current, UpdateHostWrEntry, b
<1>5. qp[f] = "open" =>
        Current(e, f) =
          [b EXCEPT !.completed = una[f], !.size = Size[f], !.finished = FALSE]
  <2>1. qp[f] = "open" => ~(una[f] > Size[f]) /\ ~(una[f] >= Size[f])
    BY <1>1, <1>2
  <2> QED BY <2>1 DEF Finished, Current, UpdateHostWrEntry, b
<1>6. ASSUME NEW n \in Nat
      PROVE  [b EXCEPT !.completed = n, !.size = Size[f], !.finished = TRUE] \in Entries
  BY <1>1, <1>3, Zenon DEF Entries
<1>7. ASSUME NEW n \in Nat
      PROVE  [b EXCEPT !.completed = n, !.size = Size[f], !.finished = FALSE] \in Entries
  BY <1>1, <1>3, Zenon DEF Entries
<1>8. /\ Finished(e, f) \in Entries
      /\ Finished(e, f).flow = f
      /\ Finished(e, f).size = Size[f]
      /\ Finished(e, f).completed = Size[f]
      /\ Finished(e, f).finished = TRUE
      /\ Finished(e, f).reported = b.reported
  <2>1. Finished(e, f) \in Entries
    BY <1>1, <1>4, <1>6
  <2> QED BY <2>1, <1>3, <1>4 DEF Entries
<1>9. ASSUME qp[f] = "open"
      PROVE  /\ Current(e, f) \in Entries
             /\ Current(e, f).flow = f
             /\ Current(e, f).size = Size[f]
             /\ Current(e, f).completed = una[f]
             /\ Current(e, f).finished = FALSE
             /\ Current(e, f).reported = b.reported
  <2>1. Current(e, f) \in Entries
    BY <1>1, <1>5, <1>7, <1>9
  <2> QED BY <2>1, <1>3, <1>5, <1>9 DEF Entries
<1> QED BY <1>3, <1>8, <1>9, Zenon

\* No entry is one, of no flow.
LEMMA NoEntryFacts ==
    NoEntry \in Entries /\ NoEntry.flow = 0 /\ NoEntry.finished = FALSE
    /\ 0 \notin Flows
BY SlotFacts DEF NoEntry, Entries, NeverReported

\* The table after sync_host_wr_entries_from_active_qps: a slot with open queue
\* pairs speaks for one of them and its progress, the others are left alone.
LEMMA Synced ==
    ASSUME Types, Progress, TableOK, NEW last \in Walks
    PROVE  LET t == SyncFromActiveQps(table, last)
           IN  /\ t \in [Slots -> Entries]
               /\ \A s \in Slots : EntryOK(t[s], s, qp, una, final)
               /\ \A s \in Slots : Here(s) = {} => t[s] = table[s]
               /\ \A s \in Slots : Here(s) # {} =>
                     /\ t[s].flow \in Here(s) /\ ~t[s].finished
                     /\ t[s].completed = una[t[s].flow]
<1> DEFINE t == SyncFromActiveQps(table, last)
           e(s) == IF Here(s) = {last[s]} THEN table[s] ELSE NoEntry
<1>1. ASSUME NEW s \in Slots, Here(s) = {}
      PROVE  t[s] = table[s]
  <2>1. last[s] = 0
    BY <1>1 DEF Walks
  <2> QED BY <2>1 DEF SyncFromActiveQps
<1>2. ASSUME NEW s \in Slots, Here(s) # {}
      PROVE  /\ t[s] \in Entries /\ t[s].flow \in Here(s) /\ ~t[s].finished
             /\ t[s].completed = una[t[s].flow]
             /\ EntryOK(t[s], s, qp, una, final)
  <2> DEFINE f == last[s]
  <2>1. f \in Here(s)
    BY <1>2 DEF Walks
  <2>2. f \in Flows /\ qp[f] = "open" /\ Slot[f] = s /\ f # 0
    BY <2>1, NoEntryFacts DEF Here, Open
  <2>3. t[s] = Current(e(s), f)
    BY <2>2 DEF SyncFromActiveQps, Current
  <2>4. e(s) \in Entries
    BY NoEntryFacts DEF Types
  <2>5. e(s).flow = f => e(s).reported <= una[f]
    <3>1. CASE e(s) = NoEntry
      BY <3>1, <2>2, NoEntryFacts
    <3>2. CASE e(s) = table[s]
      <4>1. EntryOK(table[s], s, qp, una, final)
        BY DEF TableOK
      <4> HIDE DEF e, f
      <4>2. ASSUME table[s].flow = f PROVE table[s].reported <= una[f]
        BY <4>1, <4>2, <2>2, NoEntryFacts DEF EntryOK
      <4> QED BY <4>2, <3>2
    <3> QED BY <3>1, <3>2
  <2> HIDE DEF e, f, t
  <2>6. una[f] \in Nat
    BY <2>2 DEF Types
  <2>7. /\ t[s] \in Entries /\ t[s].flow = f /\ t[s].size = Size[f]
        /\ t[s].completed = una[f] /\ ~t[s].finished
        /\ t[s].reported = IF e(s).flow = f THEN e(s).reported ELSE NeverReported
    BY <2>2, <2>3, <2>4, Updated
  <2>8. t[s].reported <= una[f]
    BY <2>5, <2>6, <2>7 DEF NeverReported
  <2>9. t[s].completed <= una[f]
    BY <2>6, <2>7
  <2>10. EntryOK(t[s], s, qp, una, final)
    BY <2>2, <2>7, <2>8, <2>9, Zenon DEF EntryOK
  <2> QED BY <2>1, <2>7, <2>10
<1>3. \A s \in Slots : t[s] \in Entries /\ EntryOK(t[s], s, qp, una, final)
  <2> SUFFICES ASSUME NEW s \in Slots
               PROVE  t[s] \in Entries /\ EntryOK(t[s], s, qp, una, final)
    OBVIOUS
  <2>1. CASE Here(s) = {}
    BY <2>1, <1>1 DEF Types, TableOK
  <2>2. CASE Here(s) # {}
    BY <2>2, <1>2
  <2> QED BY <2>1, <2>2
<1>4. t = [s \in Slots |-> t[s]]
  BY DEF SyncFromActiveQps
<1> HIDE DEF t
<1>5. t \in [Slots -> Entries]
  BY <1>3, <1>4
<1> QED BY <1>1, <1>2, <1>3, <1>5 DEF t

-----------------------------------------------------------------------------
(* The initial state *)

\* At the start no flow is active, the table is empty and no report is written.
LEMMA InitIInv == Init => IInv
<1> SUFFICES ASSUME Init PROVE IInv
  OBVIOUS
<1> USE DEF Init
<1>1. NoFile \in Contents /\ NotWriting \in [time : Nat, rows : Seq(Rows)]
  BY DEF NoFile, NotWriting, Contents
<1>2. Types
  <2>1. tuner \in [pc : {"poll", "load"}, hash : Contents,
                   large : SUBSET Flows, small : SUBSET Flows]
    BY <1>1
  <2>2. table \in [Slots -> Entries]
    BY NoEntryFacts
  <2>3. MaxReports \in Nat /\ FlowNum \in Nat
    BY FlowAssumption
  <2>4. /\ idx \in 0 .. FlowNum /\ active \in Nat /\ stopped \in {"no", "finished", "time"}
        /\ reports \in 0 .. MaxReports
    <3>1. idx = 0 /\ active = 0 /\ reports = 0 /\ stopped = "no"
      OBVIOUS
    <3> HIDE DEF Init
    <3>2. idx \in 0 .. FlowNum /\ active \in Nat /\ reports \in 0 .. MaxReports
      BY <2>3, <3>1
    <3>3. stopped \in {"no", "finished", "time"}
      BY <3>1
    <3> QED BY <3>2, <3>3
  <2>5. /\ qp \in [Flows -> {"waiting", "installed", "open", "done"}]
        /\ una \in [Flows -> Nat] /\ final \in [Flows -> 0 .. 1] /\ lost \in SUBSET Flows
    OBVIOUS
  <2>6. out \in [time : Nat, rows : Seq(Rows)] /\ file \in Contents
    BY <1>1
  <2> QED BY <2>1, <2>2, <2>4, <2>5, <2>6 DEF Types
<1>3. Counted
  <2>1. {f \in Flows : qp[f] \in {"installed", "open"}} = {}
    OBVIOUS
  <2>2. \A f \in Flows : f > 0
    BY SlotFacts
  <2> QED BY <2>1, <2>2, FS_EmptySet DEF Counted
<1>4. Progress /\ EndedByFlows
  <2>1. 1 \in Flows
    BY FlowAssumption DEF Flows
  <2> QED BY <2>1, SlotFacts DEF Progress, EndedByFlows
<1>5. TableOK /\ \A f \in Flows : FinalOK(f)
  BY DEF TableOK, EntryOK, FinalOK
<1>6. Writing /\ ReportIsCurrent
  BY DEF Writing, ReportIsCurrent
<1>7. HashOK /\ LatestReportCounted
  BY DEF HashOK, LatestReportCounted, NoFile
<1> QED BY <1>2, <1>3, <1>4, <1>5, <1>6, <1>7 DEF IInv

-----------------------------------------------------------------------------
(* Flows *)

\* An event of the simulation that writes no report leaves the report, its file
\* and the tuner as they are.
LEMMA NoReport ==
    ASSUME IInv, Running, UNCHANGED <<reports, out, file, tuner>>
    PROVE  Writing' /\ ReportIsCurrent' /\ HashOK' /\ LatestReportCounted'
<1>1. out' = NotWriting
  BY DEF Running
<1>2. Writing' /\ ReportIsCurrent'
  BY <1>1 DEF Writing, ReportIsCurrent
<1>3. HashOK' /\ LatestReportCounted'
  BY DEF IInv, HashOK, LatestReportCounted, Hash
<1> QED BY <1>2, <1>3

\* ScheduleFlowInputs counts as active exactly the flows it installs.
LEMMA ScheduleStep ==
    ASSUME IInv, ScheduleFlowInputs
    PROVE  IInv'
<1> DEFINE due == {f \in Flows : f > idx /\ Start[f] = Start[idx + 1]}
           Act(Q) == {f \in Flows : Q[f] \in {"installed", "open"}}
<1>1. Types /\ Counted /\ Progress /\ EndedByFlows /\ TableOK /\ \A f \in Flows : FinalOK(f)
  BY DEF IInv
<1>2. /\ Running /\ idx < FlowNum
      /\ idx' = idx + Cardinality(due) /\ active' = active + Cardinality(due)
      /\ qp' = [f \in Flows |-> IF f \in due THEN "installed" ELSE qp[f]]
      /\ stopped' = IF idx' = FlowNum /\ MaybeStopWhenAllFlowsFinish(idx', active')
                    THEN "finished" ELSE "no"
      /\ UNCHANGED <<una, table, lost, reports, out, file, tuner, final>>
  BY DEF ScheduleFlowInputs, MoreFlows
<1>3. idx \in 0 .. FlowNum - 1 /\ FlowNum \in Nat
  BY <1>1, <1>2, SlotFacts DEF Types
<1>4. PICK m \in idx + 1 .. FlowNum : due = idx + 1 .. m /\ Cardinality(due) = m - idx
  BY <1>3, DueFlows
<1>5. idx' = m /\ m \in Nat /\ m > idx /\ m <= FlowNum /\ active' = active + (m - idx)
  BY <1>2, <1>3, <1>4
<1>6. \A f \in Flows : f \in due <=> f > idx /\ f <= m
  BY <1>3, <1>4 DEF Flows
<1>7. \A f \in due : f \in Flows /\ qp[f] = "waiting"
  BY <1>1 DEF Counted
<1> HIDE DEF due
<1>8. Act(qp') = Act(qp) \cup due /\ Act(qp) \cap due = {}
  BY <1>2, <1>7
<1>9. IsFiniteSet(Act(qp)) /\ IsFiniteSet(due)
  <2>1. Act(qp) \subseteq Flows /\ due \subseteq Flows
    BY <1>7
  <2> HIDE DEF Act
  <2> QED BY <2>1, SlotFacts, FS_Subset
<1>10. active = Cardinality(Act(qp)) /\ active \in Nat
  BY <1>1 DEF Counted, Types
<1> HIDE DEF Act
<1>11. Cardinality(Act(qp')) = active + (m - idx) - 0
  <2>1. Cardinality(Act(qp) \cap due) = 0
    BY <1>8, FS_EmptySet
  <2>2. Cardinality(Act(qp) \cup due) =
          Cardinality(Act(qp)) + Cardinality(due) - Cardinality(Act(qp) \cap due)
    BY <1>9, FS_Union
  <2> QED BY <2>1, <2>2, <1>4, <1>8, <1>10
<1>12. Types'
  <2>1. qp' \in [Flows -> {"waiting", "installed", "open", "done"}]
    BY <1>1, <1>2 DEF Types
  <2>2. idx' \in 0 .. FlowNum /\ active' \in Nat
    BY <1>3, <1>5, <1>10
  <2>3. stopped' \in {"no", "finished", "time"}
    BY <1>2
  <2> QED BY <1>1, <1>2, <2>1, <2>2, <2>3 DEF Types
<1>13. Counted'
  <2>1. active' = Cardinality(Act(qp'))
    BY <1>3, <1>5, <1>10, <1>11
  <2>2. ASSUME NEW f \in Flows
        PROVE  qp'[f] = "waiting" <=> f > idx'
    <3>1. f \in Nat /\ (qp[f] = "waiting" <=> f > idx)
      BY <1>1, SlotFacts DEF Counted
    <3>2. CASE f \in due
      BY <3>1, <3>2, <1>2, <1>3, <1>5, <1>6
    <3>3. CASE f \notin due
      <4>1. qp'[f] = qp[f]
        BY <3>3, <1>2
      <4> QED BY <3>1, <3>3, <4>1, <1>3, <1>5, <1>6
    <3> QED BY <3>2, <3>3
  <2> QED BY <2>1, <2>2 DEF Counted, Act
<1>14. ASSUME NEW f \in Flows
       PROVE  /\ (qp'[f] = "done") = (qp[f] = "done")
              /\ (qp'[f] = "open") = (qp[f] = "open")
  <2>1. CASE f \in due
    BY <2>1, <1>2, <1>7
  <2>2. CASE f \notin due
    BY <2>2, <1>2
  <2> QED BY <2>1, <2>2
<1>15. EndedByFlows'
  <2>1. active' # 0
    BY <1>3, <1>5, <1>10
  <2>2. stopped' = "no"
    BY <2>1, <1>2 DEF MaybeStopWhenAllFlowsFinish
  <2>3. idx + 1 \in Flows /\ qp'[idx + 1] = "installed"
    BY <1>2, <1>3, <1>5, <1>6 DEF Flows
  <2> QED BY <2>2, <2>3 DEF EndedByFlows
<1>16. Progress'
  BY <1>1, <1>2, <1>14 DEF Progress
<1>17. TableOK'
  <2> SUFFICES ASSUME NEW s \in Slots
               PROVE  EntryOK(table[s], s, qp', una, final)
    BY <1>2 DEF TableOK
  <2>1. EntryOK(table[s], s, qp, una, final)
    BY <1>1 DEF TableOK
  <2> QED BY <2>1, <1>14 DEF EntryOK
<1>18. \A f \in Flows : FinalOK(f)'
  <2> SUFFICES ASSUME NEW f \in Flows PROVE FinalOK(f)'
    OBVIOUS
  <2>1. FinalOK(f) /\ (qp'[f] = "done") = (qp[f] = "done")
    BY <1>1, <1>14
  <2> QED BY <2>1, <1>2 DEF FinalOK
<1>19. Writing' /\ ReportIsCurrent' /\ HashOK' /\ LatestReportCounted'
  BY <1>2, NoReport
<1> QED BY <1>12, <1>13, <1>15, <1>16, <1>17, <1>18, <1>19 DEF IInv

\* StartApplication opens a queue pair whose slot may have another's entry.
LEMMA StartStep ==
    ASSUME IInv, NEW f \in Flows, StartApplication(f)
    PROVE  IInv'
<1>1. Types /\ Counted /\ Progress /\ EndedByFlows /\ TableOK /\ \A g \in Flows : FinalOK(g)
  BY DEF IInv
<1>2. /\ Running /\ qp[f] = "installed" /\ qp' = [qp EXCEPT ![f] = "open"]
      /\ UNCHANGED <<idx, active, una, table, stopped, lost, reports, out, file, tuner, final>>
  BY DEF StartApplication
<1>3. qp' \in [Flows -> {"waiting", "installed", "open", "done"}]
      /\ qp'[f] = "open" /\ \A g \in Flows \ {f} : qp'[g] = qp[g]
  BY <1>1, <1>2 DEF Types
<1>4. Types'
  BY <1>1, <1>2, <1>3 DEF Types
<1>5. Counted'
  <2>1. {g \in Flows : qp'[g] \in {"installed", "open"}} =
        {g \in Flows : qp[g] \in {"installed", "open"}}
    BY <1>2, <1>3
  <2>2. \A g \in Flows : qp'[g] = "waiting" <=> qp[g] = "waiting"
    BY <1>2, <1>3
  <2> QED BY <2>1, <2>2, <1>1, <1>2 DEF Counted
<1>6. Progress' /\ EndedByFlows'
  BY <1>1, <1>2, <1>3 DEF Progress, EndedByFlows, Running
<1>7. TableOK'
  <2> SUFFICES ASSUME NEW s \in Slots
               PROVE  EntryOK(table[s], s, qp', una, final)
    BY <1>2 DEF TableOK
  <2>1. EntryOK(table[s], s, qp, una, final)
    BY <1>1 DEF TableOK
  <2>2. \A g \in Flows : qp[g] \in {"open", "done"} => qp'[g] = qp[g]
    BY <1>2, <1>3
  <2> QED BY <2>1, <2>2 DEF EntryOK
<1>8. ASSUME NEW g \in Flows PROVE FinalOK(g)'
  <2>1. FinalOK(g) /\ (qp'[g] = "done" <=> qp[g] = "done")
    BY <1>1, <1>2, <1>3
  <2> QED BY <2>1, <1>2 DEF FinalOK
<1>9. Writing' /\ ReportIsCurrent' /\ HashOK' /\ LatestReportCounted'
  BY <1>2, NoReport
<1> QED BY <1>4, <1>5, <1>6, <1>7, <1>8, <1>9 DEF IInv

\* An acknowledgement moves una past what the table says, until the next report.
LEMMA AcknowledgeStep ==
    ASSUME IInv, NEW f \in Flows, Acknowledge(f)
    PROVE  IInv'
<1>1. Types /\ Counted /\ Progress /\ EndedByFlows /\ TableOK /\ \A g \in Flows : FinalOK(g)
  BY DEF IInv
<1>2. /\ Running /\ qp[f] = "open" /\ una[f] + 1 < Size[f]
      /\ una' = [una EXCEPT ![f] = una[f] + 1]
      /\ UNCHANGED <<idx, active, qp, table, stopped, lost, reports, out, file, tuner, final>>
  BY DEF Acknowledge
<1>3. /\ una \in [Flows -> Nat] /\ una' \in [Flows -> Nat]
      /\ una'[f] = una[f] + 1 /\ \A g \in Flows \ {f} : una'[g] = una[g]
  BY <1>1, <1>2 DEF Types
<1>4. Types' /\ Counted' /\ EndedByFlows'
  BY <1>1, <1>2, <1>3 DEF Types, Counted, EndedByFlows
<1>5. Progress'
  BY <1>1, <1>2, <1>3 DEF Progress
<1>6. TableOK'
  <2> SUFFICES ASSUME NEW s \in Slots
               PROVE  EntryOK(table[s], s, qp, una', final)
    BY <1>2 DEF TableOK
  <2>1. EntryOK(table[s], s, qp, una, final) /\ table[s] \in Entries
    BY <1>1 DEF TableOK, Types
  <2>2. \A g \in Flows : una[g] <= una'[g] /\ una[g] \in Nat /\ una'[g] \in Nat
    BY <1>3
  <2>3. table[s].reported \in Int /\ table[s].completed \in Int
    BY <2>1 DEF Entries
  <2> QED BY <2>1, <2>2, <2>3 DEF EntryOK
<1>7. \A g \in Flows : FinalOK(g)'
  BY <1>1, <1>2 DEF FinalOK
<1>8. Writing' /\ ReportIsCurrent' /\ HashOK' /\ LatestReportCounted'
  BY <1>2, NoReport
<1> QED BY <1>4, <1>5, <1>6, <1>7, <1>8 DEF IInv

\* The flows that a change of the table evicts before their report: finished,
\* not reported as such, and no longer in their slot.
LEMMA EvictedFacts ==
    ASSUME Types, TableOK, NEW t \in [Slots -> Entries], NEW g
    PROVE  /\ g \in Evicted(table, t) =>
                 /\ g \in Flows /\ qp[g] = "done" /\ final[g] = 0
                 /\ table[Slot[g]].flow = g /\ t[Slot[g]].flow # g
           /\ /\ g \in Flows /\ qp[g] = "done" /\ final[g] = 0
              /\ table[Slot[g]].flow = g /\ t[Slot[g]].flow # g
              => g \in Evicted(table, t)
<1>1. ASSUME g \in Evicted(table, t)
      PROVE  /\ g \in Flows /\ qp[g] = "done" /\ final[g] = 0
             /\ table[Slot[g]].flow = g /\ t[Slot[g]].flow # g
  <2>1. PICK s \in Slots : /\ table[s].flow = g /\ table[s].finished
                           /\ table[s].flow # t[s].flow
                           /\ table[s].reported # table[s].completed
    BY <1>1 DEF Evicted
  <2>2. EntryOK(table[s], s, qp, una, final)
    BY DEF TableOK
  <2>3. table[s] # NoEntry
    BY <2>1, NoEntryFacts
  <2>4. g \in Flows /\ Slot[g] = s /\ qp[g] = "done" /\ ~(final[g] = 1)
    BY <2>1, <2>2, <2>3 DEF EntryOK
  <2>5. final[g] = 0
    BY <2>4 DEF Types
  <2> QED BY <2>1, <2>4, <2>5
<1>2. ASSUME g \in Flows, qp[g] = "done", final[g] = 0,
             table[Slot[g]].flow = g, t[Slot[g]].flow # g
      PROVE  g \in Evicted(table, t)
  <2> DEFINE s == Slot[g]
  <2>1. s \in Slots /\ table[s] # NoEntry
    BY <1>2, SlotFacts, NoEntryFacts
  <2>2. EntryOK(table[s], s, qp, una, final)
    BY <2>1 DEF TableOK
  <2>3. table[s].finished /\ table[s].reported # table[s].completed
    BY <2>1, <2>2, <1>2 DEF EntryOK
  <2> QED BY <2>1, <2>3, <1>2 DEF Evicted
<1> QED BY <1>1, <1>2

\* qp_finish leaves the final value in the slot, and evicts what another flow had.
LEMMA FinishStep ==
    ASSUME IInv, NEW f \in Flows, QpFinish(f)
    PROVE  IInv'
<1> DEFINE s0 == Slot[f]
           e == table[s0]
           Act(Q) == {g \in Flows : Q[g] \in {"installed", "open"}}
<1>1. Types /\ Counted /\ Progress /\ EndedByFlows /\ TableOK /\ \A g \in Flows : FinalOK(g)
  BY DEF IInv
<1>2. /\ Running /\ qp[f] = "open"
      /\ una' = [una EXCEPT ![f] = Size[f]] /\ qp' = [qp EXCEPT ![f] = "done"]
      /\ table' = [table EXCEPT ![s0] = Finished(e, f)]
      /\ lost' = lost \cup Evicted(table, table')
      /\ active' = LessOne(active)
      /\ stopped' = IF MaybeStopWhenAllFlowsFinish(idx, active') THEN "finished" ELSE "no"
      /\ UNCHANGED <<idx, reports, out, file, tuner, final>>
  BY DEF QpFinish, Finished
<1>3. s0 \in Slots /\ Size[f] \in Nat /\ Size[f] > 0 /\ e \in Entries
  BY <1>1, SlotFacts DEF Types
<1>4. /\ Finished(e, f) \in Entries /\ Finished(e, f).flow = f
      /\ Finished(e, f).size = Size[f] /\ Finished(e, f).completed = Size[f]
      /\ Finished(e, f).finished
      /\ Finished(e, f).reported = IF e.flow = f THEN e.reported ELSE NeverReported
  BY <1>1, <1>3, Updated
<1>5. /\ table' \in [Slots -> Entries] /\ table'[s0] = Finished(e, f)
      /\ \A s \in Slots \ {s0} : table'[s] = table[s]
  BY <1>1, <1>2, <1>3, <1>4 DEF Types
<1>6. /\ qp' \in [Flows -> {"waiting", "installed", "open", "done"}]
      /\ qp'[f] = "done" /\ \A g \in Flows \ {f} : qp'[g] = qp[g]
  BY <1>1, <1>2 DEF Types
<1>7. /\ una \in [Flows -> Nat] /\ una' \in [Flows -> Nat]
      /\ una'[f] = Size[f] /\ \A g \in Flows \ {f} : una'[g] = una[g]
  BY <1>1, <1>2, <1>3 DEF Types
<1>8. final[f] = 0 /\ una[f] < Size[f]
  BY <1>1, <1>2 DEF FinalOK, Progress
<1>9. Finished(e, f).reported # Size[f]
  <2>1. CASE e.flow = f
    <3>1. EntryOK(e, s0, qp, una, final) /\ e # NoEntry
      BY <1>1, <1>3, <2>1, NoEntryFacts DEF TableOK
    <3>2. e.reported <= una[f] /\ e.reported \in Int
      BY <3>1, <2>1, <1>2, <1>3 DEF EntryOK, Entries
    <3> QED BY <2>1, <3>2, <1>3, <1>4, <1>7, <1>8
  <2>2. CASE e.flow # f
    BY <2>2, <1>3, <1>4 DEF NeverReported
  <2> QED BY <2>1, <2>2
<1>10. TableOK'
  <2> SUFFICES ASSUME NEW s \in Slots
               PROVE  EntryOK(table'[s], s, qp', una', final)
    BY <1>2 DEF TableOK
  <2>1. CASE s = s0
    <3>1. Finished(e, f).reported = Finished(e, f).completed <=> final[f] = 1
      BY <1>4, <1>8, <1>9
    <3> QED BY <2>1, <3>1, <1>4, <1>5, <1>6 DEF EntryOK
  <2>2. CASE s # s0
    <3>1. EntryOK(table[s], s, qp, una, final) /\ table'[s] = table[s]
      BY <2>2, <1>1, <1>5 DEF TableOK
    <3>2. \A g \in Flows : Slot[g] = s => qp'[g] = qp[g] /\ una'[g] = una[g]
      BY <2>2, <1>6, <1>7
    <3> QED BY <3>1, <3>2 DEF EntryOK
  <2> QED BY <2>1, <2>2
<1>11. \A g : /\ g \in Evicted(table, table') =>
                   /\ g \in Flows /\ qp[g] = "done" /\ final[g] = 0
                   /\ table[Slot[g]].flow = g /\ table'[Slot[g]].flow # g
              /\ /\ g \in Flows /\ qp[g] = "done" /\ final[g] = 0
                 /\ table[Slot[g]].flow = g /\ table'[Slot[g]].flow # g
                 => g \in Evicted(table, table')
  BY <1>1, <1>5, EvictedFacts
<1>12. Types'
  <2>1. LessOne(active) \in Nat
    BY <1>1 DEF Types, LessOne
  <2>2. stopped' \in {"no", "finished", "time"}
    BY <1>2
  <2>3. lost' \in SUBSET Flows
    BY <1>1, <1>2, <1>11 DEF Types
  <2> QED BY <1>1, <1>2, <1>5, <1>6, <1>7, <2>1, <2>2, <2>3 DEF Types
<1>13. ASSUME NEW g \in Flows
       PROVE  FinalOK(g)'
  <2>1. CASE g = f
    <3>1. f \notin lost'
      BY <1>1, <1>2, <1>11 DEF FinalOK
    <3> QED BY <2>1, <3>1, <1>4, <1>5, <1>6 DEF FinalOK
  <2>2. CASE g # f
    <3>1. FinalOK(g) /\ qp'[g] = qp[g] /\ final'[g] = final[g] /\ Slot[g] \in Slots
      BY <2>2, <1>1, <1>2, <1>6, SlotFacts
    <3>2. Slot[g] = s0 => table'[Slot[g]].flow = f
      BY <1>4, <1>5
    <3>3. Slot[g] # s0 => table'[Slot[g]] = table[Slot[g]]
      BY <1>5, <3>1
    <3>4. qp'[g] # "done" => final'[g] = 0 /\ g \notin lost'
      BY <3>1, <1>2, <1>11 DEF FinalOK
    <3>5. ASSUME g \in lost'
          PROVE  /\ final'[g] = 0 /\ table'[Slot[g]].flow # g
                 /\ \E h \in Flows \ {g} : Slot[h] = Slot[g]
      <4>1. CASE g \in lost
        BY <4>1, <2>2, <3>1, <3>2, <3>3 DEF FinalOK
      <4>2. CASE g \in Evicted(table, table')
        <5>1. /\ final[g] = 0 /\ table[Slot[g]].flow = g /\ table'[Slot[g]].flow # g
          BY <4>2, <1>11
        <5>2. Slot[g] = s0
          BY <5>1, <3>3
        <5> QED BY <5>1, <5>2, <3>1, <2>2
      <4> QED BY <3>5, <4>1, <4>2, <1>2
    <3>6. ASSUME qp'[g] = "done", final'[g] = 0, g \notin lost'
          PROVE  table'[Slot[g]].flow = g /\ table'[Slot[g]].finished
      <4>1. g \notin lost /\ g \notin Evicted(table, table')
        BY <3>6, <1>2
      <4>2. table[Slot[g]].flow = g /\ table[Slot[g]].finished
        BY <4>1, <3>1, <3>6 DEF FinalOK
      <4>3. table'[Slot[g]].flow = g
        BY <4>1, <4>2, <3>1, <3>6, <1>11
      <4> QED BY <4>2, <4>3, <3>2, <3>3, <2>2
    <3> QED BY <3>4, <3>5, <3>6 DEF FinalOK
  <2> QED BY <2>1, <2>2
<1>14. /\ IsFiniteSet(Act(qp)) /\ f \in Act(qp) /\ Act(qp') = Act(qp) \ {f}
  <2>1. Act(qp) \subseteq Flows /\ f \in Act(qp) /\ Act(qp') = Act(qp) \ {f}
    BY <1>2, <1>6
  <2> HIDE DEF Act
  <2> QED BY <2>1, SlotFacts, FS_Subset
<1>15. active = Cardinality(Act(qp)) /\ active \in Nat
  BY <1>1 DEF Counted, Types
<1>16. /\ active' = active - 1 /\ active' = Cardinality(Act(qp'))
       /\ IsFiniteSet(Act(qp'))
  <2> HIDE DEF Act
  <2>1. Cardinality(Act(qp) \ {f}) = Cardinality(Act(qp)) - 1 /\ IsFiniteSet(Act(qp) \ {f})
    BY <1>14, FS_RemoveElement
  <2>2. Cardinality(Act(qp) \ {f}) \in Nat
    BY <2>1, FS_CardinalityType
  <2>3. active > 0
    BY <2>1, <2>2, <1>15
  <2> QED BY <2>1, <2>3, <1>2, <1>14, <1>15 DEF LessOne
<1>17. Counted'
  <2>1. \A g \in Flows : qp'[g] = "waiting" <=> qp[g] = "waiting"
    BY <1>2, <1>6
  <2> QED BY <2>1, <1>1, <1>2, <1>16 DEF Counted
<1>18. EndedByFlows'
  <2>1. ASSUME stopped' = "finished", NEW g \in Flows PROVE qp'[g] = "done"
    <3>1. idx >= FlowNum /\ Cardinality(Act(qp')) = 0
      BY <2>1, <1>2, <1>16 DEF MaybeStopWhenAllFlowsFinish
    <3>2. Act(qp') = {}
      <4> HIDE DEF Act
      <4> QED BY <3>1, <1>16, FS_EmptySet
    <3>3. qp'[g] # "waiting"
      BY <3>1, <1>2, <1>17, <1>12, SlotFacts DEF Counted, Types, Flows
    <3> QED BY <3>2, <3>3, <1>6
  <2>2. ASSUME \A g \in Flows : qp'[g] = "done" PROVE stopped' = "finished"
    <3>1. Act(qp') = {}
      BY <2>2
    <3>2. active' = 0
      <4> HIDE DEF Act
      <4> QED BY <3>1, <1>16, FS_EmptySet
    <3>3. FlowNum \in Flows /\ idx \in Nat /\ FlowNum \in Nat
      BY <1>1, FlowAssumption DEF Flows, Types
    <3>4. ~(FlowNum > idx')
      BY <2>2, <3>3, <1>17 DEF Counted
    <3> QED BY <3>2, <3>3, <3>4, <1>2 DEF MaybeStopWhenAllFlowsFinish
  <2> QED BY <2>1, <2>2 DEF EndedByFlows
<1>19. Progress'
  BY <1>1, <1>3, <1>6, <1>7 DEF Progress
<1>20. Writing' /\ ReportIsCurrent' /\ HashOK' /\ LatestReportCounted'
  BY <1>2, NoReport
<1> QED BY <1>10, <1>12, <1>13, <1>17, <1>18, <1>19, <1>20 DEF IInv

\* The stop time finds a flow that has not finished: otherwise the last one
\* would have ended the simulation.
LEMMA StopTimeStep ==
    ASSUME IInv, StopTime
    PROVE  IInv'
<1>1. Types /\ Counted /\ Progress /\ EndedByFlows /\ TableOK /\ \A f \in Flows : FinalOK(f)
  BY DEF IInv
<1>2. /\ Running /\ stopped = "no" /\ stopped' = "time"
      /\ UNCHANGED <<idx, active, qp, una, table, lost, reports, out, file, tuner, final>>
  BY DEF StopTime, Running
<1>3. Types' /\ Counted' /\ Progress'
  BY <1>1, <1>2 DEF Types, Counted, Progress
<1>4. EndedByFlows'
  BY <1>1, <1>2 DEF EndedByFlows
<1>5. TableOK' /\ \A f \in Flows : FinalOK(f)'
  BY <1>1, <1>2 DEF TableOK, FinalOK
<1>6. Writing' /\ ReportIsCurrent' /\ HashOK' /\ LatestReportCounted'
  BY <1>2, NoReport
<1> QED BY <1>3, <1>4, <1>5, <1>6 DEF IInv

-----------------------------------------------------------------------------
(* The report *)

\* monitor_host_flow_report brings the table up to date, writes its entries and
\* clears those that were written with their final value before.
LEMMA ReportStep ==
    ASSUME IInv, MonitorHostFlowReport
    PROVE  IInv'
<1>1. Types /\ Counted /\ Progress /\ EndedByFlows /\ TableOK /\ \A f \in Flows : FinalOK(f)
  BY DEF IInv
<1>2. PICK last \in Walks :
        \E t \in {SyncFromActiveQps(table, last)} :
          /\ lost' = lost \cup Evicted(table, t)
          /\ out' = [time |-> reports',
                     rows |-> [i \in 1 .. Cardinality(Reported(t)) |->
                                 Row(t[Nth(Reported(t), i)])]]
          /\ table' = [s \in Slots |->
                IF s \in Reported(t) THEN [t[s] EXCEPT !.reported = t[s].completed]
                ELSE NoEntry]
          /\ final' = [f \in Flows |->
                IF \E s \in Reported(t) : t[s].flow = f /\ t[s].finished
                THEN final[f] + 1 ELSE final[f]]
  BY DEF MonitorHostFlowReport
<1> DEFINE t == SyncFromActiveQps(table, last)
           R == Reported(t)
           lines == [i \in 1 .. Cardinality(R) |-> Row(t[Nth(R, i)])]
           Shown(f) == \E s \in R : t[s].flow = f /\ t[s].finished
<1>3. /\ lost' = lost \cup Evicted(table, t)
      /\ out' = [time |-> reports', rows |-> lines]
      /\ table' = [s \in Slots |->
            IF s \in R THEN [t[s] EXCEPT !.reported = t[s].completed] ELSE NoEntry]
      /\ final' = [f \in Flows |-> IF Shown(f) THEN final[f] + 1 ELSE final[f]]
  BY <1>2
<1>4. /\ Running /\ reports < MaxReports /\ reports' = reports + 1 /\ file' = NoFile
      /\ UNCHANGED <<idx, active, qp, una, stopped, tuner>>
  BY DEF MonitorHostFlowReport
<1>5. /\ t \in [Slots -> Entries]
      /\ \A s \in Slots : EntryOK(t[s], s, qp, una, final)
      /\ \A s \in Slots : Here(s) = {} => t[s] = table[s]
      /\ \A s \in Slots : Here(s) # {} =>
            /\ t[s].flow \in Here(s) /\ ~t[s].finished
            /\ t[s].completed = una[t[s].flow]
  BY <1>1, Synced
<1>6. R \in SUBSET Slots
      /\ \A s \in Slots : s \in R <=> t[s].flow # 0 /\ ~Clears(t[s])
  BY DEF Reported
<1> HIDE DEF t, R
<1>7. \A s \in R : t[s].flow \in Flows /\ Slot[t[s].flow] = s /\ t[s] # NoEntry
  <2> SUFFICES ASSUME NEW s \in R
               PROVE  t[s].flow \in Flows /\ Slot[t[s].flow] = s /\ t[s] # NoEntry
    OBVIOUS
  <2>1. t[s] # NoEntry /\ EntryOK(t[s], s, qp, una, final)
    BY <1>5, <1>6, NoEntryFacts
  <2> QED BY <2>1 DEF EntryOK
<1>8. /\ lines \in Seq(Rows)
      /\ \A s \in R : Row(t[s]) \in ToSet(lines)
      /\ \A r \in ToSet(lines) : \E s \in R : r = Row(t[s])
  BY <1>5, <1>6, <1>7, RowsOfReport
<1> HIDE DEF lines
<1>9. \A g : /\ g \in Evicted(table, t) =>
                  /\ g \in Flows /\ qp[g] = "done" /\ final[g] = 0
                  /\ table[Slot[g]].flow = g /\ t[Slot[g]].flow # g
             /\ /\ g \in Flows /\ qp[g] = "done" /\ final[g] = 0
                /\ table[Slot[g]].flow = g /\ t[Slot[g]].flow # g
                => g \in Evicted(table, t)
  BY <1>1, <1>5, EvictedFacts
\* A flow is shown finished only if it is, and has not been shown before.
<1>10. ASSUME NEW s \in R, t[s].finished
       PROVE  qp[t[s].flow] = "done" /\ final[t[s].flow] = 0
  <2>1. EntryOK(t[s], s, qp, una, final) /\ t[s] # NoEntry /\ t[s].flow \in Flows
    BY <1>5, <1>6, <1>7
  <2>2. t[s].reported # t[s].completed
    BY <1>6, <1>10 DEF Clears
  <2>3. qp[t[s].flow] = "done" /\ ~(final[t[s].flow] = 1)
    BY <2>1, <2>2, <1>10 DEF EntryOK
  <2> QED BY <2>1, <2>3, <1>1 DEF Types
<1>11. ASSUME NEW f \in Flows, Shown(f)
       PROVE  /\ qp[f] = "done" /\ final[f] = 0 /\ final'[f] = 1
              /\ t[Slot[f]].flow = f /\ t[Slot[f]].finished
  <2>1. PICK s \in R : t[s].flow = f /\ t[s].finished
    BY <1>11
  <2>2. Slot[f] = s
    BY <2>1, <1>7
  <2>3. qp[f] = "done" /\ final[f] = 0
    BY <2>1, <1>10
  <2>4. final'[f] = final[f] + 1
    BY <1>3, <1>11
  <2> QED BY <2>1, <2>2, <2>3, <2>4
<1>12. \A f \in Flows : ~Shown(f) => final'[f] = final[f]
  BY <1>3
<1>13. final' \in [Flows -> 0 .. 1]
  <2>1. final' = [f \in Flows |-> final'[f]]
    BY <1>3
  <2>2. \A f \in Flows : final'[f] \in 0 .. 1
    BY <1>1, <1>11, <1>12 DEF Types
  <2> QED BY <2>1, <2>2
<1>14. ASSUME NEW s \in R
       PROVE  /\ table'[s] \in Entries
              /\ table'[s].flow = t[s].flow /\ table'[s].size = t[s].size
              /\ table'[s].completed = t[s].completed
              /\ table'[s].finished = t[s].finished
              /\ table'[s].reported = t[s].completed
  <2>1. t[s] \in Entries /\ t[s].completed \in Int
    BY <1>5, <1>6 DEF Entries
  <2>2. table'[s] = [t[s] EXCEPT !.reported = t[s].completed]
    BY <1>3, <1>6
  <2>3. [t[s] EXCEPT !.reported = t[s].completed] \in Entries
    BY <2>1, Zenon DEF Entries
  <2> QED BY <2>1, <2>2, <2>3, Zenon DEF Entries
<1>15. \A s \in Slots \ R : table'[s] = NoEntry
  BY <1>3
<1>16. table' \in [Slots -> Entries]
  <2>1. table' = [s \in Slots |-> table'[s]]
    BY <1>3
  <2>2. \A s \in Slots : table'[s] \in Entries
    BY <1>14, <1>15, NoEntryFacts
  <2> QED BY <2>1, <2>2
<1>17. Types'
  <2>1. reports' \in 0 .. MaxReports
    BY <1>1, <1>4, FlowAssumption DEF Types
  <2>2. out' \in [time : Nat, rows : Seq(Rows)]
    BY <2>1, <1>3, <1>8, FlowAssumption
  <2>3. file' \in Contents
    BY <1>4 DEF NoFile, Contents
  <2>4. lost' \in SUBSET Flows
    BY <1>1, <1>3, <1>9 DEF Types
  <2> QED BY <1>1, <1>4, <1>13, <1>16, <2>1, <2>2, <2>3, <2>4 DEF Types
<1>18. TableOK'
  <2> SUFFICES ASSUME NEW s \in Slots
               PROVE  EntryOK(table'[s], s, qp, una, final')
    BY <1>4 DEF TableOK
  <2>1. CASE s \notin R
    BY <2>1, <1>15 DEF EntryOK
  <2>2. CASE s \in R
    <3>1. EntryOK(t[s], s, qp, una, final) /\ t[s] # NoEntry /\ t[s].flow \in Flows
      BY <2>2, <1>5, <1>7
    <3>2. t[s].finished => final'[t[s].flow] = 1
      BY <2>2, <3>1, <1>11
    <3> QED BY <2>2, <3>1, <3>2, <1>14 DEF EntryOK
  <2> QED BY <2>1, <2>2
<1>19. ASSUME NEW f \in Flows
       PROVE  FinalOK(f)'
  <2>1. FinalOK(f) /\ Slot[f] \in Slots
    BY <1>1, SlotFacts
  <2>2. qp'[f] # "done" => final'[f] = 0 /\ f \notin lost'
    <3>1. CASE Shown(f)
      BY <3>1, <1>4, <1>11
    <3>2. CASE ~Shown(f)
      BY <3>2, <2>1, <1>3, <1>4, <1>9, <1>12 DEF FinalOK
    <3> QED BY <3>1, <3>2
  \* A flow of before or of an open queue pair has the slot after the walk.
  <2>3. \/ t[Slot[f]] = table[Slot[f]]
        \/ /\ t[Slot[f]].flow \in Flows /\ qp[t[Slot[f]].flow] = "open"
           /\ Slot[t[Slot[f]].flow] = Slot[f]
    BY <2>1, <1>5 DEF Here, Open
  <2>4. ASSUME f \in lost'
        PROVE  /\ final'[f] = 0 /\ table'[Slot[f]].flow # f
               /\ \E g \in Flows \ {f} : Slot[g] = Slot[f]
    <3>1. final[f] = 0 /\ qp[f] = "done" /\ t[Slot[f]].flow # f
      <4>1. CASE f \in lost
        BY <4>1, <2>1, <2>3 DEF FinalOK
      <4>2. CASE f \in Evicted(table, t)
        BY <4>2, <1>9
      <4> QED BY <2>4, <4>1, <4>2, <1>3
    <3>2. final'[f] = 0
      BY <3>1, <1>11, <1>12
    <3>3. table'[Slot[f]].flow # f
      BY <3>1, <2>1, <1>14, <1>15, NoEntryFacts
    <3>4. \E g \in Flows \ {f} : Slot[g] = Slot[f]
      <4>1. CASE f \in lost
        BY <4>1, <2>1 DEF FinalOK
      <4>2. CASE f \in Evicted(table, t)
        <5>1. t[Slot[f]] # table[Slot[f]]
          BY <4>2, <1>9
        <5> QED BY <5>1, <2>3, <3>1
      <4> QED BY <2>4, <4>1, <4>2, <1>3
    <3> QED BY <3>2, <3>3, <3>4
  <2>5. ASSUME qp'[f] = "done", final'[f] = 0, f \notin lost'
        PROVE  FALSE
    <3>1. ~Shown(f) /\ final[f] = 0 /\ qp[f] = "done"
      BY <2>5, <1>4, <1>11, <1>12
    <3>2. f \notin lost /\ f \notin Evicted(table, t)
      BY <2>5, <1>3
    <3>3. table[Slot[f]].flow = f /\ table[Slot[f]].finished
      BY <2>1, <3>1, <3>2 DEF FinalOK
    <3>4. t[Slot[f]].flow = f
      BY <3>1, <3>2, <3>3, <1>9
    <3>5. t[Slot[f]] = table[Slot[f]]
      BY <3>1, <3>4, <2>3
    <3>6. EntryOK(t[Slot[f]], Slot[f], qp, una, final) /\ t[Slot[f]] # NoEntry
      BY <3>4, <2>1, <1>5, NoEntryFacts
    <3>7. t[Slot[f]].reported # t[Slot[f]].completed
      BY <3>1, <3>4, <3>6 DEF EntryOK
    <3>8. Slot[f] \in R
      BY <3>4, <3>7, <2>1, <1>6, NoEntryFacts DEF Clears
    <3> QED BY <3>1, <3>3, <3>4, <3>5, <3>8
  <2> QED BY <2>2, <2>4, <2>5 DEF FinalOK
<1>20. Writing'
  BY <1>3, <1>4, <1>8, <1>17 DEF Writing, NoFile, Types
<1>21. ReportIsCurrent'
  <2>1. out'.rows = lines /\ Open' = Open
    BY <1>3, <1>4 DEF Open
  <2>2. ASSUME NEW f \in Open
        PROVE  \E r \in ToSet(lines) : r.flow \in Open /\ Slot[r.flow] = Slot[f]
    <3> DEFINE s == Slot[f]
    <3>1. f \in Flows /\ s \in Slots /\ f \in Here(s)
      BY SlotFacts DEF Open, Here
    <3>2. t[s].flow \in Here(s) /\ ~t[s].finished
      BY <3>1, <1>5
    <3>3. t[s].flow \in Open /\ Slot[t[s].flow] = s /\ t[s].flow \in Flows
      BY <3>2 DEF Here, Open
    <3>4. s \in R
      BY <3>1, <3>2, <3>3, <1>6, NoEntryFacts DEF Clears
    <3>5. Row(t[s]) \in ToSet(lines) /\ Row(t[s]).flow = t[s].flow
      BY <3>4, <1>8 DEF Row
    <3> QED BY <3>3, <3>5
  <2>3. ASSUME NEW r \in ToSet(lines)
        PROVE  \/ qp[r.flow] = "open" /\ r.completed = una[r.flow]
               \/ qp[r.flow] = "done" /\ r.completed = Size[r.flow]
    <3>1. PICK s \in R : r = Row(t[s])
      BY <1>8
    <3>2. r.flow = t[s].flow /\ r.completed = t[s].completed /\ s \in Slots
      BY <3>1, <1>6 DEF Row
    <3>3. EntryOK(t[s], s, qp, una, final) /\ t[s] # NoEntry
      BY <3>2, <1>5, <1>7
    <3>4. CASE Here(s) = {}
      <4>1. qp[t[s].flow] # "open"
        BY <3>4, <1>7 DEF Here, Open
      <4> QED BY <4>1, <3>2, <3>3 DEF EntryOK
    <3>5. CASE Here(s) # {}
      <4>1. t[s].flow \in Here(s) /\ t[s].completed = una[t[s].flow]
        BY <3>2, <3>5, <1>5
      <4> QED BY <4>1, <3>2 DEF Here, Open
    <3> QED BY <3>4, <3>5
  <2> QED BY <2>1, <2>2, <2>3, <1>4 DEF ReportIsCurrent
<1>22. HashOK'
  <2>1. /\ reports \in Nat /\ tuner.hash.time \in Nat /\ tuner.hash.time <= reports
    BY <1>1 DEF IInv, HashOK, Types, Contents
  <2> QED BY <2>1, <1>4 DEF HashOK, NoFile
<1>23. LatestReportCounted'
  BY <1>4 DEF LatestReportCounted, NoFile
<1>24. Counted' /\ Progress' /\ EndedByFlows'
  BY <1>1, <1>4 DEF Counted, Progress, EndedByFlows
<1> QED BY <1>17, <1>18, <1>19, <1>20, <1>21, <1>22, <1>23, <1>24 DEF IInv

\* What a full buffer puts into the file is a part of the report being written.
LEMMA FlushStep ==
    ASSUME IInv, FlushReport
    PROVE  IInv'
<1>1. Types /\ Writing /\ HashOK
  BY DEF IInv
<1>0. PICK n \in Len(file.rows) + 1 .. Len(out.rows) :
        \E size \in 1 .. out.rows[n].size :
          file' = [time |-> out.time, whole |-> FALSE,
                   rows |-> [SubSeq(out.rows, 1, n) EXCEPT ![n].size = size]]
  BY DEF FlushReport
<1>2. PICK size \in 1 .. out.rows[n].size :
        file' = [time |-> out.time, whole |-> FALSE,
                 rows |-> [SubSeq(out.rows, 1, n) EXCEPT ![n].size = size]]
  BY <1>0
<1>3. out # NotWriting /\ UNCHANGED <<simVars, reports, out, tuner, final>>
  BY DEF FlushReport
<1>4. /\ out.time = reports /\ ~file.whole /\ Len(file.rows) <= Len(out.rows)
      /\ out.rows \in Seq(Rows) /\ out.time \in Nat /\ file.rows \in Seq(Rows)
  BY <1>1, <1>3 DEF Writing, Types, Contents
<1> DEFINE head == SubSeq(out.rows, 1, n)
           part == [head EXCEPT ![n].size = size]
<1>5. n \in 1 .. Len(out.rows) /\ n > Len(file.rows) /\ Len(file.rows) \in Nat
  BY <1>2, <1>4
<1>6. head \in Seq(Rows) /\ Len(head) = n
  BY <1>4, <1>5
<1>7. out.rows[n] \in Rows /\ size \in Nat
  <2>1. out.rows[n] \in Rows
    BY <1>4, <1>5
  <2>2. out.rows[n].size \in Nat
    BY <2>1 DEF Rows
  <2> QED BY <1>2, <2>1, <2>2
<1> HIDE DEF head
<1>8. part \in Seq(Rows) /\ Len(part) = n
  <2>1. head[n] \in Rows
    BY <1>5, <1>6
  <2>2. [head[n] EXCEPT !.size = size] \in Rows
    BY <2>1, <1>7 DEF Rows
  <2>3. part = [head EXCEPT ![n] = [head[n] EXCEPT !.size = size]]
    OBVIOUS
  <2> HIDE DEF part
  <2> QED BY <2>2, <2>3, <1>5, <1>6
<1> HIDE DEF part
<1>9. file' = [time |-> out.time, whole |-> FALSE, rows |-> part]
  BY <1>2 DEF part, head
<1>10. /\ file' \in Contents /\ file'.time = reports /\ file'.whole = FALSE
       /\ file'.rows = part
  BY <1>4, <1>8, <1>9 DEF Contents
<1>11. Types'
  BY <1>1, <1>3, <1>10 DEF Types, simVars
<1>12. Writing'
  BY <1>3, <1>4, <1>5, <1>8, <1>10 DEF Writing
<1>13. /\ tuner.hash.time \in Nat /\ reports \in Nat /\ tuner.hash.rows \in Seq(Rows)
       /\ tuner.hash.time <= reports
       /\ tuner.hash.time = reports =>
             Len(tuner.hash.rows) <= Len(file.rows) /\ ~tuner.hash.whole
  BY <1>1, <1>4 DEF HashOK, Types, Contents
<1>14. HashOK'
  BY <1>3, <1>4, <1>5, <1>8, <1>10, <1>13 DEF HashOK
<1>15. tuner'.hash # file'
  <2>1. tuner' = tuner /\ Len(tuner.hash.rows) \in Nat /\ Len(file'.rows) = n
    BY <1>3, <1>8, <1>10, <1>13
  <2> QED BY <2>1, <1>5, <1>10, <1>13
<1>16. LatestReportCounted'
  BY <1>15 DEF LatestReportCounted, Hash
<1>17. /\ Counted' /\ Progress' /\ EndedByFlows' /\ TableOK' /\ \A f \in Flows : FinalOK(f)'
       /\ ReportIsCurrent'
  BY <1>3 DEF IInv, Counted, Progress, EndedByFlows, TableOK, FinalOK, ReportIsCurrent,
              Open, simVars
<1> QED BY <1>11, <1>12, <1>14, <1>16, <1>17 DEF IInv

\* When the report is closed, all of it is in the file.
LEMMA CloseStep ==
    ASSUME IInv, CloseReport
    PROVE  IInv'
<1>1. Types /\ Writing /\ HashOK
  BY DEF IInv
<1>2. /\ out # NotWriting /\ file' = [time |-> out.time, rows |-> out.rows, whole |-> TRUE]
      /\ out' = NotWriting /\ UNCHANGED <<simVars, reports, tuner, final>>
  BY DEF CloseReport
<1>3. /\ out.time = reports /\ ~file.whole /\ Len(file.rows) <= Len(out.rows)
      /\ out.rows \in Seq(Rows) /\ out.time \in Nat /\ file.rows \in Seq(Rows)
  BY <1>1, <1>2 DEF Writing, Types, Contents
<1>4. /\ file' \in Contents /\ file'.time = reports /\ file'.whole = TRUE
      /\ file'.rows = out.rows
  BY <1>2, <1>3 DEF Contents
<1>5. Types'
  <2>1. out' \in [time : Nat, rows : Seq(Rows)]
    BY <1>2 DEF NotWriting
  <2> QED BY <2>1, <1>1, <1>2, <1>4 DEF Types, simVars
<1>6. /\ tuner.hash.time \in Nat /\ reports \in Nat /\ tuner.hash.rows \in Seq(Rows)
      /\ tuner.hash.time <= reports
      /\ tuner.hash.time = reports =>
            Len(tuner.hash.rows) <= Len(file.rows) /\ ~tuner.hash.whole
  BY <1>1, <1>3 DEF HashOK, Types, Contents
<1>7. HashOK'
  <2>1. Len(tuner.hash.rows) \in Nat /\ Len(file.rows) \in Nat /\ Len(out.rows) \in Nat
    BY <1>3, <1>6
  <2>2. tuner.hash.time = reports => Len(tuner.hash.rows) <= Len(out.rows)
    BY <2>1, <1>3, <1>6
  <2> QED BY <2>2, <1>2, <1>4, <1>6 DEF HashOK
<1>8. tuner'.hash # file'
  BY <1>2, <1>4, <1>6
<1>9. LatestReportCounted'
  BY <1>8 DEF LatestReportCounted, Hash
<1>10. Writing' /\ ReportIsCurrent'
  BY <1>2 DEF Writing, ReportIsCurrent
<1>11. Counted' /\ Progress' /\ EndedByFlows' /\ TableOK' /\ \A f \in Flows : FinalOK(f)'
  BY <1>2 DEF IInv, Counted, Progress, EndedByFlows, TableOK, FinalOK, simVars
<1> QED BY <1>5, <1>7, <1>9, <1>10, <1>11 DEF IInv

-----------------------------------------------------------------------------
(* The tuner *)

\* The main loop looks at the hash of the file and remembers it.
LEMMA PollStep ==
    ASSUME IInv, Poll
    PROVE  IInv'
<1>1. Types /\ HashOK
  BY DEF IInv
<1>2. /\ tuner' = [tuner EXCEPT !.pc = "load", !.hash = file]
      /\ UNCHANGED <<simVars, reports, out, file, final>>
  BY DEF Poll, Hash
<1>3. /\ tuner' \in [pc : {"poll", "load"}, hash : Contents,
                     large : SUBSET Flows, small : SUBSET Flows]
      /\ tuner'.hash = file /\ tuner'.pc = "load"
  BY <1>1, <1>2 DEF Types
<1>4. Types'
  BY <1>1, <1>2, <1>3 DEF Types, simVars
<1>5. HashOK'
  <2>1. file.rows \in Seq(Rows) /\ file.time <= reports
    BY <1>1 DEF Types, Contents, HashOK
  <2>2. Len(file.rows) \in Nat
    BY <2>1
  <2> QED BY <2>1, <2>2, <1>2, <1>3 DEF HashOK
<1>6. LatestReportCounted'
  BY <1>3 DEF LatestReportCounted
<1>7. /\ Counted' /\ Progress' /\ EndedByFlows' /\ TableOK' /\ \A f \in Flows : FinalOK(f)'
      /\ Writing' /\ ReportIsCurrent'
  BY <1>2 DEF IInv, Counted, Progress, EndedByFlows, TableOK, FinalOK, ReportIsCurrent,
              Open, Writing, simVars
<1> QED BY <1>4, <1>5, <1>6, <1>7 DEF IInv

\* The main loop classifies the flows of whatever the file holds by now.
LEMMA LoadStep ==
    ASSUME IInv, LoadAndClassify
    PROVE  IInv'
<1> DEFINE lines == ToSet(file.rows)
           isLarge(r) == Visible(r.completed, r.size) >= Threshold
           reaches(r) == /\ r.size >= Threshold
                         /\ r.completed > ((Threshold - 1) \div Chunk) * Chunk
           large == {r.flow : r \in {x \in lines : isLarge(x)}}
           small == {r.flow : r \in {x \in lines : ~isLarge(x)}}
<1>1. Types /\ HashOK
  BY DEF IInv
<1>2. /\ tuner' = IF lines = {} THEN [tuner EXCEPT !.pc = "poll"]
                  ELSE [tuner EXCEPT !.pc = "poll", !.large = large, !.small = small]
      /\ UNCHANGED <<simVars, reports, out, file, final>>
  BY DEF LoadAndClassify
<1>3. lines \subseteq Rows
  BY <1>1 DEF Types, Contents, ToSet
<1>4. \A r \in lines : isLarge(r) <=> reaches(r)
  <2> SUFFICES ASSUME NEW r \in lines PROVE isLarge(r) <=> reaches(r)
    OBVIOUS
  <2>1. r.completed \in Nat /\ r.size \in Nat
    BY <1>3 DEF Rows
  <2> QED BY <2>1, VisibleReaches
<1>5. \A r \in lines : r.flow \in Flows
  BY <1>3 DEF Rows
<1>6. file.rows # <<>> => lines # {}
  <2>1. file.rows \in Seq(Rows)
    BY <1>1 DEF Types, Contents
  <2>2. ASSUME file.rows # <<>>
        PROVE  1 \in DOMAIN file.rows
    BY <2>1, <2>2, EmptySeq
  <2> QED BY <2>2 DEF ToSet
<1> HIDE DEF lines, isLarge, reaches
<1>7. large \subseteq Flows /\ small \subseteq Flows
  BY <1>5
<1>8. /\ large = {r.flow : r \in {x \in lines : reaches(x)}}
      /\ large \cup small = {r.flow : r \in lines}
  BY <1>4
<1> HIDE DEF large, small
<1>9. /\ tuner' \in [pc : {"poll", "load"}, hash : Contents,
                     large : SUBSET Flows, small : SUBSET Flows]
      /\ tuner'.hash = tuner.hash
      /\ lines # {} => tuner'.large = large /\ tuner'.small = small
  BY <1>1, <1>2, <1>7 DEF Types
<1>10. Types'
  BY <1>1, <1>2, <1>9 DEF Types, simVars
<1>11. HashOK'
  BY <1>1, <1>2, <1>9 DEF HashOK
<1>12. LatestReportCounted'
  <2> SUFFICES ASSUME file'.rows # <<>>
               PROVE  /\ tuner'.large = {r.flow : r \in {x \in lines : reaches(x)}}
                      /\ tuner'.large \cup tuner'.small = {r.flow : r \in lines}
    BY <1>2 DEF LatestReportCounted, lines, reaches
  <2> QED BY <1>2, <1>6, <1>8, <1>9
<1>13. /\ Counted' /\ Progress' /\ EndedByFlows' /\ TableOK' /\ \A f \in Flows : FinalOK(f)'
       /\ Writing' /\ ReportIsCurrent'
  BY <1>2 DEF IInv, Counted, Progress, EndedByFlows, TableOK, FinalOK, ReportIsCurrent,
              Open, Writing, simVars
<1> QED BY <1>10, <1>11, <1>12, <1>13 DEF IInv

-----------------------------------------------------------------------------
(* The theorems *)

\* Every step of the simulation and of the tuner keeps the invariant.
THEOREM Invariance == Spec => []IInv
<1>1. IInv /\ [Next]_vars => IInv'
  <2> SUFFICES ASSUME IInv, [Next]_vars PROVE IInv'
    OBVIOUS
  <2>1. CASE ScheduleFlowInputs
    BY <2>1, ScheduleStep
  <2>9. CASE StopTime
    BY <2>9, StopTimeStep
  <2>2. ASSUME NEW f \in Flows, StartApplication(f) \/ Acknowledge(f) \/ QpFinish(f)
        PROVE  IInv'
    BY <2>2, StartStep, AcknowledgeStep, FinishStep
  <2>3. CASE MonitorHostFlowReport
    BY <2>3, ReportStep
  <2>4. CASE FlushReport
    BY <2>4, FlushStep
  <2>5. CASE CloseReport
    BY <2>5, CloseStep
  <2>6. CASE Poll
    BY <2>6, PollStep
  <2>7. CASE LoadAndClassify
    BY <2>7, LoadStep
  <2>8. CASE UNCHANGED vars
    <3>1. Types' /\ Counted' /\ Progress' /\ EndedByFlows'
      BY <2>8 DEF IInv, Types, Counted, Progress, EndedByFlows, vars, simVars
    <3>2. TableOK' /\ \A f \in Flows : FinalOK(f)'
      BY <2>8 DEF IInv, TableOK, FinalOK, vars, simVars
    <3>3. Writing' /\ ReportIsCurrent'
      BY <2>8 DEF IInv, Writing, ReportIsCurrent, Open, vars, simVars
    <3>4. HashOK' /\ LatestReportCounted'
      BY <2>8 DEF IInv, HashOK, LatestReportCounted, Hash, vars, simVars
    <3> QED BY <3>1, <3>2, <3>3, <3>4 DEF IInv
  <2> QED BY <2>1, <2>2, <2>3, <2>4, <2>5, <2>6, <2>7, <2>8, <2>9
            DEF Next, Simulate, Tune
<1> QED BY <1>1, InitIInv, PTL DEF Spec

\* Type correctness: active_flow_count is the number of flows that were
\* installed and have not finished, and an entry is in the slot of its flow.
THEOREM TypeCorrect == Spec => []TypeOK
<1>1. ASSUME IInv PROVE TypeOK
  <2>1. Types /\ Counted /\ Progress /\ TableOK
    BY <1>1 DEF IInv
  <2>2. \A f \in Flows : una[f] <= Size[f]
    BY <2>1, SlotFacts DEF Progress, Types
  <2>3. \A s \in Slots : table[s] = NoEntry \/ Slot[table[s].flow] = s
    BY <2>1 DEF TableOK, EntryOK
  <2>4. tuner.large \cup tuner.small \subseteq Flows
    BY <2>1 DEF Types
  <2> QED BY <2>1, <2>2, <2>3, <2>4 DEF TypeOK, Types, Counted
<1> QED BY <1>1, Invariance, PTL

\* A report speaks for every slot with an open queue pair, with its progress,
\* and shows a queue pair that is gone with its full size.
THEOREM ReportsAreCurrent == Spec => []ReportIsCurrent
<1>1. IInv => ReportIsCurrent
  BY DEF IInv
<1> QED BY <1>1, Invariance, PTL

\* A finished flow is reported as such once, unless a flow of the same slot
\* took its entry before.
THEOREM FinishedOnce == Spec => []FinalReportedOnce
<1>1. ASSUME IInv PROVE FinalReportedOnce
  <2>1. \A f \in Flows : final[f] <= 1
    BY <1>1 DEF IInv, Types
  <2> QED BY <1>1, <2>1 DEF IInv, FinalOK, FinalReportedOnce
<1> QED BY <1>1, Invariance, PTL

\* When the tuner finds nothing new in the file, it has classified the flows of
\* all of it, although it reads the file again after it has hashed it.
THEOREM LatestIsCounted == Spec => []LatestReportCounted
<1>1. IInv => LatestReportCounted
  BY DEF IInv
<1> QED BY <1>1, Invariance, PTL

\* MaybeStopWhenAllFlowsFinish stops the simulation, before its stop time, exactly
\* if no flow is to come or under way.
THEOREM EndsWithTheFlows == Spec => []EndedByFlows
<1>1. IInv => EndedByFlows
  BY DEF IInv
<1> QED BY <1>1, Invariance, PTL

-----------------------------------------------------------------------------
(* PfcAccounting.  Nothing below uses the state or the constants of FlowMonitor. *)

\* What is written, and what may be read: a row that was cut has no known type.
TraceRows == [time : Nat, link : Links, type : {Pause, Resume}]
ReadRows == [time : Nat, link : Links, type : {Pause, Resume, Unknown}]

\* A row adds or removes its link, or none.
LEMMA ApplyIs ==
    ASSUME NEW links \in SUBSET Links, NEW row \in ReadRows
    PROVE  /\ Apply(links, row) \in SUBSET Links
           /\ row.type = Pause => Apply(links, row) = links \cup {row.link}
           /\ row.type = Resume => Apply(links, row) = links \ {row.link}
           /\ row.type = Unknown => Apply(links, row) = links
BY DEF Apply, ReadRows, Pause, Resume, Unknown

\* The links after each of the rows.
IsReplay(links, rs, f) ==
    /\ f \in [0 .. Len(rs) -> SUBSET Links] /\ f[0] = links
    /\ \A i \in 1 .. Len(rs) : f[i] = Apply(f[i - 1], rs[i])

\* The loop over the rows ends with the links after the last one.
LEMMA ReplayRuns ==
    ASSUME NEW links \in SUBSET Links, NEW rs \in Seq(ReadRows)
    PROVE  \E f : IsReplay(links, rs, f) /\ Replay(links, rs) = f[Len(rs)]
<1> DEFINE n == Len(rs)
           S == SUBSET Links
           step == [c \in (1 .. n) \X S |-> Apply(c[2], rs[c[1]])]
<1>1. n \in Nat /\ \A i \in 1 .. n : rs[i] \in ReadRows
  BY LenProperties, ElementOfSeq
<1>2. step \in [(1 .. n) \X S -> S]
  BY <1>1, ApplyIs
<1>3. \A i \in 1 .. n : \A s \in S : step[<<i, s>>] = Apply(s, rs[i])
  OBVIOUS
<1> HIDE DEF step
<1>4. RunOf(n, S, links, step) # {}
  BY <1>1, <1>2, RunExists
<1>5. PICK f : f \in RunOf(n, S, links, step)
  BY <1>4
<1>6. /\ f \in [0 .. n -> S] /\ f[0] = links
      /\ \A i \in 1 .. n : f[i] = step[<<i, f[i - 1]>>]
  BY <1>5 DEF RunOf
<1> HIDE DEF n
<1>7. ASSUME NEW i \in 1 .. n PROVE f[i] = Apply(f[i - 1], rs[i])
  <2>1. i - 1 \in 0 .. n
    BY <1>1
  <2>2. f[i - 1] \in S
    BY <1>6, <2>1
  <2>3. step[<<i, f[i - 1]>>] = Apply(f[i - 1], rs[i])
    BY <1>3, <2>2
  <2> QED BY <1>6, <2>3
<1> DEFINE g == [i \in 0 .. n |-> IF i = 0 THEN links ELSE Apply(f[i - 1], rs[i])]
<1>8. f = g
  <2>1. \A i \in 0 .. n : f[i] = g[i]
    BY <1>1, <1>6, <1>7
  <2> QED BY <1>6, <2>1
<1>9. \E r : r = [i \in 0 .. Len(rs) |-> IF i = 0 THEN links ELSE Apply(r[i - 1], rs[i])]
  BY <1>8 DEF n
<1>10. PICK r : /\ r = [i \in 0 .. Len(rs) |-> IF i = 0 THEN links ELSE Apply(r[i - 1], rs[i])]
                /\ Replay(links, rs) = r[Len(rs)]
  BY <1>9, Zenon DEF Replay
<1>11. /\ DOMAIN r = 0 .. n /\ r[0] = links
       /\ \A i \in 1 .. n : r[i] = Apply(r[i - 1], rs[i])
  <2> DEFINE e == [i \in 0 .. n |-> IF i = 0 THEN links ELSE Apply(r[i - 1], rs[i])]
  <2>1. /\ DOMAIN e = 0 .. n /\ e[0] = links
        /\ \A i \in 1 .. n : e[i] = Apply(r[i - 1], rs[i])
    BY <1>1
  <2>2. r = e
    BY <1>10 DEF n
  <2> HIDE DEF e
  <2> QED BY <2>1, <2>2
<1>12. \A i \in 0 .. n : r[i] \in S
  <2> DEFINE T == {i \in 0 .. n : r[i] \notin S}
  <2>1. SUFFICES ASSUME T # {} PROVE FALSE
    OBVIOUS
  <2>2. T \in SUBSET Nat
    BY <1>1
  <2>3. \E i \in T : \A j \in T : i <= j
    <3> HIDE DEF T
    <3> QED BY <2>1, <2>2, LeastElement
  <2>4. PICK i \in T : \A j \in T : i <= j
    BY <2>3
  <2>5. i # 0
    BY <1>11, <2>4
  <2>6. i \in 1 .. n /\ i - 1 \in 0 .. n /\ i - 1 \notin T
    BY <1>1, <2>4, <2>5
  <2>7. r[i - 1] \in S
    BY <2>6
  <2>8. Apply(r[i - 1], rs[i]) \in S
    BY <1>1, <2>6, <2>7, ApplyIs
  <2> QED BY <1>11, <2>4, <2>6, <2>8
<1>13. r \in [0 .. n -> S]
  BY <1>10, <1>11, <1>12
<1>14. IsReplay(links, rs, r)
  BY <1>11, <1>13 DEF IsReplay, n
<1> QED BY <1>10, <1>14

\* Rows of other links do not matter.
LEMMA ReplayKeeps ==
    ASSUME NEW links \in SUBSET Links, NEW rs \in Seq(ReadRows), NEW f,
           IsReplay(links, rs, f), NEW l, NEW a \in 0 .. Len(rs),
           \A i \in 1 .. Len(rs) : i > a => rs[i].link # l
    PROVE  l \in f[Len(rs)] <=> l \in f[a]
<1> DEFINE n == Len(rs)
           T == {i \in a .. n : ~(l \in f[i] <=> l \in f[a])}
<1>1. n \in Nat /\ a \in Nat /\ a <= n /\ \A i \in 1 .. n : rs[i] \in ReadRows
  BY LenProperties, ElementOfSeq
<1>2. /\ f \in [0 .. n -> SUBSET Links]
      /\ \A i \in 1 .. n : f[i] = Apply(f[i - 1], rs[i])
  BY DEF IsReplay
<1> HIDE DEF n
<1>3. T = {}
  <2>1. SUFFICES ASSUME T # {} PROVE FALSE
    OBVIOUS
  <2>2. T \in SUBSET Nat
    BY <1>1
  <2>3. \E i \in T : \A j \in T : i <= j
    <3> HIDE DEF T
    <3> QED BY <2>1, <2>2, LeastElement
  <2>4. PICK i \in T : \A j \in T : i <= j
    BY <2>3
  <2>5. i # a /\ i \in 1 .. n /\ i > a /\ i - 1 \in a .. n /\ i - 1 \in 0 .. n /\ i - 1 \notin T
    BY <1>1, <2>4
  <2>6. l \in f[i - 1] <=> l \in f[a]
    BY <2>5
  <2>7. f[i - 1] \in SUBSET Links /\ rs[i] \in ReadRows /\ rs[i].link # l
    BY <1>1, <1>2, <2>5 DEF n
  <2>8. rs[i].type \in {Pause, Resume, Unknown}
    BY <2>7 DEF ReadRows
  <2>9. l \in Apply(f[i - 1], rs[i]) <=> l \in f[i - 1]
    BY <2>7, <2>8, ApplyIs
  <2> QED BY <1>2, <2>4, <2>5, <2>6, <2>9
<1>4. n \in a .. n
  BY <1>1
<1> QED BY <1>3, <1>4 DEF n

\* The last row of a link decides.
LEMMA ReplayIs ==
    ASSUME NEW links \in SUBSET Links, NEW rs \in Seq(ReadRows), NEW l
    PROVE  /\ Replay(links, rs) \in SUBSET Links
           /\ (\A i \in 1 .. Len(rs) : rs[i].link # l) =>
                 (l \in Replay(links, rs) <=> l \in links)
           /\ \A i \in 1 .. Len(rs) :
                 /\ rs[i].link = l /\ rs[i].type # Unknown
                 /\ \A j \in 1 .. Len(rs) : j > i => rs[j].link # l
                 => (l \in Replay(links, rs) <=> rs[i].type = Pause)
<1>1. PICK f : IsReplay(links, rs, f) /\ Replay(links, rs) = f[Len(rs)]
  BY ReplayRuns
<1> DEFINE n == Len(rs)
<1>2. /\ n \in Nat /\ 0 \in 0 .. n /\ n \in 0 .. n
      /\ \A i \in 1 .. n : rs[i] \in ReadRows /\ i \in 0 .. n
  BY LenProperties, ElementOfSeq
<1>3. /\ f \in [0 .. n -> SUBSET Links] /\ f[0] = links
      /\ \A i \in 1 .. n : f[i] = Apply(f[i - 1], rs[i])
  BY <1>1 DEF IsReplay
<1>4. f[n] \in SUBSET Links
  BY <1>2, <1>3
<1>5. ASSUME \A i \in 1 .. n : rs[i].link # l PROVE l \in f[n] <=> l \in links
  <2>1. l \in f[n] <=> l \in f[0]
    BY <1>1, <1>2, <1>5, ReplayKeeps
  <2> QED BY <1>3, <2>1
<1>6. ASSUME NEW i \in 1 .. n, rs[i].link = l, rs[i].type # Unknown,
             \A j \in 1 .. n : j > i => rs[j].link # l
      PROVE  l \in f[n] <=> rs[i].type = Pause
  <2>1. l \in f[n] <=> l \in f[i]
    BY <1>1, <1>2, <1>6, ReplayKeeps
  <2>2. i - 1 \in 0 .. n
    BY <1>2
  <2>3. f[i - 1] \in SUBSET Links /\ rs[i] \in ReadRows /\ f[i] = Apply(f[i - 1], rs[i])
    BY <1>2, <1>3, <2>2
  <2>4. rs[i].type \in {Pause, Resume}
    BY <2>3, <1>6 DEF ReadRows
  <2>5. Pause # Resume
    BY DEF Pause, Resume
  <2>6. l \in f[i] <=> rs[i].type = Pause
    BY <1>6, <2>3, <2>4, <2>5, ApplyIs
  <2> QED BY <2>1, <2>6
<1> HIDE DEF n
<1>7. Replay(links, rs) = f[n]
  BY <1>1 DEF n
<1> QED BY <1>4, <1>5, <1>6, <1>7 DEF n

\* A link is paused after some rows only if it was before or one of them pauses it.
LEMMA ReplayFrom ==
    ASSUME NEW links \in SUBSET Links, NEW rs \in Seq(ReadRows),
           NEW l \in Replay(links, rs)
    PROVE  l \in links \/ \E i \in 1 .. Len(rs) : rs[i].link = l /\ rs[i].type = Pause
<1>1. PICK f : IsReplay(links, rs, f) /\ Replay(links, rs) = f[Len(rs)]
  BY ReplayRuns
<1> DEFINE n == Len(rs)
           T == {i \in 0 .. n : l \in f[i]}
<1>2. n \in Nat /\ \A i \in 1 .. n : rs[i] \in ReadRows
  BY LenProperties, ElementOfSeq
<1>3. /\ f \in [0 .. n -> SUBSET Links] /\ f[0] = links
      /\ \A i \in 1 .. n : f[i] = Apply(f[i - 1], rs[i])
  BY <1>1 DEF IsReplay
<1>4. l \in f[n]
  BY <1>1
<1> HIDE DEF n
<1>5. T # {} /\ T \in SUBSET Nat
  BY <1>2, <1>4
<1>6. \E i \in T : \A j \in T : i <= j
  <2> HIDE DEF T
  <2> QED BY <1>5, LeastElement
<1>7. PICK i \in T : \A j \in T : i <= j
  BY <1>6
<1>8. CASE i = 0
  BY <1>3, <1>7, <1>8
<1>9. CASE i # 0
  <2>1. i \in 1 .. n /\ i - 1 \in 0 .. n /\ i - 1 \notin T
    BY <1>2, <1>7, <1>9
  <2>2. l \notin f[i - 1] /\ l \in Apply(f[i - 1], rs[i])
    BY <1>3, <1>7, <2>1
  <2>3. f[i - 1] \in SUBSET Links /\ rs[i] \in ReadRows
    BY <1>2, <1>3, <2>1
  <2>4. rs[i].type \in {Pause, Resume, Unknown}
    BY <2>3 DEF ReadRows
  <2>5. rs[i].type = Pause /\ rs[i].link = l
    BY <2>2, <2>3, <2>4, ApplyIs
  <2> QED BY <2>1, <2>5 DEF n
<1> QED BY <1>8, <1>9

\* The positions of the first n rows up to time x.
TimesUpTo(s, n, x) == {i \in 1 .. n : s[i].time <= x}

\* In rows whose times never go back, those up to a time are the first ones.
LEMMA RowsUpTo ==
    ASSUME NEW n \in Nat, NEW s, NEW x \in Int,
           \A i \in 1 .. n : s[i].time \in Int,
           \A i, j \in 1 .. n : i <= j => s[i].time <= s[j].time
    PROVE  /\ Cardinality(TimesUpTo(s, n, x)) \in 0 .. n
           /\ TimesUpTo(s, n, x) = 1 .. Cardinality(TimesUpTo(s, n, x))
<1> DEFINE S == TimesUpTo(s, n, x)
           T == (1 .. n + 1) \ S
<1>0. \A i : i \in S <=> i \in 1 .. n /\ s[i].time <= x
  BY DEF TimesUpTo
<1> HIDE DEF S
<1>1. n + 1 \in T /\ T \in SUBSET Nat /\ T # {}
  <2>1. n + 1 \in 1 .. n + 1 /\ n + 1 \notin S
    BY <1>0
  <2>2. \A i \in 1 .. n + 1 : i \in Nat
    OBVIOUS
  <2> QED BY <2>1, <2>2
<1>2. \E m \in T : \A j \in T : m <= j
  <2> HIDE DEF T
  <2> QED BY <1>1, LeastElement
<1>3. PICK m \in T : \A j \in T : m <= j
  BY <1>2
<1>4. m \in 1 .. n + 1 /\ m \notin S
  BY <1>3
<1>5. ASSUME NEW i \in S PROVE i \in 1 .. m - 1
  <2>1. i \in 1 .. n /\ s[i].time <= x
    BY <1>0
  <2>2. CASE m = n + 1
    BY <2>1, <2>2
  <2>3. CASE m # n + 1
    <3>1. m \in 1 .. n /\ ~(s[m].time <= x)
      BY <1>0, <1>4, <2>3
    <3>2. ~(m <= i)
      BY <2>1, <3>1
    <3> QED BY <2>1, <3>1, <3>2
  <2> QED BY <2>2, <2>3
<1>6. ASSUME NEW i \in 1 .. m - 1 PROVE i \in S
  <2>1. i \in 1 .. n + 1 /\ ~(m <= i)
    BY <1>4
  <2> QED BY <2>1, <1>3
<1>7. S = 1 .. m - 1
  BY <1>5, <1>6
<1>8. Cardinality(1 .. m - 1) = m - 1
  BY <1>4, FS_Interval
<1>9. Cardinality(S) = m - 1
  BY <1>7, <1>8
<1>10. m - 1 \in 0 .. n
  BY <1>4
<1> QED BY <1>7, <1>9, <1>10 DEF S

-----------------------------------------------------------------------------
(* The inductive invariant of the trace and its two readers *)

PfcReaders ==
    [line : Nat, links : SUBSET Links, stop : Nat, counted : SUBSET Links, from : Nat,
     upto : Nat, top : Nat, misread : SUBSET Links, whole : BOOLEAN, exact : BOOLEAN]

\* Rows are written in the order of their times.
TraceOk(rs, v, t) ==
    /\ t \in Nat /\ rs \in Seq(TraceRows) /\ v \in 0 .. Len(rs)
    /\ \A i, j \in 1 .. Len(rs) : i <= j => rs[i].time <= rs[j].time
    /\ \A i \in 1 .. Len(rs) : rs[i].time <= t

\* Where a reader stands: its line is among the visible rows and not beyond the
\* latest window, and at the end of a window that was read in full and in order.
\* The rows that the window should have taken in stay the first ones.
Placed(x, rs, v, t) ==
    /\ x.line <= v /\ x.from <= Len(rs) /\ x.upto <= Len(rs)
    /\ x.stop <= x.top /\ x.top <= t
    /\ \A i \in 1 .. x.line : rs[i].time <= x.top
    /\ \A i \in 1 .. x.upto : rs[i].time <= x.stop
    /\ \A i \in 1 .. Len(rs) : i > x.upto => rs[i].time >= x.stop
    /\ x.whole /\ x.stop = x.top => x.line = x.upto

\* Paused, and the links that rows a + 1 to b pause, for any rows.
PausedIn(rs, n) ==
    {l \in Links : \E i \in 1 .. n : /\ rs[i].link = l /\ rs[i].type = Pause
                                     /\ \A j \in i + 1 .. n : rs[j].link # l}
PausesOf(rs, a, b) == {rs[i].link : i \in {j \in a + 1 .. b : rs[j].type = Pause}}

\* The two properties, of one reader.
Carries(x, rs) == \A l \in Links \ x.misread : l \in x.links <=> l \in PausedIn(rs, x.line)
Counts(x, rs) ==
    x.exact => x.counted = PausedIn(rs, x.from) \cup PausesOf(rs, x.from, x.upto)
ReaderOk(x, rs, v, t) ==
    x \in PfcReaders /\ Placed(x, rs, v, t) /\ Carries(x, rs) /\ Counts(x, rs)

PfcInv ==
    /\ TraceOk(rows, visible, now) /\ cut \in BOOLEAN
    /\ reader \in [Readers -> PfcReaders]
    /\ \A r \in Readers : ReaderOk(reader[r], rows, visible, now)

\* The rows of the trace.
LEMMA TraceIs ==
    ASSUME NEW rs, NEW v, NEW t, TraceOk(rs, v, t)
    PROVE  /\ Len(rs) \in Nat /\ v \in Nat /\ v <= Len(rs) /\ t \in Nat
           /\ \A i \in 1 .. Len(rs) :
                 /\ rs[i] \in TraceRows /\ rs[i].time \in Nat /\ rs[i].link \in Links
                 /\ rs[i].type \in {Pause, Resume}
<1>1. Len(rs) \in Nat
  BY LenProperties DEF TraceOk
<1>2. \A i \in 1 .. Len(rs) : rs[i] \in TraceRows
  BY ElementOfSeq DEF TraceOk
<1>3. v \in Nat /\ v <= Len(rs) /\ t \in Nat
  BY <1>1 DEF TraceOk
<1> QED BY <1>1, <1>2, <1>3 DEF TraceRows

\* The last row of a link says whether it is paused, ...
LEMMA PausedByLast ==
    ASSUME NEW rs, NEW l \in Links, NEW n \in Nat, NEW i \in 1 .. n, rs[i].link = l,
           \A j \in 1 .. n : j > i => rs[j].link # l
    PROVE  l \in PausedIn(rs, n) <=> rs[i].type = Pause
<1>1. ASSUME rs[i].type = Pause PROVE l \in PausedIn(rs, n)
  <2>1. \A j \in i + 1 .. n : rs[j].link # l
    OBVIOUS
  <2> QED BY <1>1, <2>1 DEF PausedIn
<1>2. ASSUME l \in PausedIn(rs, n) PROVE rs[i].type = Pause
  <2>1. PICK k \in 1 .. n : /\ rs[k].link = l /\ rs[k].type = Pause
                            /\ \A j \in k + 1 .. n : rs[j].link # l
    BY <1>2 DEF PausedIn
  <2>2. ~(k > i)
    BY <2>1
  <2>3. ~(i > k)
    BY <2>1
  <2>4. k = i
    BY <2>2, <2>3
  <2> QED BY <2>1, <2>4
<1> QED BY <1>1, <1>2

\* ... and rows of other links do not.
LEMMA PausedKept ==
    ASSUME NEW rs, NEW l \in Links, NEW a \in Nat, NEW n \in Nat, a <= n,
           \A j \in 1 .. n : j > a => rs[j].link # l
    PROVE  l \in PausedIn(rs, n) <=> l \in PausedIn(rs, a)
<1>1. ASSUME l \in PausedIn(rs, n) PROVE l \in PausedIn(rs, a)
  <2>1. PICK k \in 1 .. n : /\ rs[k].link = l /\ rs[k].type = Pause
                            /\ \A j \in k + 1 .. n : rs[j].link # l
    BY <1>1 DEF PausedIn
  <2>2. k \in 1 .. a /\ \A j \in k + 1 .. a : rs[j].link # l
    BY <2>1
  <2> QED BY <2>1, <2>2 DEF PausedIn
<1>2. ASSUME l \in PausedIn(rs, a) PROVE l \in PausedIn(rs, n)
  <2>1. PICK k \in 1 .. a : /\ rs[k].link = l /\ rs[k].type = Pause
                            /\ \A j \in k + 1 .. a : rs[j].link # l
    BY <1>2 DEF PausedIn
  <2>2. k \in 1 .. n
    OBVIOUS
  <2>3. ASSUME NEW j \in k + 1 .. n PROVE rs[j].link # l
    <3>1. j \in k + 1 .. a \/ (j \in 1 .. n /\ j > a)
      BY <2>1
    <3> QED BY <2>1, <3>1
  <2> QED BY <2>1, <2>2, <2>3 DEF PausedIn
<1> QED BY <1>1, <1>2

\* Two traces with the same first n rows, and what is the same of them then.
SameRows(rs, ss, n) == \A i \in 1 .. n : ss[i] = rs[i]
SamePauses(rs, ss, n) ==
    /\ \A a \in 0 .. n : PausedIn(ss, a) = PausedIn(rs, a)
    /\ \A a \in Nat, b \in 0 .. n : PausesOf(ss, a, b) = PausesOf(rs, a, b)

\* The past of the trace does not change when rows are written.
LEMMA PastKept ==
    ASSUME NEW n \in Nat, NEW rs, NEW ss, SameRows(rs, ss, n)
    PROVE  SamePauses(rs, ss, n)
<1>0. \A i \in 1 .. n : ss[i] = rs[i]
  BY DEF SameRows
<1>1. ASSUME NEW a \in 0 .. n PROVE PausedIn(ss, a) = PausedIn(rs, a)
  <2>1. \A i \in 1 .. a : ss[i] = rs[i] /\ \A j \in i + 1 .. a : ss[j] = rs[j]
    BY <1>0
  <2>2. \A l \in Links : l \in PausedIn(ss, a) <=> l \in PausedIn(rs, a)
    BY <2>1 DEF PausedIn
  <2> QED BY <2>2 DEF PausedIn
<1>2. ASSUME NEW a \in Nat, NEW b \in 0 .. n PROVE PausesOf(ss, a, b) = PausesOf(rs, a, b)
  <2>1. \A j \in a + 1 .. b : ss[j] = rs[j]
    BY <1>0
  <2> QED BY <2>1 DEF PausesOf
<1> QED BY <1>1, <1>2 DEF SamePauses

\* Rows that are written or shown, and time that passes, disturb no reader.
LEMMA ReaderStays ==
    ASSUME NEW x, NEW rs, NEW v, NEW t, TraceOk(rs, v, t), ReaderOk(x, rs, v, t),
           NEW ss, NEW w, NEW u, TraceOk(ss, w, u), t <= u, v <= w, Len(rs) <= Len(ss),
           \A i \in 1 .. Len(rs) : ss[i] = rs[i],
           \A i \in 1 .. Len(ss) : i > Len(rs) => ss[i].time >= t
    PROVE  ReaderOk(x, ss, w, u)
<1>1. /\ Len(rs) \in Nat /\ v \in Nat /\ t \in Nat /\ v <= Len(rs)
      /\ Len(ss) \in Nat /\ w \in Nat /\ u \in Nat
      /\ \A i \in 1 .. Len(ss) : ss[i].time \in Nat
  BY TraceIs
<1>2. x \in PfcReaders /\ Placed(x, rs, v, t) /\ Carries(x, rs) /\ Counts(x, rs)
  BY DEF ReaderOk
<1>3. x.line \in Nat /\ x.stop \in Nat /\ x.from \in Nat /\ x.upto \in Nat /\ x.top \in Nat
  BY <1>2 DEF PfcReaders
<1>4. /\ x.line <= v /\ x.from <= Len(rs) /\ x.upto <= Len(rs)
      /\ x.stop <= x.top /\ x.top <= t
      /\ \A i \in 1 .. x.line : rs[i].time <= x.top
      /\ \A i \in 1 .. x.upto : rs[i].time <= x.stop
      /\ \A i \in 1 .. Len(rs) : i > x.upto => rs[i].time >= x.stop
      /\ x.whole /\ x.stop = x.top => x.line = x.upto
  BY <1>2 DEF Placed
<1>5. Placed(x, ss, w, u)
  <2>1. /\ x.line <= w /\ x.from <= Len(ss) /\ x.upto <= Len(ss)
        /\ x.stop <= x.top /\ x.top <= u
    <3>1. x.line <= v /\ x.from <= Len(rs) /\ x.upto <= Len(rs) /\ x.stop <= x.top /\ x.top <= t
      BY <1>4
    <3>2. /\ Len(rs) \in Nat /\ v \in Nat /\ t \in Nat
          /\ Len(ss) \in Nat /\ w \in Nat /\ u \in Nat
      BY <1>1
    <3> QED BY <1>3, <3>1, <3>2, SMTT(20)
  <2>2. \A i \in 1 .. x.line : ss[i].time <= x.top
    BY <1>1, <1>3, <1>4
  <2>3. \A i \in 1 .. x.upto : ss[i].time <= x.stop
    BY <1>1, <1>3, <1>4
  <2>4. ASSUME NEW i \in 1 .. Len(ss), i > x.upto PROVE ss[i].time >= x.stop
    <3>1. CASE i \in 1 .. Len(rs)
      BY <1>4, <2>4, <3>1
    <3>2. CASE i > Len(rs)
      <4>1. ss[i].time >= t /\ ss[i].time \in Nat
        BY <1>1, <3>2
      <4> QED BY <4>1, <1>1, <1>3, <1>4
    <3> QED BY <3>1, <3>2, <1>1
  <2> QED BY <1>4, <2>1, <2>2, <2>3, <2>4 DEF Placed
<1>6. x.line \in 0 .. Len(rs) /\ x.from \in 0 .. Len(rs) /\ x.upto \in 0 .. Len(rs)
  BY <1>1, <1>3, <1>4
<1>7. /\ PausedIn(ss, x.line) = PausedIn(rs, x.line)
      /\ PausedIn(ss, x.from) = PausedIn(rs, x.from)
      /\ PausesOf(ss, x.from, x.upto) = PausesOf(rs, x.from, x.upto)
  <2> DEFINE n == Len(rs)
             a == x.from
             b == x.upto
  <2>1. /\ n \in Nat /\ SameRows(rs, ss, n)
        /\ x.line \in 0 .. n /\ a \in 0 .. n /\ a \in Nat /\ b \in 0 .. n
    BY <1>1, <1>3, <1>6 DEF SameRows
  <2> HIDE DEF n, a, b
  <2>2. SamePauses(rs, ss, n)
    BY <2>1, PastKept, Zenon
  <2>3. /\ PausedIn(ss, x.line) = PausedIn(rs, x.line)
        /\ PausedIn(ss, a) = PausedIn(rs, a)
        /\ PausesOf(ss, a, b) = PausesOf(rs, a, b)
    BY <2>1, <2>2 DEF SamePauses
  <2> QED BY <2>3 DEF a, b
<1>8. Carries(x, ss) /\ Counts(x, ss)
  BY <1>2, <1>7 DEF Carries, Counts
<1> QED BY <1>2, <1>5, <1>8 DEF ReaderOk

-----------------------------------------------------------------------------
(* What a read takes in *)

\* A set of positions has a last one.
LEMMA LastOf ==
    ASSUME NEW n \in Nat, NEW S \in SUBSET (1 .. n), S # {}
    PROVE  \E i \in S : \A j \in S : j <= i
<1> DEFINE T == {n - i : i \in S}
<1>1. T \in SUBSET Nat /\ T # {}
  <2>1. \A i \in S : i \in 1 .. n
    OBVIOUS
  <2>2. \A i \in S : n - i \in Nat
    BY <2>1
  <2> QED BY <2>2
<1>2. \E m \in T : \A k \in T : m <= k
  <2> HIDE DEF T
  <2> QED BY <1>1, LeastElement
<1>3. PICK i \in S : \A k \in T : n - i <= k
  BY <1>2
<1>4. ASSUME NEW j \in S PROVE j <= i
  <2>1. n - j \in T
    OBVIOUS
  <2>2. n - i <= n - j
    BY <1>3, <2>1
  <2>3. i \in 1 .. n /\ j \in 1 .. n
    OBVIOUS
  <2> QED BY <2>2, <2>3
<1> QED BY <1>4

\* D is what can be read of rs: the last row may be cut.
DataOk(D, rs, v, c) ==
    /\ D \in Seq(ReadRows) /\ Len(D) = v
    /\ \A i \in 1 .. v : /\ D[i].time = rs[i].time /\ D[i].link = rs[i].link
                         /\ ~(c /\ i = v) => D[i].type = rs[i].type
                         /\ c /\ i = v => D[i].type = Unknown

\* Data is that.
LEMMA DataIs ==
    ASSUME TraceOk(rows, visible, now), cut \in BOOLEAN
    PROVE  DataOk(Data, rows, visible, cut)
<1> DEFINE D == Data
           n == visible
<1>1. /\ n \in Nat /\ \A i \in 1 .. n : /\ rows[i] \in TraceRows
                                        /\ rows[i].type \in {Pause, Resume}
  BY TraceIs
<1>2. D = [i \in 1 .. n |-> IF cut /\ i = n THEN [rows[i] EXCEPT !.type = Unknown]
                            ELSE rows[i]]
  BY DEF Data
<1> HIDE DEF D, n
<1>3. ASSUME NEW i \in 1 .. n
      PROVE  /\ D[i] \in ReadRows /\ D[i].time = rows[i].time /\ D[i].link = rows[i].link
             /\ ~(cut /\ i = n) => D[i].type = rows[i].type
             /\ cut /\ i = n => D[i].type = Unknown
  <2>1. rows[i] \in TraceRows
    BY <1>1
  <2>2. CASE cut /\ i = n
    <3>1. D[i] = [rows[i] EXCEPT !.type = Unknown]
      BY <1>2, <2>2
    <3> QED BY <2>1, <2>2, <3>1 DEF TraceRows, ReadRows
  <2>3. CASE ~(cut /\ i = n)
    <3>1. D[i] = rows[i]
      BY <1>2, <2>3
    <3> QED BY <2>1, <2>3, <3>1 DEF TraceRows, ReadRows
  <2> QED BY <2>2, <2>3
<1>4. D \in [1 .. n -> ReadRows]
  BY <1>2, <1>3
<1>5. D \in Seq(ReadRows) /\ Len(D) = n
  BY <1>1, <1>4
<1> QED BY <1>3, <1>5 DEF DataOk, D, n

\* The rows that a window should take in.
WindowRows(rs, stop) == Cardinality({i \in DOMAIN rs : rs[i].time <= stop})

\* How many rows a window takes in: those that are there.
LEMMA TakeIs ==
    ASSUME NEW rs, NEW v, NEW t, TraceOk(rs, v, t), NEW c, NEW D, DataOk(D, rs, v, c),
           NEW stop \in Nat
    PROVE  /\ WindowRows(rs, stop) \in 0 .. Len(rs)
           /\ \A i \in 1 .. Len(rs) : rs[i].time <= stop <=> i <= WindowRows(rs, stop)
           /\ Take(D, stop) = IF WindowRows(rs, stop) <= v THEN WindowRows(rs, stop) ELSE v
<1> DEFINE n == Len(rs)
           upto == WindowRows(rs, stop)
           S == TimesUpTo(rs, n, stop)
<1>1. /\ n \in Nat /\ v \in Nat /\ v <= n
      /\ \A i \in 1 .. n : rs[i].time \in Nat
      /\ \A i, j \in 1 .. n : i <= j => rs[i].time <= rs[j].time
  BY TraceIs DEF TraceOk
<1>2. DOMAIN rs = 1 .. n
  BY LenProperties DEF TraceOk
<1>3. upto = Cardinality(S)
  BY <1>2 DEF TimesUpTo, WindowRows
<1> HIDE DEF upto
<1>4. /\ \A i : i \in S <=> i \in 1 .. n /\ rs[i].time <= stop
      /\ stop \in Int /\ \A i \in 1 .. n : rs[i].time \in Int
  BY <1>1 DEF TimesUpTo
<1> HIDE DEF n
<1>5. Cardinality(S) \in 0 .. n /\ S = 1 .. Cardinality(S)
  BY <1>1, <1>4, RowsUpTo
<1> HIDE DEF S
<1>6. upto \in 0 .. n /\ S = 1 .. upto
  BY <1>3, <1>5, Zenon
<1>7. \A i \in 1 .. n : rs[i].time <= stop <=> i <= upto
  BY <1>1, <1>4, <1>6
<1> DEFINE m == IF upto <= v THEN upto ELSE v
           U == {i \in DOMAIN D : D[i].time <= stop}
<1>8. DOMAIN D = 1 .. v /\ \A i \in 1 .. v : D[i].time = rs[i].time
  BY LenProperties DEF DataOk
<1>9. m \in Nat /\ m <= v /\ m <= upto /\ (\A i \in Nat : i <= v /\ i <= upto => i <= m)
  BY <1>1, <1>6
<1> HIDE DEF m
<1>10. ASSUME NEW i PROVE i \in U <=> i \in 1 .. m
  <2>1. i \in 1 .. v => i \in 1 .. n /\ (D[i].time <= stop <=> i <= upto)
    BY <1>1, <1>7, <1>8
  <2>2. i \in U <=> i \in 1 .. v /\ i <= upto
    BY <2>1, <1>8
  <2> QED BY <2>2, <1>1, <1>6, <1>9
<1>11. U = 1 .. m
  <2> HIDE DEF U
  <2> QED BY <1>10
<1>12. Cardinality(1 .. m) = m
  BY <1>9, FS_Interval
<1>13. Take(D, stop) = m
  <2>1. Take(D, stop) = Cardinality(U)
    BY DEF Take
  <2> HIDE DEF U
  <2> QED BY <1>11, <1>12, <2>1
<1> QED BY <1>6, <1>7, <1>13 DEF n, m, upto

\* The rows that are taken in: from where the reader stands to the end of the
\* window, as they can be read.
TakenOk(ds, D, a, b) ==
    /\ ds \in Seq(ReadRows) /\ Len(ds) = b - a
    /\ \A i \in 1 .. b - a : ds[i] = D[a + i]

\* SubSeq gives them.
LEMMA TakenIs ==
    ASSUME NEW D \in Seq(ReadRows), NEW a \in Nat, NEW b \in Nat, a <= b, b <= Len(D)
    PROVE  TakenOk(SubSeq(D, a + 1, b), D, a, b)
<1> DEFINE m == a + 1
<1>1. Len(D) \in Nat /\ \A i \in 1 .. Len(D) : D[i] \in ReadRows
  BY LenProperties, ElementOfSeq
<1>2. m \in Int /\ b \in Int /\ \A i \in m .. b : D[i] \in ReadRows
  BY <1>1
<1>3. m = a + 1
  OBVIOUS
<1> HIDE DEF m
<1>4. /\ SubSeq(D, m, b) \in Seq(ReadRows)
      /\ Len(SubSeq(D, m, b)) = IF m <= b THEN b - m + 1 ELSE 0
      /\ \A i \in 1 .. b - m + 1 : SubSeq(D, m, b)[i] = D[m + i - 1]
  BY <1>2, SubSeqProperties
<1> DEFINE ds == SubSeq(D, m, b)
<1> HIDE DEF ds
<1>5. /\ ds \in Seq(ReadRows) /\ Len(ds) = IF m <= b THEN b - m + 1 ELSE 0
      /\ \A i \in 1 .. b - m + 1 : ds[i] = D[m + i - 1]
  BY <1>4 DEF ds
<1>6. Len(ds) = b - a /\ b - m + 1 = b - a
  BY <1>3, <1>5
<1>7. \A i \in 1 .. b - a : ds[i] = D[a + i]
  BY <1>3, <1>5, <1>6
<1> QED BY <1>5, <1>6, <1>7 DEF TakenOk, ds, m

\* Which links are misread: the last row tells.
LEMMA MisreadIs ==
    ASSUME NEW mis \in SUBSET Links, NEW ds \in Seq(ReadRows), NEW l
    PROVE  /\ StillMisread(mis, ds) \in SUBSET Links
           /\ (\A i \in 1 .. Len(ds) : ds[i].link # l) /\ l \in mis
                 => l \in StillMisread(mis, ds)
           /\ \A i \in 1 .. Len(ds) :
                 /\ ds[i].link = l /\ ds[i].type = Unknown
                 /\ \A j \in 1 .. Len(ds) : j > i => ds[j].link # l
                 => l \in StillMisread(mis, ds)
<1> DEFINE n == Len(ds)
           later(i) == {ds[j].link : j \in i + 1 .. n}
           M == StillMisread(mis, ds)
<1>1. /\ n \in Nat /\ DOMAIN ds = 1 .. n
      /\ \A i \in 1 .. n : ds[i] \in ReadRows /\ ds[i].link \in Links
  <2>1. n \in Nat /\ DOMAIN ds = 1 .. n /\ \A i \in 1 .. n : ds[i] \in ReadRows
    BY LenProperties, ElementOfSeq
  <2>2. \A row \in ReadRows : row.link \in Links
    BY DEF ReadRows
  <2> QED BY <2>1, <2>2
<1>2. M = (mis \ later(0)) \cup
          {ds[i].link : i \in {k \in DOMAIN ds : ds[k].type = Unknown
                                                 /\ ds[k].link \notin later(k)}}
  BY DEF StillMisread
<1> HIDE DEF n, M
<1>3. M \in SUBSET Links
  BY <1>1, <1>2
<1>4. ASSUME \A i \in 1 .. n : ds[i].link # l, l \in mis PROVE l \in M
  <2>1. l \notin later(0)
    BY <1>1, <1>4
  <2> HIDE DEF later
  <2> QED BY <1>2, <1>4, <2>1
<1>5. ASSUME NEW i \in 1 .. n, ds[i].link = l, ds[i].type = Unknown,
             \A j \in 1 .. n : j > i => ds[j].link # l
      PROVE  l \in M
  <2>1. l \notin later(i)
    BY <1>1, <1>5
  <2> HIDE DEF later
  <2> QED BY <1>1, <1>2, <1>5, <2>1
<1> QED BY <1>3, <1>4, <1>5 DEF n, M

\* What is counted: links that were paused, and those of rows in the window.
LEMMA CountIs ==
    ASSUME NEW links \in SUBSET Links, NEW ds \in Seq(ReadRows), NEW start \in Int
    PROVE  /\ Count(links, ds, start) \in SUBSET Links
           /\ (\A i \in 1 .. Len(ds) : ds[i].time >= start) =>
                 Count(links, ds, start) =
                     links \cup {ds[i].link : i \in {j \in 1 .. Len(ds) : ds[j].type = Pause}}
<1> DEFINE n == Len(ds)
           pre(j) == SubSeq(ds, 1, j - 1)
           C == Count(links, ds, start)
           J == {j \in 1 .. n : /\ ds[j].time >= start
                                /\ \/ ds[j].type = Pause
                                   \/ ds[j].link \in Replay(links, pre(j))}
           P == {ds[i].link : i \in {j \in 1 .. n : ds[j].type = Pause}}
<1>1. /\ n \in Nat /\ DOMAIN ds = 1 .. n
      /\ \A i \in 1 .. n : ds[i] \in ReadRows /\ ds[i].link \in Links
  <2>1. n \in Nat /\ DOMAIN ds = 1 .. n /\ \A i \in 1 .. n : ds[i] \in ReadRows
    BY LenProperties, ElementOfSeq
  <2>2. \A row \in ReadRows : row.link \in Links
    BY DEF ReadRows
  <2> QED BY <2>1, <2>2
<1>2. C = links \cup {ds[i].link : i \in J}
  BY <1>1 DEF Count
<1> HIDE DEF C
<1>3. C \in SUBSET Links
  BY <1>1, <1>2
<1>4. ASSUME NEW j \in J PROVE ds[j].link \in links \cup P
  <2>1. j \in 1 .. n /\ (ds[j].type = Pause \/ ds[j].link \in Replay(links, pre(j)))
    OBVIOUS
  <2>2. CASE ds[j].type = Pause
    BY <2>1, <2>2
  <2>3. CASE ds[j].link \in Replay(links, pre(j))
    <3> DEFINE l == ds[j].link
               p == pre(j)
    <3>1. /\ p \in Seq(ReadRows) /\ Len(p) = j - 1
          /\ \A i \in 1 .. j - 1 : p[i] = ds[i]
      <4> DEFINE b == j - 1
      <4>1. b \in Int /\ 1 \in Int /\ \A i \in 1 .. b : ds[i] \in ReadRows
        BY <1>1, <2>1
      <4>2. b \in Nat /\ j - 1 = b
        BY <2>1
      <4> HIDE DEF b
      <4>3. /\ SubSeq(ds, 1, b) \in Seq(ReadRows)
            /\ Len(SubSeq(ds, 1, b)) = IF 1 <= b THEN b - 1 + 1 ELSE 0
            /\ \A i \in 1 .. b - 1 + 1 : SubSeq(ds, 1, b)[i] = ds[1 + i - 1]
        BY <4>1, SubSeqProperties
      <4>4. p = SubSeq(ds, 1, b)
        BY <4>2
      <4> HIDE DEF p
      <4>5. /\ p \in Seq(ReadRows) /\ Len(p) = IF 1 <= b THEN b - 1 + 1 ELSE 0
            /\ \A i \in 1 .. b - 1 + 1 : p[i] = ds[1 + i - 1]
        BY <4>3, <4>4
      <4>6. Len(p) = b /\ \A i \in 1 .. b : p[i] = ds[i]
        BY <4>2, <4>5
      <4> QED BY <4>2, <4>5, <4>6
    <3>2. l \in Replay(links, p)
      BY <2>3
    <3> HIDE DEF l, p
    <3>3. l \in links \/ \E i \in 1 .. Len(p) : p[i].link = l /\ p[i].type = Pause
      BY <3>1, <3>2, ReplayFrom
    <3>4. ASSUME NEW i \in 1 .. Len(p), p[i].link = l, p[i].type = Pause PROVE l \in P
      <4>1. i \in 1 .. n /\ p[i] = ds[i]
        BY <1>1, <2>1, <3>1
      <4> QED BY <3>4, <4>1
    <3> QED BY <3>3, <3>4 DEF l
  <2> QED BY <2>1, <2>2, <2>3
<1>5. ASSUME \A i \in 1 .. n : ds[i].time >= start PROVE C = links \cup P
  <2>1. \A i \in 1 .. n : ds[i].type = Pause => i \in J
    BY <1>5
  <2> HIDE DEF J
  <2> QED BY <1>2, <1>4, <2>1
<1> QED BY <1>3, <1>5 DEF n, C

-----------------------------------------------------------------------------
(* What a read leaves behind *)

\* One read: what it finds, where it ends and which rows it takes in.
Reading(x, rs, v, t, c, D, start, stop, upto, e, ds) ==
    /\ TraceOk(rs, v, t) /\ c \in BOOLEAN /\ DataOk(D, rs, v, c) /\ ReaderOk(x, rs, v, t)
    /\ start \in Int /\ stop \in Nat /\ start <= stop /\ stop <= t
    /\ upto \in 0 .. Len(rs)
    /\ \A i \in 1 .. Len(rs) : rs[i].time <= stop <=> i <= upto
    /\ e \in x.line .. v
    /\ e = x.line \/ (e <= upto /\ (upto <= v => e = upto))
    /\ upto <= v => e >= upto
    /\ TakenOk(ds, D, x.line, e)

\* The reader after it.
ReadTo(x, v, c, start, stop, upto, e, ds) ==
    LET whole == upto < v \/ (upto = v /\ ~c)
        misread == StillMisread(x.misread, ds)
    IN  [line |-> e, links |-> Replay(x.links, ds),
         counted |-> Count(x.links, ds, start), stop |-> stop,
         from |-> x.upto, upto |-> upto, misread |-> misread, whole |-> whole,
         top |-> IF stop > x.top THEN stop ELSE x.top,
         exact |-> /\ whole /\ x.whole /\ start = x.stop /\ start = x.top
                   /\ x.misread = {} /\ misread = {}]

\* What is known of the rows and of the reader before.
LEMMA ReadingIs ==
    ASSUME NEW x, NEW rs, NEW v, NEW t, NEW c, NEW D, NEW start, NEW stop, NEW upto, NEW e,
           NEW ds, Reading(x, rs, v, t, c, D, start, stop, upto, e, ds)
    PROVE  /\ Len(rs) \in Nat /\ v \in Nat /\ v <= Len(rs) /\ t \in Nat /\ e \in Nat
           /\ upto \in Nat /\ upto <= Len(rs) /\ start \in Int /\ stop \in Nat
           /\ x.line \in Nat /\ x.stop \in Nat /\ x.from \in Nat /\ x.upto \in Nat
           /\ x.top \in Nat /\ x.links \in SUBSET Links /\ x.misread \in SUBSET Links
           /\ x.line <= e /\ e <= v /\ ds \in Seq(ReadRows) /\ Len(ds) = e - x.line
           /\ \A i \in 1 .. Len(rs) : rs[i].time \in Nat /\ rs[i].link \in Links
           /\ \A i \in 1 .. e - x.line :
                 /\ x.line + i \in 1 .. e /\ x.line + i \in 1 .. Len(rs)
                 /\ ds[i].time = rs[x.line + i].time /\ ds[i].link = rs[x.line + i].link
                 /\ ds[i].type # Unknown => ds[i].type = rs[x.line + i].type
                 /\ ~(c /\ x.line + i = v) => ds[i].type = rs[x.line + i].type
<1>1. /\ Len(rs) \in Nat /\ v \in Nat /\ v <= Len(rs) /\ t \in Nat
      /\ \A i \in 1 .. Len(rs) : rs[i].time \in Nat /\ rs[i].link \in Links
  BY TraceIs DEF Reading
<1>2. x \in PfcReaders
  BY DEF Reading, ReaderOk
<1>3. /\ x.line \in Nat /\ x.stop \in Nat /\ x.from \in Nat /\ x.upto \in Nat
      /\ x.top \in Nat /\ x.links \in SUBSET Links /\ x.misread \in SUBSET Links
  BY <1>2 DEF PfcReaders
<1>4. /\ upto \in 0 .. Len(rs) /\ start \in Int /\ stop \in Nat /\ e \in x.line .. v
      /\ TakenOk(ds, D, x.line, e) /\ DataOk(D, rs, v, c)
  BY DEF Reading
<1>5. e \in Nat /\ x.line <= e /\ e <= v /\ upto \in Nat /\ upto <= Len(rs)
  BY <1>1, <1>3, <1>4
<1>6. /\ ds \in Seq(ReadRows) /\ Len(ds) = e - x.line
      /\ \A i \in 1 .. e - x.line : ds[i] = D[x.line + i]
  BY <1>4 DEF TakenOk
<1>7. \A i \in 1 .. v : /\ D[i].time = rs[i].time /\ D[i].link = rs[i].link
                        /\ ~(c /\ i = v) => D[i].type = rs[i].type
                        /\ c /\ i = v => D[i].type = Unknown
  BY <1>4 DEF DataOk
<1>8. ASSUME NEW i \in 1 .. e - x.line
      PROVE  /\ x.line + i \in 1 .. e /\ x.line + i \in 1 .. Len(rs)
             /\ ds[i].time = rs[x.line + i].time /\ ds[i].link = rs[x.line + i].link
             /\ ds[i].type # Unknown => ds[i].type = rs[x.line + i].type
             /\ ~(c /\ x.line + i = v) => ds[i].type = rs[x.line + i].type
  <2> DEFINE k == x.line + i
  <2>1. k \in 1 .. e
    BY <1>3, <1>5
  <2>2. k \in 1 .. Len(rs) /\ k \in 1 .. v
    <3> HIDE DEF k
    <3> QED BY <1>1, <1>5, <2>1
  <2>3. ds[i] = D[k]
    BY <1>6
  <2> HIDE DEF k
  <2>4. /\ ds[i].time = rs[k].time /\ ds[i].link = rs[k].link
        /\ ds[i].type # Unknown => ds[i].type = rs[k].type
        /\ ~(c /\ k = v) => ds[i].type = rs[k].type
    BY <1>7, <2>2, <2>3
  <2> QED BY <2>1, <2>2, <2>4 DEF k
<1> QED BY <1>1, <1>3, <1>4, <1>5, <1>6, <1>8

\* The reader stands at the end of the rows that it took in.
LEMMA ReadPlaces ==
    ASSUME NEW x, NEW rs, NEW v, NEW t, NEW c, NEW D, NEW start, NEW stop, NEW upto, NEW e,
           NEW ds, Reading(x, rs, v, t, c, D, start, stop, upto, e, ds),
           NEW y, y = ReadTo(x, v, c, start, stop, upto, e, ds)
    PROVE  Placed(y, rs, v, t)
<1>1. /\ Len(rs) \in Nat /\ v \in Nat /\ v <= Len(rs) /\ t \in Nat /\ e \in Nat
      /\ upto \in Nat /\ upto <= Len(rs) /\ stop \in Nat
      /\ x.line \in Nat /\ x.stop \in Nat /\ x.upto \in Nat /\ x.top \in Nat
      /\ x.line <= e /\ e <= v
      /\ \A i \in 1 .. Len(rs) : rs[i].time \in Nat
  BY ReadingIs
<1>2. /\ stop <= t /\ (e = x.line \/ (e <= upto /\ (upto <= v => e = upto)))
      /\ upto <= v => e >= upto
      /\ \A i \in 1 .. Len(rs) : rs[i].time <= stop <=> i <= upto
      /\ Placed(x, rs, v, t)
  BY DEF Reading, ReaderOk
<1>3. /\ x.line <= v /\ x.from <= Len(rs) /\ x.upto <= Len(rs)
      /\ x.stop <= x.top /\ x.top <= t
      /\ \A i \in 1 .. x.line : rs[i].time <= x.top
  BY <1>2 DEF Placed
<1>4. /\ y.line = e /\ y.stop = stop /\ y.from = x.upto /\ y.upto = upto
      /\ y.top = (IF stop > x.top THEN stop ELSE x.top)
      /\ y.whole = (upto < v \/ (upto = v /\ ~c))
  BY DEF ReadTo
<1>5. y.top \in Nat /\ stop <= y.top /\ x.top <= y.top /\ y.top <= t
  BY <1>1, <1>2, <1>3, <1>4
<1>6. ASSUME NEW i \in 1 .. e PROVE rs[i].time <= y.top
  <2>1. i \in 1 .. Len(rs) /\ rs[i].time \in Nat
    BY <1>1
  <2>2. CASE e = x.line
    <3>1. rs[i].time <= x.top /\ x.top <= y.top /\ x.top \in Nat /\ y.top \in Nat
      BY <1>1, <1>3, <1>5, <2>2
    <3> QED BY <2>1, <3>1
  <2>3. CASE e <= upto
    <3>1. rs[i].time <= stop
      BY <1>1, <1>2, <2>1, <2>3
    <3>2. stop <= y.top /\ stop \in Nat /\ y.top \in Nat
      BY <1>1, <1>5
    <3> QED BY <2>1, <3>1, <3>2
  <2> QED BY <1>2, <2>2, <2>3
<1>7. \A i \in 1 .. upto : rs[i].time <= stop
  BY <1>1, <1>2
<1>8. \A i \in 1 .. Len(rs) : i > upto => rs[i].time >= stop
  BY <1>1, <1>2
<1>9. ASSUME y.whole, stop = y.top PROVE e = upto
  <2>1. upto < v \/ upto = v
    BY <1>4, <1>9
  <2>2. upto <= v /\ e >= upto /\ x.top <= stop
    BY <1>1, <1>2, <1>5, <1>9, <2>1
  <2>3. x.line <= upto
    <3>1. CASE x.line = 0
      BY <1>1, <3>1
    <3>2. CASE x.line # 0
      <4>1. x.line \in 1 .. x.line /\ x.line \in 1 .. Len(rs)
        BY <1>1, <1>3, <3>2
      <4>2. rs[x.line].time <= x.top /\ rs[x.line].time \in Nat
        BY <1>1, <1>3, <4>1
      <4>3. rs[x.line].time <= stop
        BY <1>1, <2>2, <4>2
      <4> QED BY <1>2, <4>1, <4>3
    <3> QED BY <3>1, <3>2
  <2> QED BY <1>1, <1>2, <2>2, <2>3
<1> QED BY <1>1, <1>2, <1>3, <1>4, <1>5, <1>6, <1>7, <1>8, <1>9 DEF Placed

\* It carries the links that are paused there, ...
LEMMA ReadCarries ==
    ASSUME NEW x, NEW rs, NEW v, NEW t, NEW c, NEW D, NEW start, NEW stop, NEW upto, NEW e,
           NEW ds, Reading(x, rs, v, t, c, D, start, stop, upto, e, ds),
           NEW y, y = ReadTo(x, v, c, start, stop, upto, e, ds)
    PROVE  Carries(y, rs)
<1> DEFINE n == e - x.line
           a == x.line
           R == Replay(x.links, ds)
           M == StillMisread(x.misread, ds)
<1>1. /\ Len(rs) \in Nat /\ e \in Nat /\ a \in Nat /\ a <= e
      /\ x.links \in SUBSET Links /\ x.misread \in SUBSET Links
      /\ ds \in Seq(ReadRows) /\ Len(ds) = n /\ n \in Nat
      /\ \A i \in 1 .. n :
            /\ a + i \in 1 .. e
            /\ ds[i].link = rs[a + i].link
            /\ ds[i].type # Unknown => ds[i].type = rs[a + i].type
  <2>1. e - a = n
    OBVIOUS
  <2>2. e \in Nat /\ a \in Nat /\ a <= e
    BY ReadingIs
  <2>3. n \in Nat
    BY <2>2
  <2> HIDE DEF R, M, n
  <2> QED BY <2>1, <2>3, ReadingIs
<1>2. Carries(x, rs)
  BY DEF Reading, ReaderOk
<1>3. y.line = e /\ y.links = R /\ y.misread = M
  BY DEF ReadTo
<1> SUFFICES ASSUME NEW l \in Links \ M PROVE l \in R <=> l \in PausedIn(rs, e)
  BY <1>3 DEF Carries
<1>4. /\ (\A i \in 1 .. n : ds[i].link # l) => (l \in R <=> l \in x.links)
      /\ \A i \in 1 .. n :
            /\ ds[i].link = l /\ ds[i].type # Unknown
            /\ \A j \in 1 .. n : j > i => ds[j].link # l
            => (l \in R <=> ds[i].type = Pause)
  <2>1. x.links \in SUBSET Links /\ ds \in Seq(ReadRows) /\ Len(ds) = n
    BY <1>1
  <2> HIDE DEF n
  <2> QED BY <2>1, ReplayIs
<1>5. /\ (\A i \in 1 .. n : ds[i].link # l) => l \notin x.misread
      /\ \A i \in 1 .. n :
            /\ ds[i].link = l
            /\ \A j \in 1 .. n : j > i => ds[j].link # l
            => ds[i].type # Unknown
  <2>1. x.misread \in SUBSET Links /\ ds \in Seq(ReadRows) /\ Len(ds) = n /\ l \notin M
    BY <1>1
  <2> HIDE DEF n
  <2> QED BY <2>1, MisreadIs
<1>6. \A j \in 1 .. e : j > a => j - a \in 1 .. n /\ a + (j - a) = j
  BY <1>1
<1> HIDE DEF R, M
<1>7. CASE \A i \in 1 .. n : ds[i].link # l
  <2>1. ASSUME NEW j \in 1 .. e, j > a PROVE rs[j].link # l
    <3>1. j - a \in 1 .. n /\ a + (j - a) = j
      BY <1>6, <2>1
    <3>2. ds[j - a].link # l /\ ds[j - a].link = rs[a + (j - a)].link
      BY <1>1, <1>7, <3>1
    <3> QED BY <3>1, <3>2
  <2>2. l \in PausedIn(rs, e) <=> l \in PausedIn(rs, a)
    <3> HIDE DEF a
    <3> QED BY <1>1, <2>1, PausedKept
  <2>3. l \in x.links <=> l \in PausedIn(rs, a)
    BY <1>2, <1>5, <1>7 DEF Carries
  <2> QED BY <1>4, <1>7, <2>2, <2>3
<1>8. CASE ~ \A i \in 1 .. n : ds[i].link # l
  <2> DEFINE S == {i \in 1 .. n : ds[i].link = l}
  <2>1. S \in SUBSET (1 .. n) /\ S # {} /\ n \in Nat
    BY <1>1, <1>8
  <2>2. \E i \in S : \A j \in S : j <= i
    <3> HIDE DEF S, n
    <3> QED BY <2>1, LastOf
  <2>3. PICK i \in S : \A j \in S : j <= i
    BY <2>2
  <2>4. i \in 1 .. n /\ ds[i].link = l /\ \A j \in 1 .. n : j > i => ds[j].link # l
    BY <1>1, <2>3
  <2>5. ds[i].type # Unknown
    BY <1>5, <2>4
  <2>6. l \in R <=> ds[i].type = Pause
    BY <1>4, <2>4, <2>5
  <2> DEFINE k == a + i
  <2>7. k \in 1 .. e /\ rs[k].link = l /\ ds[i].type = rs[k].type
    BY <1>1, <2>4, <2>5
  <2>8. ASSUME NEW j \in 1 .. e, j > k PROVE rs[j].link # l
    <3>1. j > a /\ j - a > i
      BY <1>1, <2>4, <2>8
    <3>2. j - a \in 1 .. n /\ a + (j - a) = j
      BY <1>6, <3>1
    <3>3. ds[j - a].link # l
      BY <2>4, <3>1, <3>2
    <3>4. ds[j - a].link = rs[a + (j - a)].link
      BY <1>1, <3>2
    <3> QED BY <3>2, <3>3, <3>4
  <2> HIDE DEF k
  <2>9. l \in PausedIn(rs, e) <=> rs[k].type = Pause
    BY <1>1, <2>7, <2>8, PausedByLast
  <2> QED BY <2>6, <2>7, <2>9
<1> QED BY <1>7, <1>8

\* ... and counts exactly the links that were paused in a window that follows.
LEMMA ReadCounts ==
    ASSUME NEW x, NEW rs, NEW v, NEW t, NEW c, NEW D, NEW start, NEW stop, NEW upto, NEW e,
           NEW ds, Reading(x, rs, v, t, c, D, start, stop, upto, e, ds),
           NEW y, y = ReadTo(x, v, c, start, stop, upto, e, ds)
    PROVE  Counts(y, rs)
<1> DEFINE n == e - x.line
           a == x.line
           C == Count(x.links, ds, start)
<1>1. /\ Len(rs) \in Nat /\ v \in Nat /\ v <= Len(rs) /\ e \in Nat /\ a \in Nat /\ a <= e /\ e <= v
      /\ upto \in Nat /\ upto <= Len(rs) /\ start \in Int /\ stop \in Nat
      /\ x.stop \in Nat /\ x.upto \in Nat /\ x.top \in Nat
      /\ x.links \in SUBSET Links /\ x.misread \in SUBSET Links
      /\ ds \in Seq(ReadRows) /\ Len(ds) = n /\ n \in Nat
      /\ \A i \in 1 .. Len(rs) : rs[i].time \in Nat
      /\ \A i \in 1 .. n :
            /\ a + i \in 1 .. e /\ a + i \in 1 .. Len(rs)
            /\ ds[i].time = rs[a + i].time /\ ds[i].link = rs[a + i].link
            /\ ~(c /\ a + i = v) => ds[i].type = rs[a + i].type
  <2> HIDE DEF C
  <2> QED BY ReadingIs
<1>2. /\ start <= stop /\ (e = a \/ (e <= upto /\ (upto <= v => e = upto)))
      /\ upto <= v => e >= upto
      /\ \A i \in 1 .. Len(rs) : rs[i].time <= stop <=> i <= upto
      /\ Placed(x, rs, v, t) /\ Carries(x, rs)
  BY DEF Reading, ReaderOk
<1>3. /\ x.upto <= Len(rs)
      /\ \A i \in 1 .. x.upto : rs[i].time <= x.stop
      /\ \A i \in 1 .. Len(rs) : i > x.upto => rs[i].time >= x.stop
      /\ x.whole /\ x.stop = x.top => a = x.upto
  BY <1>2 DEF Placed
<1>4. /\ y.counted = C /\ y.from = x.upto /\ y.upto = upto
      /\ y.exact => /\ upto < v \/ (upto = v /\ ~c)
                    /\ x.whole /\ start = x.stop /\ start = x.top /\ x.misread = {}
  BY DEF ReadTo
<1> SUFFICES ASSUME y.exact PROVE C = PausedIn(rs, x.upto) \cup PausesOf(rs, x.upto, upto)
  BY <1>4 DEF Counts
<1>5. /\ upto < v \/ (upto = v /\ ~c)
      /\ x.whole /\ start = x.stop /\ start = x.top /\ x.misread = {} /\ a = x.upto
  BY <1>3, <1>4
<1>6. a <= upto
  <2>1. CASE a = 0
    BY <1>1, <2>1
  <2>2. CASE a # 0
    <3>1. a \in 1 .. x.upto /\ a \in 1 .. Len(rs)
      BY <1>1, <1>3, <1>5, <2>2
    <3>2. rs[a].time <= x.stop /\ rs[a].time \in Nat
      BY <1>1, <1>3, <3>1
    <3>3. x.stop = start /\ start \in Int /\ stop \in Nat /\ start <= stop
      BY <1>1, <1>2, <1>5
    <3>4. rs[a].time <= stop
      BY <3>2, <3>3
    <3> QED BY <1>2, <3>1, <3>4
  <2> QED BY <2>1, <2>2
<1>7. e = upto
  BY <1>1, <1>2, <1>5, <1>6
<1>8. ASSUME NEW i \in 1 .. n
      PROVE  ds[i].time >= start /\ ds[i].link = rs[a + i].link /\ ds[i].type = rs[a + i].type
  <2>1. a + i \in 1 .. Len(rs) /\ a + i > x.upto /\ ~(c /\ a + i = v)
    BY <1>1, <1>5, <1>7
  <2>2. rs[a + i].time >= x.stop
    BY <1>3, <2>1
  <2> QED BY <1>1, <1>5, <2>1, <2>2
<1>9. x.links = PausedIn(rs, a)
  <2>1. \A l \in Links : l \in x.links <=> l \in PausedIn(rs, a)
    BY <1>2, <1>5 DEF Carries
  <2>2. PausedIn(rs, a) \in SUBSET Links
    BY DEF PausedIn
  <2> HIDE DEF a
  <2> QED BY <1>1, <2>1, <2>2
<1>10. C = x.links \cup {ds[i].link : i \in {j \in 1 .. n : ds[j].type = Pause}}
  <2>1. /\ x.links \in SUBSET Links /\ ds \in Seq(ReadRows) /\ start \in Int
        /\ Len(ds) = n /\ \A i \in 1 .. n : ds[i].time >= start
    BY <1>1, <1>8
  <2> HIDE DEF n
  <2> QED BY <2>1, CountIs
<1> HIDE DEF C
<1>11. {ds[i].link : i \in {j \in 1 .. n : ds[j].type = Pause}} = PausesOf(rs, a, upto)
  <2>0. a \in Nat /\ upto \in Nat /\ n = upto - a
    BY <1>1, <1>7
  <2> HIDE DEF n, a
  <2> DEFINE P == {ds[i].link : i \in {j \in 1 .. n : ds[j].type = Pause}}
  <2>1. ASSUME NEW l \in P PROVE l \in PausesOf(rs, a, upto)
    <3>1. PICK i \in 1 .. n : ds[i].type = Pause /\ l = ds[i].link
      OBVIOUS
    <3>2. a + i \in a + 1 .. upto
      BY <2>0
    <3>3. rs[a + i].type = Pause /\ l = rs[a + i].link
      BY <1>8, <3>1
    <3> QED BY <3>2, <3>3 DEF PausesOf
  <2>2. ASSUME NEW l \in PausesOf(rs, a, upto) PROVE l \in P
    <3>1. PICK k \in a + 1 .. upto : rs[k].type = Pause /\ l = rs[k].link
      BY DEF PausesOf
    <3>2. k - a \in 1 .. n /\ a + (k - a) = k
      BY <2>0
    <3>3. ds[k - a].link = rs[a + (k - a)].link /\ ds[k - a].type = rs[a + (k - a)].type
      BY <1>8, <3>2
    <3> QED BY <3>1, <3>2, <3>3
  <2> HIDE DEF P
  <2>3. P = PausesOf(rs, a, upto)
    BY <2>1, <2>2
  <2> QED BY <2>3 DEF P
<1> QED BY <1>5, <1>9, <1>10, <1>11

\* A read keeps the reader right.
LEMMA ReadKeeps ==
    ASSUME NEW x, NEW rs, NEW v, NEW t, NEW c, NEW D, NEW start, NEW stop, NEW upto, NEW e,
           NEW ds, Reading(x, rs, v, t, c, D, start, stop, upto, e, ds),
           NEW y, y = ReadTo(x, v, c, start, stop, upto, e, ds)
    PROVE  ReaderOk(y, rs, v, t)
<1> DEFINE R == Replay(x.links, ds)
           M == StillMisread(x.misread, ds)
           C == Count(x.links, ds, start)
<1>1. /\ e \in Nat /\ upto \in Nat /\ start \in Int /\ stop \in Nat /\ x.upto \in Nat
      /\ x.top \in Nat /\ x.links \in SUBSET Links /\ x.misread \in SUBSET Links
      /\ ds \in Seq(ReadRows)
  BY ReadingIs
<1>2. R \in SUBSET Links
  BY <1>1, ReplayIs
<1>3. M \in SUBSET Links
  BY <1>1, MisreadIs
<1>4. C \in SUBSET Links
  BY <1>1, CountIs
<1> DEFINE w == upto < v \/ (upto = v /\ ~c)
           z == /\ w /\ x.whole /\ start = x.stop /\ start = x.top
                /\ x.misread = {} /\ M = {}
           p == IF stop > x.top THEN stop ELSE x.top
<1>5. w \in BOOLEAN /\ z \in BOOLEAN /\ p \in Nat
  BY <1>1
<1>6. y = [line |-> e, links |-> R, counted |-> C, stop |-> stop, from |-> x.upto,
           upto |-> upto, misread |-> M, whole |-> w, top |-> p, exact |-> z]
  BY DEF ReadTo
<1> HIDE DEF R, M, C, w, z, p
<1>7. y \in PfcReaders
  BY <1>1, <1>2, <1>3, <1>4, <1>5, <1>6 DEF PfcReaders
<1>8. Placed(y, rs, v, t)
  BY ReadPlaces
<1>9. Carries(y, rs)
  BY ReadCarries
<1>10. Counts(y, rs)
  BY ReadCounts
<1> QED BY <1>7, <1>8, <1>9, <1>10 DEF ReaderOk

-----------------------------------------------------------------------------
(* The steps *)

\* The state that a read leaves: one reader moved, over the same trace.
LEMMA ReadMoves ==
    ASSUME PfcInv, NEW r \in Readers, NEW start \in Int, NEW stop \in Nat,
           start <= stop, stop <= now, Read(r, start, stop)
    PROVE  \E y : reader' = [reader EXCEPT ![r] = y] /\ ReaderOk(y, rows, visible, now)
<1> DEFINE x == reader[r]
           D == Data
           upto == WindowRows(rows, stop)
           k == Take(D, stop)
           e == IF k < x.line THEN x.line ELSE k
           ds == SubSeq(D, x.line + 1, e)
           y == ReadTo(x, visible, cut, start, stop, upto, e, ds)
<1>1. TraceOk(rows, visible, now) /\ cut \in BOOLEAN /\ ReaderOk(x, rows, visible, now)
  BY DEF PfcInv
<1>2. DataOk(D, rows, visible, cut)
  BY <1>1, DataIs
<1>3. reader' = [reader EXCEPT ![r] = y]
  BY DEF Read, ReadTo, WindowRows
<1> HIDE DEF x, y
<1>4. /\ upto \in 0 .. Len(rows)
      /\ \A i \in 1 .. Len(rows) : rows[i].time <= stop <=> i <= upto
      /\ k = IF upto <= visible THEN upto ELSE visible
  <2> HIDE DEF D
  <2> QED BY <1>1, <1>2, TakeIs
<1> HIDE DEF upto, k, D
<1>5. x \in PfcReaders /\ Placed(x, rows, visible, now)
  BY <1>1 DEF ReaderOk
<1>6. x.line \in Nat /\ x.line <= visible
  BY <1>5 DEF PfcReaders, Placed
<1>7. visible \in Nat /\ Len(rows) \in Nat
  BY <1>1, TraceIs
<1>8. /\ e \in x.line .. visible /\ e \in Nat
      /\ e = x.line \/ (e <= upto /\ (upto <= visible => e = upto))
      /\ upto <= visible => e >= upto
  BY <1>4, <1>6, <1>7
<1>9. D \in Seq(ReadRows) /\ Len(D) = visible
  BY <1>2 DEF DataOk
<1> HIDE DEF e
<1>10. TakenOk(ds, D, x.line, e)
  <2> DEFINE a == x.line
  <2>1. a \in Nat /\ e \in Nat /\ a <= e /\ e <= Len(D)
    BY <1>6, <1>7, <1>8, <1>9
  <2> HIDE DEF a
  <2>2. TakenOk(SubSeq(D, a + 1, e), D, a, e)
    BY <1>9, <2>1, TakenIs
  <2> QED BY <2>2 DEF a
<1> HIDE DEF ds
<1>11. Reading(x, rows, visible, now, cut, D, start, stop, upto, e, ds)
  BY <1>1, <1>2, <1>4, <1>8, <1>10 DEF Reading
<1>12. y = ReadTo(x, visible, cut, start, stop, upto, e, ds)
  BY DEF y
<1>13. ReaderOk(y, rows, visible, now)
  BY <1>11, <1>12, ReadKeeps
<1> QED BY <1>3, <1>13

\* So a read keeps the invariant.
LEMMA ReadStep ==
    ASSUME PfcInv, NEW r \in Readers, NEW start \in Int, NEW stop \in Nat,
           start <= stop, stop <= now, Read(r, start, stop),
           UNCHANGED <<now, rows, visible, cut>>
    PROVE  PfcInv'
<1>1. PICK y : reader' = [reader EXCEPT ![r] = y] /\ ReaderOk(y, rows, visible, now)
  BY ReadMoves
<1>2. y \in PfcReaders
  BY <1>1 DEF ReaderOk
<1>3. /\ reader \in [Readers -> PfcReaders]
      /\ \A q \in Readers : ReaderOk(reader[q], rows, visible, now)
      /\ TraceOk(rows, visible, now) /\ cut \in BOOLEAN
  BY DEF PfcInv
<1>4. reader' \in [Readers -> PfcReaders]
  BY <1>1, <1>2, <1>3
<1>5. ASSUME NEW q \in Readers PROVE ReaderOk(reader'[q], rows, visible, now)
  <2>1. reader'[q] = IF q = r THEN y ELSE reader[q]
    BY <1>1, <1>3
  <2> QED BY <1>1, <1>3, <2>1
<1>6. rows' = rows /\ visible' = visible /\ now' = now /\ cut' = cut
  OBVIOUS
<1> QED BY <1>3, <1>4, <1>5, <1>6 DEF PfcInv

\* A step that writes or shows rows or lets time pass keeps it as well.
LEMMA TraceStep ==
    ASSUME PfcInv, TraceOk(rows', visible', now'), now <= now', visible <= visible',
           cut' \in BOOLEAN, Len(rows) <= Len(rows'), reader' = reader,
           \A i \in 1 .. Len(rows) : rows'[i] = rows[i],
           \A i \in 1 .. Len(rows') : i > Len(rows) => rows'[i].time >= now
    PROVE  PfcInv'
<1>1. /\ reader \in [Readers -> PfcReaders]
      /\ \A q \in Readers : ReaderOk(reader[q], rows, visible, now)
      /\ TraceOk(rows, visible, now)
  BY DEF PfcInv
<1>2. PICK ss, w, u : ss = rows' /\ w = visible' /\ u = now'
  OBVIOUS
<1>3. /\ TraceOk(ss, w, u) /\ now <= u /\ visible <= w /\ Len(rows) <= Len(ss)
      /\ \A i \in 1 .. Len(rows) : ss[i] = rows[i]
      /\ \A i \in 1 .. Len(ss) : i > Len(rows) => ss[i].time >= now
  BY <1>2
<1>4. ASSUME NEW q \in Readers PROVE ReaderOk(reader[q], ss, w, u)
  <2> DEFINE x == reader[q]
  <2>1. ReaderOk(x, rows, visible, now)
    BY <1>1
  <2> HIDE DEF x
  <2>2. ReaderOk(x, ss, w, u)
    BY <1>1, <1>3, <2>1, ReaderStays
  <2> QED BY <2>2 DEF x
<1> QED BY <1>1, <1>2, <1>3, <1>4 DEF PfcInv

\* The simulator, ...
LEMMA SimulatorKeeps ==
    ASSUME PfcInv, Tick \/ Flush \/ \E l \in Links : GetPfc(l)
    PROVE  PfcInv'
<1>0. /\ TraceOk(rows, visible, now) /\ cut \in BOOLEAN
      /\ Len(rows) \in Nat /\ visible \in Nat /\ now \in Nat /\ visible <= Len(rows)
      /\ rows \in Seq(TraceRows)
      /\ \A i, j \in 1 .. Len(rows) : i <= j => rows[i].time <= rows[j].time
      /\ \A i \in 1 .. Len(rows) : rows[i].time <= now /\ rows[i].time \in Nat
  <2>1. TraceOk(rows, visible, now) /\ cut \in BOOLEAN
    BY DEF PfcInv
  <2> QED BY <2>1, TraceIs DEF TraceOk
<1>1. CASE Tick
  <2>1. /\ now' = now + 1 /\ rows' = rows /\ visible' = visible /\ cut' = cut
        /\ reader' = reader
    BY <1>1 DEF Tick
  <2>2. TraceOk(rows', visible', now')
    BY <1>0, <2>1 DEF TraceOk
  <2>3. /\ now <= now' /\ visible <= visible' /\ Len(rows) <= Len(rows') /\ cut' \in BOOLEAN
        /\ \A i \in 1 .. Len(rows) : rows'[i] = rows[i]
        /\ \A i \in 1 .. Len(rows') : i > Len(rows) => rows'[i].time >= now
    BY <1>0, <2>1
  <2> QED BY <2>1, <2>2, <2>3, TraceStep
<1>2. CASE Flush
  <2>1. /\ now' = now /\ rows' = rows /\ reader' = reader /\ cut' \in BOOLEAN
        /\ visible' \in visible .. Len(rows)
    BY <1>2 DEF Flush
  <2>2. TraceOk(rows', visible', now')
    BY <1>0, <2>1 DEF TraceOk
  <2>3. /\ now <= now' /\ visible <= visible' /\ Len(rows) <= Len(rows')
        /\ \A i \in 1 .. Len(rows) : rows'[i] = rows[i]
        /\ \A i \in 1 .. Len(rows') : i > Len(rows) => rows'[i].time >= now
    BY <1>0, <2>1
  <2> QED BY <2>1, <2>2, <2>3, TraceStep
<1>3. CASE \E l \in Links : GetPfc(l)
  <2>1. PICK l \in Links : GetPfc(l)
    BY <1>3
  <2> DEFINE n == Len(rows)
             row == [time |-> now, link |-> l,
                     type |-> IF l \in Paused(n) THEN Resume ELSE Pause]
  <2>2. /\ now' = now /\ visible' = visible /\ cut' = cut /\ reader' = reader
        /\ rows' = Append(rows, row)
    BY <2>1 DEF GetPfc
  <2>3. row \in TraceRows /\ row.time = now
    BY <1>0 DEF TraceRows
  <2> HIDE DEF row
  <2>4. /\ rows' \in Seq(TraceRows) /\ Len(rows') = n + 1 /\ rows'[n + 1] = row
        /\ \A i \in 1 .. n : rows'[i] = rows[i]
    BY <1>0, <2>2, <2>3, AppendProperties
  <2>5. n \in Nat
    BY <1>0
  <2> HIDE DEF n
  <2>6. ASSUME NEW i \in 1 .. n + 1
        PROVE  /\ rows'[i].time <= now /\ rows'[i].time \in Nat
               /\ i > n => rows'[i].time = now
               /\ i \in 1 .. n => rows'[i] = rows[i]
    <3>1. CASE i = n + 1
      <4>1. rows'[i].time = now
        BY <2>3, <2>4, <3>1
      <4> QED BY <1>0, <2>5, <3>1, <4>1
    <3>2. CASE i \in 1 .. n
      <4>1. rows'[i] = rows[i]
        BY <2>4, <3>2
      <4>2. rows[i].time <= now /\ rows[i].time \in Nat
        BY <1>0, <3>2 DEF n
      <4> QED BY <2>5, <3>2, <4>1, <4>2
    <3> QED BY <2>5, <3>1, <3>2
  <2>7. ASSUME NEW i \in 1 .. n + 1, NEW j \in 1 .. n + 1, i <= j
        PROVE  rows'[i].time <= rows'[j].time
    <3>1. CASE j > n
      BY <2>6, <3>1
    <3>2. CASE ~(j > n)
      <4>1. i \in 1 .. n /\ j \in 1 .. n
        BY <2>5, <2>7, <3>2
      <4>2. rows[i].time <= rows[j].time
        BY <1>0, <2>7, <4>1 DEF n
      <4> QED BY <2>4, <4>1, <4>2
    <3> QED BY <3>1, <3>2
  <2>8. TraceOk(rows', visible', now')
    <3>1. visible \in 0 .. n + 1
      BY <1>0, <2>5 DEF n
    <3> QED BY <1>0, <2>2, <2>4, <2>6, <2>7, <3>1 DEF TraceOk
  <2>9. /\ now <= now' /\ visible <= visible' /\ Len(rows) <= Len(rows') /\ cut' \in BOOLEAN
        /\ \A i \in 1 .. Len(rows) : rows'[i] = rows[i]
        /\ \A i \in 1 .. Len(rows') : i > Len(rows) => rows'[i].time >= now
    <3>1. \A i \in 1 .. n + 1 : i > n => rows'[i].time >= now
      BY <1>0, <2>6
    <3>2. n <= n + 1
      BY <2>5
    <3> QED BY <1>0, <2>2, <2>4, <3>1, <3>2 DEF n
  <2> QED BY <2>2, <2>8, <2>9, TraceStep
<1> QED BY <1>1, <1>2, <1>3

\* ... and the tuner keep the invariant.
LEMMA TunerKeeps ==
    ASSUME PfcInv,
           NextRound \/ \E t \in 1 .. MaxTime : Observe(t) \/ StartSearch(t)
    PROVE  PfcInv'
<1>0. Period \in Nat \ {0} /\ Window \in Nat \ {0} /\ MaxTime \in Nat
  BY PfcAssumption
<1> DEFINE obs == "observe"
           tune == "tune"
<1>1. obs \in Readers /\ tune \in Readers
  BY DEF Readers
<1>2. now \in Nat
  BY DEF PfcInv, TraceOk
<1>3. reader[tune] \in PfcReaders
  BY <1>1 DEF PfcInv
<1>4. reader[tune].stop \in Nat
  BY <1>3 DEF PfcReaders
<1>5. CASE NextRound
  <2>1. PICK s \in Nat : s = reader[tune].stop
    BY <1>4
  <2> DEFINE e == s + Window
  <2>2. /\ Read(tune, s, e) /\ now > e /\ UNCHANGED <<now, rows, visible, cut>>
    BY <1>5, <2>1 DEF NextRound
  <2>3. s \in Int /\ e \in Nat /\ s <= e /\ e <= now
    BY <1>0, <1>2, <2>2
  <2> HIDE DEF tune, e
  <2> QED BY <1>1, <2>2, <2>3, ReadStep
<1>6. ASSUME NEW t \in 1 .. MaxTime, Observe(t) PROVE PfcInv'
  <2> DEFINE s == Max0(t - Period)
  <2>1. Read(obs, s, t) /\ t <= now /\ UNCHANGED <<now, rows, visible, cut>>
    BY <1>6 DEF Observe
  <2>2. s \in Int /\ t \in Nat /\ s <= t
    BY <1>0 DEF Max0
  <2> HIDE DEF obs, s
  <2> QED BY <1>1, <2>1, <2>2, ReadStep
<1>7. ASSUME NEW t \in 1 .. MaxTime, StartSearch(t) PROVE PfcInv'
  <2> DEFINE s == t - Window
  <2>1. Read(tune, s, t) /\ t <= now /\ UNCHANGED <<now, rows, visible, cut>>
    BY <1>7 DEF StartSearch
  <2>2. s \in Int /\ t \in Nat /\ s <= t
    BY <1>0
  <2> HIDE DEF tune, s
  <2> QED BY <1>1, <2>1, <2>2, ReadStep
<1> QED BY <1>5, <1>6, <1>7

\* An empty trace, and readers that have not read.
LEMMA PfcStarts ==
    ASSUME PfcInit PROVE PfcInv
<1>1. /\ now = 0 /\ rows = <<>> /\ visible = 0 /\ cut = FALSE
      /\ reader = [r \in Readers |-> FreshReader]
  BY DEF PfcInit
<1>2. Len(rows) = 0 /\ rows \in Seq(TraceRows)
  BY <1>1
<1>3. TraceOk(rows, visible, now)
  BY <1>1, <1>2 DEF TraceOk
<1> DEFINE x == FreshReader
<1>4. /\ x \in PfcReaders /\ x.line = 0 /\ x.links = {} /\ x.stop = 0 /\ x.counted = {}
      /\ x.from = 0 /\ x.upto = 0 /\ x.top = 0
  BY DEF FreshReader, PfcReaders
<1> HIDE DEF x
<1>5. PausedIn(rows, 0) = {} /\ PausesOf(rows, 0, 0) = {}
  BY DEF PausedIn, PausesOf
<1>6. Placed(x, rows, visible, now)
  BY <1>1, <1>2, <1>4 DEF Placed
<1>7. Carries(x, rows) /\ Counts(x, rows)
  BY <1>4, <1>5 DEF Carries, Counts
<1>8. ReaderOk(x, rows, visible, now)
  BY <1>4, <1>6, <1>7 DEF ReaderOk
<1>9. reader = [r \in Readers |-> x]
  BY <1>1 DEF x
<1> QED BY <1>1, <1>3, <1>4, <1>8, <1>9 DEF PfcInv

\* Rows of pfc.txt are in the order of their times and each reader is right
\* about its line: the inductive invariant of get_pfc, the late flushes and the
\* two readers of pfc_handling_with_state.
THEOREM PfcInvariant ==
    PfcSpec => []PfcInv
<1>1. PfcInit => PfcInv
  BY PfcStarts
<1>2. ASSUME PfcInv, [PfcNext]_pfcVars PROVE PfcInv'
  <2>1. CASE Tick \/ Flush \/ \E l \in Links : GetPfc(l)
    BY <1>2, <2>1, SimulatorKeeps
  <2>2. CASE NextRound \/ \E t \in 1 .. MaxTime : Observe(t) \/ StartSearch(t)
    BY <1>2, <2>2, TunerKeeps
  <2>3. CASE UNCHANGED pfcVars
    BY <1>2, <2>3 DEF PfcInv, pfcVars
  <2> QED BY <1>2, <2>1, <2>2, <2>3, Zenon DEF PfcNext
<1> QED BY <1>1, <1>2, PTL DEF PfcSpec

\* The links that pfc_handling_with_state carries from window to window are
\* those that are paused at its line, but for links whose last row was read cut.
THEOREM LinksCarried ==
    PfcSpec => []CarriedIsReplay
<1>1. ASSUME PfcInv PROVE CarriedIsReplay
  <2>1. \A n : Paused(n) = PausedIn(rows, n)
    BY DEF Paused, PausedIn
  <2>2. \A r \in Readers : Carries(reader[r], rows)
    BY <1>1 DEF PfcInv, ReaderOk
  <2> QED BY <2>1, <2>2 DEF CarriedIsReplay, Carries
<1> QED BY <1>1, PfcInvariant, PTL

\* The links it counts for a window that follows the one before, both read in
\* full, are those that were paused at some instant of the window.
THEOREM WindowsExact ==
    PfcSpec => []CountIsExact
<1>1. ASSUME PfcInv PROVE CountIsExact
  <2>1. \A n : Paused(n) = PausedIn(rows, n)
    BY DEF Paused, PausedIn
  <2>2. \A r \in Readers : Counts(reader[r], rows)
    BY <1>1 DEF PfcInv, ReaderOk
  <2> QED BY <2>1, <2>2 DEF CountIsExact, Counts, PausesOf
<1> QED BY <1>1, PfcInvariant, PTL

=============================================================================
