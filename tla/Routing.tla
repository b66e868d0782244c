------------------------------- MODULE Routing -------------------------------
(***************************************************************************)
(* The routing of scratch/third.cc: for every host a breadth-first search  *)
(* over the links that are up gives each node its next hops towards the    *)
(* host; switches and hosts pick one of them by a hash.  A link may be     *)
(* taken down while packets are under way and queue pairs are open: the    *)
(* tables are computed anew and each host distributes its queue pairs over *)
(* its NICs again.                                                         *)
(*                                                                         *)
(* The model starts in any topology over the given links, follows one      *)
(* packet at a time and has one queue pair for each pair of hosts.  A port *)
(* is named by the node at its other end.                                  *)
(***************************************************************************)
EXTENDS Integers, Sequences, FiniteSets, Counting

CONSTANTS
    Hosts, Switches,   \* nodes of type 0 and 1
    AllLinks           \* links that a topology may have: sets of two nodes

Nodes == Hosts \cup Switches

ASSUME RoutingAssumption ==
    /\ IsFiniteSet(Nodes) /\ Nodes \subseteq Nat /\ Hosts \cap Switches = {}
    /\ AllLinks \subseteq {{a, b} : a, b \in Nodes} /\ \A l \in AllLinks : Cardinality(l) = 2

VARIABLES
    up,       \* the links of nbr2if that are up
    tables,   \* m_rtTable of each node for each host: a set of next hops
    nic,      \* the NIC in whose qpGrp the queue pair of two hosts is, or NoNic
    packet,   \* a packet on its way
    taken,    \* TakeDownLink has been called
    failed    \* the assertion of GetNicIdxOfQp has failed

vars == <<up, tables, nic, packet, taken, failed>>

Pairs == {p \in Hosts \X Hosts : p[1] # p[2]}
NoNic == -1
Neighbours(links, n) == {m \in Nodes : {n, m} \in links}

-----------------------------------------------------------------------------
(* The search *)

Unvisited == -1
Start(host) ==
    [q |-> <<host>>, dis |-> [n \in Nodes |-> IF n = host THEN 0 ELSE Unvisited],
     nextHop |-> [n \in Nodes |-> {}]]

\* The map of neighbours is gone through in one order, here by node id.
Ascending(S) == [k \in 1 .. Cardinality(S) |-> Nth(S, k)]

\* Mutation: hosts forward packets.
EnqueueAll(new) == Ascending(new)
\* Only switches are enqueued: no packet goes through a host.
EnqueueSwitches(new) == Ascending(new \cap Switches)

\* Mutation: a neighbour as far from the host as the node itself will do.
NotBeyond(dis, now, n) == dis[n] >= dis[now]
\* now is on a shortest path from n to the host.
OnShortestPath(dis, now, n) == dis[n] = dis[now] + 1

\* One round of the loop: the neighbours of now over links that are up.
Expand(s, links, now) ==
    LET next == Neighbours(links, now)
        new == {n \in next : s.dis[n] = Unvisited}
        dis == [n \in Nodes |-> IF n \in new THEN s.dis[now] + 1 ELSE s.dis[n]]
    IN  [q |-> s.q \o EnqueueSwitches(new), dis |-> dis,
         nextHop |-> [n \in Nodes |->
            IF n \in next /\ OnShortestPath(dis, now, n) THEN s.nextHop[n] \cup {now}
            ELSE s.nextHop[n]]]

\* run[i] is the state after i rounds; there is a round for each node enqueued.
Round(s, links, i) == IF i > Len(s.q) THEN s ELSE Expand(s, links, s.q[i])
Search(links, host) ==
    LET run[i \in 0 .. Cardinality(Nodes)] ==
            IF i = 0 THEN Start(host) ELSE Round(run[i - 1], links, i)
    IN  run
CalculateRoute(links, host) == Search(links, host)[Cardinality(Nodes)].nextHop

\* CalculateRoutes and SetRoutingEntries.
Routes(links) ==
    LET nextHop == [h \in Hosts |-> CalculateRoute(links, h)]
    IN  [n \in Nodes |-> [h \in Hosts |-> nextHop[h][n]]]

-----------------------------------------------------------------------------
(* Hosts, switches and packets *)

NoPacket == [state |-> "none", at |-> 0, to |-> 0, dst |-> 0, calm |-> TRUE]

Init ==
    /\ up \in SUBSET AllLinks
    /\ tables = Routes(up)
    /\ nic = [p \in Pairs |-> NoNic]
    /\ packet = NoPacket
    /\ taken = FALSE /\ failed = FALSE

\* AddQueuePair: GetNicIdxOfQp asserts that there is a next hop.
AddQueuePair(p) ==
    /\ ~failed /\ nic[p] = NoNic
    /\ IF tables[p[1]][p[2]] = {} THEN failed' = TRUE /\ UNCHANGED nic
       ELSE /\ \E n \in tables[p[1]][p[2]] : nic' = [nic EXCEPT ![p] = n]
            /\ UNCHANGED failed
    /\ UNCHANGED <<up, tables, packet, taken>>

QpComplete(p) ==
    /\ ~failed /\ nic[p] # NoNic
    /\ nic' = [nic EXCEPT ![p] = NoNic]
    /\ UNCHANGED <<up, tables, packet, taken, failed>>

\* The NIC of a queue pair starts to send a packet.
Send(p) ==
    /\ ~failed /\ nic[p] # NoNic /\ packet.state # "moving"
    /\ packet' = [state |-> "moving", at |-> p[1], to |-> nic[p], dst |-> p[2],
                  calm |-> TRUE]
    /\ UNCHANGED <<up, tables, nic, taken, failed>>

\* The packet arrives at the other end of the link: the host takes it, a switch
\* sends it to one of the next hops (GetOutDev) or drops it if there is none.
Arrive ==
    /\ ~failed /\ packet.state = "moving"
    /\ IF packet.to \in Hosts THEN packet' = [packet EXCEPT !.state = "arrived", !.at = packet.to]
       ELSE IF tables[packet.to][packet.dst] = {} THEN packet' = [packet EXCEPT !.state = "dropped"]
       ELSE \E n \in tables[packet.to][packet.dst] :
               packet' = [packet EXCEPT !.at = packet.to, !.to = n]
    /\ UNCHANGED <<up, tables, nic, taken, failed>>

\* Mutation: queue pairs stay where they are.
KeepNics(routes) ==
    /\ UNCHANGED nic
    /\ failed' = (\E p \in Pairs : nic[p] # NoNic /\ routes[p[1]][p[2]] = {})
\* RedistributeQp on every host; the assertion holds for each queue pair or ends
\* the simulation.
RedistributeQps(routes) ==
    LET open == {p \in Pairs : nic[p] # NoNic}
    IN  IF \E p \in open : routes[p[1]][p[2]] = {}
        THEN failed' = TRUE /\ UNCHANGED nic
        ELSE /\ UNCHANGED failed
             /\ nic' \in {f \in [Pairs -> Nodes \cup {NoNic}] : \A p \in Pairs :
                    IF p \in open THEN f[p] \in routes[p[1]][p[2]] ELSE f[p] = NoNic}

\* Mutation: the entries of the old routes stay in the tables.
AddToTables(routes) == [n \in Nodes |-> [h \in Hosts |-> tables[n][h] \cup routes[n][h]]]
\* ClearTable, then SetRoutingEntries.
ReplaceTables(routes) == routes

\* TakeDownLink, scheduled once: what is on the link, or queued for it, is lost.
TakeDownLink(link) ==
    /\ ~failed /\ ~taken /\ taken' = TRUE
    /\ IF link \in up
       THEN \E routes \in {Routes(up \ {link})} :
            /\ up' = up \ {link}
            /\ tables' = ReplaceTables(routes)
            /\ packet' = IF packet.state = "moving" /\ {packet.at, packet.to} = link
                         THEN [packet EXCEPT !.state = "dropped", !.calm = FALSE]
                         ELSE [packet EXCEPT !.calm = FALSE]
            /\ RedistributeQps(tables')
       ELSE UNCHANGED <<up, tables, nic, packet, failed>>

Next ==
    \/ \E p \in Pairs : AddQueuePair(p) \/ QpComplete(p) \/ Send(p)
    \/ Arrive
    \/ \E link \in AllLinks : TakeDownLink(link)

Spec == Init /\ [][Next]_vars
\* A packet that is sent arrives at the other end of the link.
FairSpec == Spec /\ WF_vars(Arrive)

-----------------------------------------------------------------------------
(* Properties *)

\* Length of the shortest path from a to b with only switches in between, or 0
\* if there is none: a definition that knows nothing of the search.
PathThrough(links, a, via, b) ==
    LET path == <<a>> \o via \o <<b>>
    IN  \A i \in 1 .. Len(path) - 1 : {path[i], path[i + 1]} \in links
Distance(links, a, b) ==
    LET lengths == {k \in 0 .. Cardinality(Switches) :
                       \E via \in [1 .. k -> Switches] : PathThrough(links, a, via, b)}
    IN  IF lengths = {} THEN 0 ELSE 1 + CHOOSE k \in lengths : \A j \in lengths : k <= j

\* Every table holds exactly the neighbours on the shortest paths through
\* switches over links that are up, for every topology and after a link went
\* down: none is missing, so that a host that can be reached is, and none leads
\* to a host in between or over a dead link.
RoutesAreShortest ==
    \A h \in Hosts : \A n \in Nodes \ {h} :
        tables[n][h] =
            IF {n, h} \in up THEN {h}
            ELSE {m \in Neighbours(up, n) \cap Switches :
                     /\ Distance(up, m, h) > 0
                     /\ Distance(up, m, h) + 1 = Distance(up, n, h)}

\* Each open queue pair is on a NIC whose link is up and leads to its
\* destination, also after the redistribution.  "We assume at least one NIC is
\* alive" fails only for hosts that no path through switches connects.
QpsOnLiveNics ==
    /\ ~failed => \A p \in Pairs : nic[p] # NoNic =>
          {p[1], nic[p]} \in up /\ nic[p] \in tables[p[1]][p[2]]
    /\ failed => \E p \in Pairs : Distance(up, p[1], p[2]) = 0

\* A packet moves over links that are up only and ends at its destination and at
\* no other host; it is dropped only after a link went down on its way.
PacketsReachDst ==
    /\ packet.state = "moving" => {packet.at, packet.to} \in up
    /\ packet.state = "arrived" => packet.at = packet.dst
    /\ packet.state = "dropped" => ~packet.calm

\* No packet circles: it arrives or is dropped, although the tables may change
\* while it is under way, in a switch that is no longer closer than the last.
NoPacketCircles == (packet.state = "moving" /\ ~failed) ~> (packet.state # "moving" \/ failed)

=============================================================================
