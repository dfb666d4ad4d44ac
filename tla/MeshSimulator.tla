--------------------------- MODULE MeshSimulator ---------------------------
(***************************************************************************)
(* GhostSimulator (mesh/simulation/ghost-simulator.ts): five routing       *)
(* protocols over nodes that move, fail and recover.                       *)
(*                                                                         *)
(* A tick moves and fails nodes, computes the neighbours anew and, every   *)
(* tenth time, the tables of BATMAN and OLSR; between ticks packets are    *)
(* routed, each by the five protocols in turn, a step of the model for     *)
(* each turn of a routing loop.  The random numbers are choices: a         *)
(* transmission succeeds or not.  BATMAN, OLSR and DSR call packetLoss     *)
(* without the distance, so that it throws and run rejects; with Wired     *)
(* they call it as it is declared.  Coordinates lie on a line.  Left out:  *)
(* latencies, amounts of energy and memory, the figures of the report.     *)
(***************************************************************************)
EXTENDS Integers, Sequences, FiniteSets, SequencesExt

CONSTANTS Node,         \* a set of integers: nodes are met in their order
          MaxCoord,     \* 10
          At,           \* the coordinates at first
          Mobile,       \* nodes that move
          Flaky,        \* bound: nodes that fail or run out of battery
          Pair,         \* bound: sources and destinations of packets
          MaxHops,      \* MAX of _followRoute
          Wired,        \* FALSE: packetLoss(rng, 1, hw), as committed
          MaxTicks      \* bound: ticks, and a packet for each

VARIABLES
    coord, online, neighbors,
    empty,      \* nodes with no battery left
    batman,     \* batmanTable, never emptied
    mpr,        \* olsrMPR
    routeTable, \* AODV: node -> destination -> set of at most one next hop
    dsrCache,   \* DSR: node -> destination -> set of at most one route
    pkt,        \* the packet being routed
    linked,     \* history: pairs that were neighbours in some tick
    fresh,      \* history: the last tick computed the tables
    ticks, packets

net == <<coord, online, neighbors, batman, mpr, linked, fresh, ticks>>
vars == <<coord, online, neighbors, empty, batman, mpr, routeTable, dsrCache, pkt,
          linked, fresh, ticks, packets>>

\* The protocols in the order run takes them.
Protocols == <<"ghost", "aodv", "batman", "olsr", "dsr">>

Idle == [turn |-> Len(Protocols), path |-> <<>>, over |-> TRUE, delivered |-> FALSE,
         thrown |-> FALSE]

Nobody == [n \in Node |-> {}]
Nowhere == [n \in Node |-> [d \in Node |-> {}]]

Init ==
    /\ coord = At /\ online \in {Node \ f : f \in SUBSET Flaky} /\ empty = {}
    /\ neighbors = Nobody /\ batman = Nobody /\ mpr = Nobody
    /\ routeTable = Nowhere /\ dsrCache = Nowhere
    /\ pkt = Idle /\ linked = {} /\ fresh = FALSE /\ ticks = 0 /\ packets = 0

-----------------------------------------------------------------------------
Abs(i) == IF i < 0 THEN -i ELSE i
ManhattanDistance(a, b) == Abs(a - b)
Clamp(i) == IF i < 0 THEN 0 ELSE IF i > MaxCoord THEN MaxCoord ELSE i
First(S) == CHOOSE n \in S : \A m \in S : n <= m

\* _updateNeighbors
NeighborsOf(at, on) ==
    [n \in Node |-> {m \in on \ {n} : n \in on /\ ManhattanDistance(at[n], at[m]) <= 2}]

Near(nbr, n) == UNION {nbr[m] : m \in nbr[n]} \ (nbr[n] \cup {n})

\* Mutant: every neighbour is removed at once, so one relay is enough.
OneRelay(nbr, n) ==
    IF Near(nbr, n) = {} THEN {} ELSE {First({a \in nbr[n] : nbr[a] \cap Near(nbr, n) # {}})}

\* _updateOLSRMPR: the neighbour that covers most of what is not covered, again
\* and again.
Relays(nbr, n) ==
    LET better(a, b, open) == Cardinality(nbr[a] \cap open) >= Cardinality(nbr[b] \cap open)
        best(open) == First({a \in nbr[n] : \A b \in nbr[n] : better(a, b, open)})
        pick[open \in SUBSET Near(nbr, n)] ==
            IF open = {} THEN {}
            ELSE {best(open)} \cup pick[open \ nbr[best(open)]]
    IN pick[Near(nbr, n)]

\* All protocols are through with the packet, and none of them threw.
RunGoesOn == pkt.over /\ pkt.turn = Len(Protocols) /\ ~pkt.thrown

\* _applyMobility: of the mobile nodes on line, each may take a step.
Moved(step) ==
    [n \in Node |-> IF n \in Mobile \cap online THEN Clamp(coord[n] + step[n]) ELSE coord[n]]

\* _applyFailures: an empty node goes off line for good, any other may go or
\* come back.
On(failed) == Node \ (failed \cup empty)

\* _updateBATMANTable: entries are added and never removed.
BatmanTables(nbr, on) ==
    [n \in Node |-> IF n \in on THEN batman[n] \cup nbr[n] ELSE batman[n]]

\* _invalidateAODVRoutes goes by the clock: any of the entries may be too old.
Entries == {e \in Node \X Node : routeTable[e[1]][e[2]] # {}}
Unexpired(kept) ==
    [n \in Node |-> [d \in Node |-> IF <<n, d>> \in kept THEN routeTable[n][d] ELSE {}]]

\* One turn of run: movement, failures, neighbours and, every tenth time, the
\* tables.
Tick ==
    /\ RunGoesOn /\ ticks < MaxTicks /\ ticks' = ticks + 1 /\ pkt' = Idle
    /\ \E step \in [Mobile -> -1..1], failed \in SUBSET Flaky, refresh \in BOOLEAN :
        LET on == On(failed)
            nbr == NeighborsOf(Moved(step), on)
        IN
        /\ ticks = 0 => refresh
        /\ coord' = Moved(step) /\ online' = on /\ neighbors' = nbr /\ fresh' = refresh
        /\ linked' = linked \cup {<<n, m>> \in on \X on : m \in nbr[n]}
        /\ IF refresh
           THEN /\ batman' = BatmanTables(nbr, on)
                /\ mpr' = [n \in Node |-> IF n \in on THEN Relays(nbr, n) ELSE mpr[n]]
                /\ routeTable' \in {Unexpired(kept) : kept \in SUBSET Entries}
           ELSE UNCHANGED <<batman, mpr, routeTable>>
    /\ UNCHANGED <<empty, dsrCache, packets>>

-----------------------------------------------------------------------------
Tables == UNCHANGED <<net, routeTable, dsrCache, packets>>
Proto == Protocols[pkt.turn]
Routing(p) == ~pkt.over /\ Proto = p

\* A packet between two nodes on line, first for the ghosts.
Send(s, d) ==
    /\ RunGoesOn /\ ticks > 0 /\ packets < ticks /\ packets' = packets + 1
    /\ {s, d} \subseteq online
    /\ pkt' = [src |-> s, dst |-> d, turn |-> 1, path |-> <<s>>,
               over |-> FALSE, delivered |-> FALSE, thrown |-> FALSE]
    /\ UNCHANGED <<net, empty, routeTable, dsrCache>>

\* The same packet for the next protocol.
NextProtocol ==
    /\ pkt.over /\ ~pkt.thrown /\ pkt.turn < Len(Protocols)
    /\ pkt' = [src |-> pkt.src, dst |-> pkt.dst, turn |-> pkt.turn + 1,
               path |-> <<pkt.src>>, over |-> FALSE, delivered |-> FALSE, thrown |-> FALSE]
    /\ Tables /\ UNCHANGED empty

Lost == pkt' = [pkt EXCEPT !.over = TRUE] /\ UNCHANGED empty
Throws == pkt' = [pkt EXCEPT !.over = TRUE, !.thrown = TRUE] /\ UNCHANGED empty

\* A delivered packet takes of its source's battery, maybe the last of it.
Delivered(path) ==
    /\ pkt' = [pkt EXCEPT !.path = path, !.over = TRUE, !.delivered = TRUE]
    /\ empty' \in {empty, empty \cup ({pkt.src} \cap Flaky)}

Cur == Last(pkt.path)

\* A transmission of BATMAN, OLSR or DSR to a node.
Transmit(n) ==
    IF ~Wired THEN Throws
    ELSE \/ Lost
         \/ IF n = pkt.dst THEN Delivered(Append(pkt.path, n))
            ELSE pkt' = [pkt EXCEPT !.path = Append(@, n)] /\ UNCHANGED empty

\* _routeGhostHybrid: to a neighbour, over a neighbour's neighbour, or along a
\* chain of ghosts that needs no node between the two.
RouteGhost ==
    LET s == pkt.src  d == pkt.dst
        over == {n \in neighbors[s] \cap online : d \in neighbors[n]}
    IN
    /\ Routing("ghost") /\ Tables
    /\ \/ Lost
       \/ Delivered(IF d \in neighbors[s] THEN <<s, d>>
                    ELSE IF over # {} THEN <<s, First(over), d>>
                    ELSE <<s, d>>)

\* _aodvDiscover: a breadth-first search in which any link may fail finds any
\* path without repetition, or none.
Routes(s, d) ==
    {<<s>> \o p \o <<d>> : p \in UNION {[1..k -> online \ {s, d}] : k \in 0..Cardinality(Node) - 2}}
Discovered(s, d) ==
    {r \in Routes(s, d) : /\ IsInjective(r)
                          /\ \A i \in 1..Len(r) - 1 : r[i + 1] \in neighbors[r[i]]}

\* _routeAODV: by the first hop in the table if it is on line, else by a route
\* discovered, whose first hop is kept.
StartAodv ==
    LET kept == routeTable[pkt.src][pkt.dst] \cap online IN
    /\ Routing("aodv") /\ Len(pkt.path) = 1 /\ UNCHANGED <<net, dsrCache, packets>>
    /\ \/ /\ kept # {} /\ UNCHANGED <<routeTable, empty>>
          /\ \E n \in kept : pkt' = [pkt EXCEPT !.path = Append(@, n)]
       \/ /\ kept = {} /\ UNCHANGED empty
          /\ \E r \in Discovered(pkt.src, pkt.dst) :
                /\ pkt' = [pkt EXCEPT !.path = Append(@, r[2])]
                /\ routeTable' = [routeTable EXCEPT ![pkt.src][pkt.dst] = {r[2]}]
       \/ kept = {} /\ Lost /\ UNCHANGED routeTable

\* _followRoute: every node goes by its own table, or to its first neighbour on
\* line; nothing remembers where the packet was.
HopAodv ==
    LET kept == routeTable[Cur][pkt.dst]  here == neighbors[Cur] \cap online IN
    /\ Routing("aodv") /\ Len(pkt.path) > 1 /\ Tables
    /\ IF Cur = pkt.dst THEN Delivered(pkt.path)
       ELSE \/ Lost
            \/ /\ Cur \in online /\ Len(pkt.path) <= MaxHops
               /\ \/ \E n \in kept : pkt' = [pkt EXCEPT !.path = Append(@, n)]
                  \/ kept = {} /\ here # {}
                     /\ pkt' = [pkt EXCEPT !.path = Append(@, First(here))]
               /\ UNCHANGED empty

Nearest(S) == {n \in S : \A m \in S : ManhattanDistance(coord[n], coord[pkt.dst])
                                      <= ManhattanDistance(coord[m], coord[pkt.dst])}

\* Mutant: the nodes visited are not remembered.
AnyOnline(S) == (S \cap online) \ {Cur}

\* BATMAN and OLSR go hop by hop to a node not yet visited.
Unvisited(S) == (S \cap online) \ ToSet(pkt.path)

\* _routeBATMAN: the table's best, else the nearest neighbour; a node's entries
\* all have the same quality, so the best is the nearest.
HopBatman ==
    LET known == Unvisited(batman[Cur])
        next == Nearest(IF known # {} THEN known ELSE Unvisited(neighbors[Cur]))
    IN
    /\ Routing("batman") /\ Tables
    /\ IF next = {} THEN Lost ELSE \E n \in next : Transmit(n)

\* _routeOLSR: only the relays are candidates when there are any.
HopOlsr ==
    LET next == Nearest(Unvisited(IF mpr[Cur] # {} THEN mpr[Cur] ELSE neighbors[Cur])) IN
    /\ Routing("olsr") /\ Tables
    /\ IF next = {} THEN Lost ELSE \E n \in next : Transmit(n)

\* Mutant: a cached route is taken while its target is on line.
UsableToTarget(r) == Last(r) \in online

\* Every node of a cached route is on line.
Usable(r) == \A i \in 1..Len(r) : r[i] \in online

\* _routeDSR: the route kept if all of it is on line, else a new one.
StartDsr ==
    LET kept == {r \in dsrCache[pkt.src][pkt.dst] : Usable(r)} IN
    /\ Routing("dsr") /\ "route" \notin DOMAIN pkt /\ UNCHANGED <<net, routeTable, packets>>
    /\ \/ /\ kept # {} /\ UNCHANGED <<dsrCache, empty>>
          /\ \E r \in kept : pkt' = [route |-> r] @@ pkt
       \/ /\ kept = {} /\ UNCHANGED empty
          /\ \E r \in Discovered(pkt.src, pkt.dst) :
                /\ pkt' = [route |-> r] @@ pkt
                /\ dsrCache' = [dsrCache EXCEPT ![pkt.src][pkt.dst] = {r}]
       \/ kept = {} /\ Lost /\ UNCHANGED dsrCache
HopDsr ==
    /\ Routing("dsr") /\ "route" \in DOMAIN pkt /\ Tables
    /\ Transmit(pkt.route[Len(pkt.path) + 1])

Next ==
    \/ Tick \/ NextProtocol \/ RouteGhost \/ StartAodv \/ HopAodv \/ HopBatman \/ HopOlsr
    \/ StartDsr \/ HopDsr
    \/ \E p \in Pair : Send(p[1], p[2])

Spec == Init /\ [][Next]_vars

-----------------------------------------------------------------------------
Hops == {<<pkt.path[i], pkt.path[i + 1]>> : i \in 1..Len(pkt.path) - 1}

\* Tables and caches outlive the neighbours they were made of; still, but for
\* the chain of ghosts, a packet only goes over links that existed in some tick.
HopsWereLinks == Proto # "ghost" => Hops \subseteq linked

\* A packet of BATMAN, OLSR or DSR never comes back to a node, though the
\* tables of the nodes on its way were made at different times.
NoReturn == Proto # "aodv" => IsInjective(pkt.path)

\* What is delivered went over nodes on line only.
DeliveredOnline == pkt.delivered => ToSet(pkt.path) \subseteq online

\* After a tick that computed them the relays of a node reach all that is two
\* hops away, and nothing but neighbours are relays.
RelaysCover ==
    fresh => \A n \in online :
        /\ mpr[n] \subseteq neighbors[n]
        /\ \A m \in Near(neighbors, n) : \E r \in mpr[n] : m \in neighbors[r]

\* As committed a run rejects in BATMAN at the first packet whose source ever saw
\* a node that is on line, so OLSR and DSR never transmit.
ThrowsInBatman ==
    ~Wired => /\ pkt.thrown => Proto = "batman"
              /\ Proto \in {"olsr", "dsr"} /\ pkt.path # <<>> =>
                     neighbors[pkt.src] \cap online = {}
=============================================================================
