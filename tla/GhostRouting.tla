---------------------------- MODULE GhostRouting ----------------------------
(***************************************************************************)
(* What a node of the mesh knows of routes (mesh/ghost/): SpatialTopology  *)
(* says who is where, RouteCache keeps routes, GhostHealthMonitor counts   *)
(* what became of packets, by ghost and by cell, GhostReplicationEngine    *)
(* counts copies and GhostReceiptEngine keeps what became of sessions.     *)
(* Nobody composes them but callers: they share the clock.  PathOptimizer, *)
(* whose constructor throws, is left out.                                  *)
(*                                                                         *)
(* Cells lie on a line, so the Manhattan distance is a difference; a chain *)
(* is the sequence of its cells.                                           *)
(***************************************************************************)
EXTENDS Integers, Sequences, FiniteSets, SequencesExt, FiniteSetsExt, Functions

CONSTANTS Node, Self, SelfCoord, MaxCoord, KHop,
          Session,        \* transfers
          GhostTtl,       \* how long a reservation holds
          Chain,          \* chains of cells a route may take
          RouteTtl,       \* ROUTE_CACHE_TTL_MS
          RouteMax,       \* ROUTE_CACHE_MAX
          HitWorth,       \* how much younger a hit makes an entry
          Distance,       \* session -> distance, of which DR is the factor
          GhostId,        \* ghosts whose health is kept
          MaxGhosts,      \* MAX_GHOSTS
          MaxTime,        \* bound: the clock
          MaxEvents,      \* bound: packets, or reports of sessions
          None

VARIABLES now,
          grid, records,               \* SpatialTopology: cell -> occupant, node -> record
          held, contested,             \* history: reservations; cells shared, or lost at twice
          cache, outcome,              \* RouteCache; history: what was last said of a route
          lastEvicted,                 \* history: use and age of the entry evicted last, of those that stayed
          ghosts, coords,              \* GhostHealthMonitor: records of ghosts, cell -> record
          packets, reported, idle,     \* history: packets; by ghost since registered; last eviction
          copies, status, satisfied,   \* GhostReplication of each session
          digesting, receipts,         \* GhostReceiptEngine
          reports, overtaken           \* history: results as reported; a later digest came first

topology == <<grid, records, held, contested>>
healthOfGhosts == <<ghosts, coords, packets, reported, idle>>
routes == <<cache, outcome, lastEvicted>>
sessions == <<copies, status, satisfied, digesting, receipts, reports, overtaken>>
others == <<now, topology, routes, healthOfGhosts>>
vars == <<now, topology, routes, healthOfGhosts, sessions>>

Cell == 0..MaxCoord
Peer == Node \ {Self}
ManhattanDistance(a, b) == IF a > b THEN a - b ELSE b - a
Empty == [kind |-> "empty"]
IsNode(n) == [kind |-> "node", node |-> n]

Init ==
    /\ now = 0
    /\ grid = [c \in Cell |-> IF c = SelfCoord THEN IsNode(Self) ELSE Empty]
    /\ records = [n \in Peer |-> None] /\ held = {} /\ contested = {}
    /\ cache = <<>> /\ outcome = [k \in Peer |-> None] /\ lastEvicted = None
    /\ ghosts = <<>> /\ coords = [c \in Cell |-> [ok |-> 0, bad |-> 0]]
    /\ packets = 0 /\ reported = [g \in GhostId |-> None] /\ idle = None
    /\ copies = [s \in Session |-> {}] /\ status = [s \in Session |-> <<>>]
    /\ satisfied = [s \in Session |-> FALSE]
    /\ digesting = {} /\ receipts = [s \in Session |-> None]
    /\ reports = [s \in Session |-> <<>>] /\ overtaken = {}

\* Time passes; a reservation whose time is up is none.
Tick ==
    /\ now < MaxTime /\ now' = now + 1
    /\ held' = {h \in held : h.expiresAt > now + 1}
    /\ UNCHANGED <<grid, records, contested, routes, healthOfGhosts, sessions>>

-----------------------------------------------------------------------------
(* SpatialTopology. *)

Ghost(s, expiresAt) == [kind |-> "ghost", session |-> s, expiresAt |-> expiresAt]

ReserveGhost(c, s) ==
    /\ grid[c].kind # "node"
    /\ grid[c].kind = "ghost" => grid[c].expiresAt <= now
    /\ grid' = [grid EXCEPT ![c] = Ghost(s, now + GhostTtl)]
    /\ held' = held \union {[cell |-> c, session |-> s, expiresAt |-> now + GhostTtl]}
    /\ UNCHANGED <<now, records, contested, routes, healthOfGhosts, sessions>>

ReleaseGhost(c, s) ==
    /\ grid[c].kind = "ghost" /\ grid[c].session = s /\ grid' = [grid EXCEPT ![c] = Empty]
    /\ held' = {h \in held : h.cell # c \/ h.session # s}
    /\ UNCHANGED <<now, records, contested, routes, healthOfGhosts, sessions>>

Expired(c) == grid[c].kind = "ghost" /\ grid[c].expiresAt <= now
PruneExpiredGhosts ==
    /\ \E c \in Cell : Expired(c)
    /\ grid' = [c \in Cell |-> IF Expired(c) THEN Empty ELSE grid[c]]
    /\ UNCHANGED <<now, records, held, contested, routes, healthOfGhosts, sessions>>

At(c) == {n \in Peer : records[n] # None /\ records[n].online /\ records[n].cell = c}
         \union (IF c = SelfCoord THEN {Self} ELSE {})

\* seeNode: whoever was in the cell is out of it, and the cell the node comes from
\* keeps its mark.
SeeNode(n, c) ==
    /\ ManhattanDistance(SelfCoord, c) <= KHop
    /\ records' = [records EXCEPT ![n] = [cell |-> c, online |-> TRUE]]
    /\ grid' = [grid EXCEPT ![c] = IsNode(n)]
    /\ held' = {h \in held : h.cell # c}
    /\ contested' = IF At(c) \ {n} # {} THEN contested \union {c} ELSE contested
    /\ UNCHANGED <<now, routes, healthOfGhosts, sessions>>

\* loseNode: the cell is emptied, whoever is in it now, even if the node was lost before.
LoseNode(n) ==
    /\ records[n] # None
    /\ records' = [records EXCEPT ![n].online = FALSE]
    /\ grid' = [grid EXCEPT ![records[n].cell] = Empty]
    /\ contested' = IF records[n].online THEN contested ELSE contested \union {records[n].cell}
    /\ UNCHANGED <<now, held, routes, healthOfGhosts, sessions>>

-----------------------------------------------------------------------------
(* RouteCache, for the routes of this node: entries in the order of the Map. *)

MinConfidence == 4    \* ROUTE_CACHE_MIN_CONF, in tenths
Position(k) == {i \in DOMAIN cache : cache[i].key = k}
Without(entries, i) == RemoveAt(entries, i)

\* _evictLRU: the first of the lowest score.
UseOf(e) == [hits |-> e.hits, cachedAt |-> e.cachedAt]
EvictScore(e) == e.hits * HitWorth - (now - e.cachedAt)
Evicted(entries) ==
    LET lowest(i) == \A j \in DOMAIN entries : EvictScore(entries[i]) <= EvictScore(entries[j])
    IN  Min({i \in DOMAIN entries : lowest(i)})

\* set: a route too weak is refused and the one there was stays; at the limit an
\* entry goes, though the key may be there already.
SetRoute(k, chain, confidence) ==
    /\ confidence >= MinConfidence
    /\ LET full == Len(cache) >= RouteMax
           kept == IF full THEN Without(cache, Evicted(cache)) ELSE cache
           e == [key |-> k, chain |-> chain, cachedAt |-> now, expiresAt |-> now + RouteTtl,
                 hits |-> 0, confidence |-> confidence]
           i == {j \in DOMAIN kept : kept[j].key = k}
       IN  /\ cache' = IF i = {} THEN Append(kept, e) ELSE [kept EXCEPT ![Min(i)] = e]
           /\ lastEvicted' =
                IF full THEN <<UseOf(cache[Evicted(cache)]), {UseOf(x) : x \in Range(kept)}>>
                ELSE lastEvicted
           /\ outcome' = [outcome EXCEPT ![k] = <<chain, confidence, now + RouteTtl>>]
    /\ UNCHANGED <<now, topology, healthOfGhosts, sessions>>

\* get: an entry whose time is up goes.
Delete(ks) == cache' = SelectSeq(cache, LAMBDA e : e.key \notin ks)
GetRoute(k) ==
    /\ Position(k) # {}
    /\ LET i == Min(Position(k)) IN
       IF cache[i].expiresAt <= now THEN Delete({k})
       ELSE cache[i].hits < MaxEvents /\ cache' = [cache EXCEPT ![i].hits = @ + 1]
    /\ UNCHANGED <<now, topology, outcome, lastEvicted, healthOfGhosts, sessions>>

\* invalidate, and invalidateNode of a route's end; that a chain leads through the
\* cell of a node lost is not looked at.
Invalidate(k) ==
    /\ Position(k) # {} /\ Delete({k}) /\ outcome' = [outcome EXCEPT ![k] = None]
    /\ UNCHANGED <<now, topology, lastEvicted, healthOfGhosts, sessions>>

UpdateConfidence(k, confidence) ==
    /\ Position(k) # {}
    /\ IF confidence < MinConfidence
       THEN Delete({k}) /\ outcome' = [outcome EXCEPT ![k] = None]
       ELSE /\ cache' = [cache EXCEPT ![Min(Position(k))].confidence = confidence]
            /\ outcome' = [outcome EXCEPT ![k][2] = confidence]
    /\ UNCHANGED <<now, topology, lastEvicted, healthOfGhosts, sessions>>

PruneExpired ==
    /\ Delete({cache[i].key : i \in {j \in DOMAIN cache : cache[j].expiresAt <= now}})
    /\ UNCHANGED <<now, topology, outcome, lastEvicted, healthOfGhosts, sessions>>

-----------------------------------------------------------------------------
(* GhostHealthMonitor: records of ghosts in the order of the Map. *)

Of(g, recs) == {i \in DOMAIN recs : recs[i].id = g}
Told(ok, bad) == [ok |-> ok, bad |-> bad, at |-> now]

\* _evictOldest: the first of those idle longest.
Oldest ==
    Min({i \in DOMAIN ghosts :
           \A j \in DOMAIN ghosts : ghosts[i].lastActiveAt <= ghosts[j].lastActiveAt})

\* register: at the limit a record goes, though the ghost may have one already.
Register(g) ==
    /\ LET full == Len(ghosts) >= MaxGhosts
           kept == IF full THEN RemoveAt(ghosts, Oldest) ELSE ghosts
           rec == [id |-> g, ok |-> 0, bad |-> 0, lastActiveAt |-> now]
       IN  /\ ghosts' = IF Of(g, kept) = {} THEN Append(kept, rec)
                        ELSE [kept EXCEPT ![Min(Of(g, kept))] = rec]
           /\ idle' = IF full THEN <<reported[ghosts[Oldest].id].at,
                                     {reported[kept[i].id].at : i \in DOMAIN kept}>>
                      ELSE idle
    /\ reported' = [reported EXCEPT ![g] = Told(0, 0)]
    /\ UNCHANGED <<now, topology, routes, coords, packets, sessions>>

\* recordSuccess, recordFailure: _updateGhost, of a ghost that has a record, and
\* _updateCoord.
Counts(rec, success) ==
    [rec EXCEPT !.ok = @ + (IF success THEN 1 ELSE 0), !.bad = @ + (IF success THEN 0 ELSE 1)]
Record(g, c, success) ==
    /\ packets < MaxEvents /\ packets' = packets + 1
    /\ ghosts' = [i \in DOMAIN ghosts |->
           IF ghosts[i].id = g THEN [Counts(ghosts[i], success) EXCEPT !.lastActiveAt = now]
           ELSE ghosts[i]]
    /\ coords' = [coords EXCEPT ![c] = Counts(@, success)]
    /\ reported' = IF Of(g, ghosts) = {} THEN reported
                   ELSE [reported EXCEPT ![g] = [Counts(@, success) EXCEPT !.at = now]]
    /\ UNCHANGED <<now, topology, routes, idle, sessions>>

-----------------------------------------------------------------------------
(* GhostReplicationEngine and GhostReceiptEngine. *)

DR(n) == IF n = 0 THEN 0 ELSE 1 + ((n - 1) % 9)
Factor(s) == DR(Distance[s])
Confirmed(s) == {n \in copies[s] : status[s][n] = "confirmed"}
MissingCount(s) == Max({0, Factor(s) - Cardinality(Confirmed(s))})
WithStatus(s, n, what) ==
    [x \in DOMAIN status[s] \union {n} |-> IF x = n THEN what ELSE status[s][x]]
Counted(s, nodes, st) == Cardinality({n \in nodes : st[n] = "confirmed"}) >= Factor(s)

ConfirmCopy(s, n) ==
    LET st == WithStatus(s, n, "confirmed") IN
    /\ copies' = [copies EXCEPT ![s] = @ \union {n}]
    /\ status' = [status EXCEPT ![s] = st]
    /\ satisfied' = [satisfied EXCEPT ![s] = Counted(s, copies[s] \union {n}, st)]
    /\ UNCHANGED <<others, digesting, receipts, reports, overtaken>>

\* reportLoss, of a node that may never have had a copy.
ReportLoss(s, n) ==
    LET st == WithStatus(s, n, "lost") IN
    /\ status' = [status EXCEPT ![s] = st]
    /\ satisfied' = [satisfied EXCEPT ![s] = Counted(s, copies[s], st)]
    /\ UNCHANGED <<others, copies, digesting, receipts, reports, overtaken>>

\* create, up to the digest of the route.
CreateReceipt(s, success) ==
    /\ Len(reports[s]) < MaxEvents
    /\ reports' = [reports EXCEPT ![s] = Append(@, success)]
    /\ digesting' = digesting \union {<<s, Len(reports[s]) + 1>>}
    /\ UNCHANGED <<others, copies, status, satisfied, receipts, overtaken>>

\* _computeConfidence without scores of cells, in hundredths.
Confidence(s, success) ==
    (IF success THEN 70 ELSE 10) + (IF satisfied[s] THEN 10 ELSE 0)

\* create, after the digest: the last to come is kept.
Digested(s, i) ==
    /\ <<s, i>> \in digesting /\ digesting' = digesting \ {<<s, i>>}
    /\ receipts' = [receipts EXCEPT ![s] =
           [success |-> reports[s][i], at |-> now, confidence |-> Confidence(s, reports[s][i])]]
    /\ overtaken' = IF \E j \in 1..i - 1 : <<s, j>> \in digesting
                    THEN overtaken \union {s} ELSE overtaken
    /\ UNCHANGED <<others, copies, status, satisfied, reports>>

\* prune.
PruneReceipts(age) ==
    /\ receipts' = [s \in Session |->
           IF receipts[s] # None /\ receipts[s].at < now - age THEN None ELSE receipts[s]]
    /\ receipts' # receipts
    /\ UNCHANGED <<others, copies, status, satisfied, digesting, reports, overtaken>>

-----------------------------------------------------------------------------
\* The classes share nothing but the clock.
TopologyNext ==
    \/ Tick \/ PruneExpiredGhosts
    \/ \E c \in Cell, s \in Session : ReserveGhost(c, s) \/ ReleaseGhost(c, s)
    \/ \E n \in Peer : LoseNode(n) \/ \E c \in Cell : SeeNode(n, c)

RoutesNext ==
    \/ Tick \/ PruneExpired
    \/ \E n \in Peer :
         \/ \E chain \in Chain, confidence \in {3, 7} : SetRoute(n, chain, confidence)
         \/ \E confidence \in {3, 7} : UpdateConfidence(n, confidence)
         \/ GetRoute(n) \/ Invalidate(n)

HealthNext ==
    \/ Tick
    \/ \E g \in GhostId :
         Register(g) \/ \E c \in Cell, success \in BOOLEAN : Record(g, c, success)

SessionsNext ==
    \/ Tick
    \/ \E s \in Session :
         \/ \E n \in Peer : ConfirmCopy(s, n) \/ ReportLoss(s, n)
         \/ \E success \in BOOLEAN : CreateReceipt(s, success)
         \/ \E i \in 1..MaxEvents : Digested(s, i)
         \/ PruneReceipts(0)

Next == TopologyNext \/ RoutesNext \/ HealthNext \/ SessionsNext

Spec == Init /\ [][Next]_vars

-----------------------------------------------------------------------------
\* SpatialTopology ("Ghost o koordinatı geçici olarak işgal ediyor"): a reservation
\* stands until it is released, its time is up or a node is seen in its cell, unless
\* two nodes had the cell or one is lost there twice, which takes the reservation along;
\* and no cell is reserved twice.
ReservationsStand ==
    /\ \A h \in held : h.cell \notin contested => grid[h.cell] = Ghost(h.session, h.expiresAt)
    /\ \A g, h \in held : g.cell = h.cell /\ g.cell \notin contested => g = h

\* A node on line, the node itself with the others, has its cell marked, and no ghost
\* in it, unless another node was seen there.
NodesMarked ==
    \A c \in Cell : c \notin contested /\ At(c) # {} => \E n \in At(c) : grid[c] = IsNode(n)

\* RouteCache: a route it would give is the last one it took for that end, which was
\* not taken back since; one route an end, and no more than the limit.
RoutesCurrent ==
    /\ Len(cache) <= RouteMax
    /\ \A i, j \in DOMAIN cache : cache[i].key = cache[j].key => i = j
    /\ \A i \in DOMAIN cache :
         outcome[cache[i].key] = <<cache[i].chain, cache[i].confidence, cache[i].expiresAt>>

\* The route evicted was not both younger and more used than one that stayed.
EvictedForReason ==
    lastEvicted # None =>
        \A e \in lastEvicted[2] :
            ~(lastEvicted[1].hits > e.hits /\ lastEvicted[1].cachedAt > e.cachedAt)

\* GhostHealthMonitor: a record counts the packets of its ghost since it was registered
\* last, whatever records went meanwhile; a ghost has one, and no more are kept than the
\* limit; every packet counts for its cell, also those of a ghost without a record.
GhostsCounted ==
    /\ Len(ghosts) <= MaxGhosts
    /\ \A i, j \in DOMAIN ghosts : ghosts[i].id = ghosts[j].id => i = j
    /\ \A i \in DOMAIN ghosts :
         LET told == reported[ghosts[i].id]
         IN  ghosts[i].ok = told.ok /\ ghosts[i].bad = told.bad
    /\ MapThenSumSet(LAMBDA c : coords[c].ok + coords[c].bad, Cell) = packets

\* The ghost whose record went was heard of after none whose record stayed.
IdleEvicted ==
    idle # None => \A at \in idle[2] : idle[1] <= at

\* GhostReplicationEngine: satisfied is what the copies say, however copies and losses
\* come; enough are there exactly if none is missing.
CopiesCounted ==
    \A s \in Session :
        status[s] # <<>> => (satisfied[s] <=> MissingCount(s) = 0)

\* GhostReceiptEngine: a receipt is of the last report of its session, unless the digest
\* of an earlier one came later.
LastReportKept ==
    \A s \in Session :
        receipts[s] # None /\ s \notin overtaken =>
            LET done == {i \in DOMAIN reports[s] : <<s, i>> \notin digesting} IN
            receipts[s].success = reports[s][Max(done)]
=============================================================================
