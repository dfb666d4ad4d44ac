----------------------------- MODULE Discovery -----------------------------
(***************************************************************************)
(* Peer discovery between nodes: the gossip and health loops of            *)
(* GossipDiscovery (distributed/discovery/gossip-discovery.ts) over the    *)
(* tables of module PeerTable, and what main.ts adds to them: the subnet   *)
(* sweep, the goodbye of a node that stops, the peers Android announces.   *)
(*                                                                         *)
(* Processes live at endpoints.  They start, crash, leave (SIGTERM) and    *)
(* restart, perhaps elsewhere and always with an empty table (nothing is   *)
(* persisted), and Android may suspend and resume them.                    *)
(*                                                                         *)
(* Time is counted in ticks of 30 s.  In every tick the gossip timer of an *)
(* awake node fires once and its health timer HealthPerTick times, in any  *)
(* order; the requests they make end within the tick (their timeouts are   *)
(* 8 s and 5 s), so a tick begins with no request under way.               *)
(***************************************************************************)
EXTENDS PeerTable

CONSTANTS Homes,          \* [Node -> SUBSET Addr]: where a node may start
          Subnet,         \* [Node -> SUBSET Addr]: what its sweep probes
          Announced,      \* [Node -> SUBSET Addr]: peers Android may announce
          P2P,            \* the endpoints of the WiFi Direct subnet
          HealthPerTick,  \* health rounds per tick (30 s / 15 s)
          SweepTTL,       \* SWEEP_TTL, in ticks
          LongTTL,        \* the 24 h given to an announced address, in ticks
          Lossy,          \* requests to a running node may fail
          MayCrash, MayLeave, MayFreeze,   \* which nodes may do so
          Off             \* the whereabouts of a node that is not running

ASSUME DiscoveryAssumption ==
    /\ Homes \in [Node -> SUBSET Addr]
    /\ Subnet \in [Node -> SUBSET Addr]
    /\ Announced \in [Node -> SUBSET Addr]
    /\ HealthPerTick \in Nat \ {0}
    /\ SweepTTL \in Nat /\ LongTTL \in Nat /\ SweepTTL <= LongTTL
    /\ Lossy \in BOOLEAN
    /\ Off \notin Addr

VARIABLES at,          \* the endpoint a node runs at, or Off
          frozen,      \* suspended by Android
          table,       \* _peers
          call,        \* the handshake under way (_gossipRound), or Absent
          probes,      \* peers that running health rounds still have to probe
          leaving,     \* endpoints still to be told goodbye; Absent: not leaving
          gossipLeft,  \* timer firings left in this tick
          healthLeft,
          swept,       \* sweptPeers: ticks until an address is looked at again
          gone         \* history: ticks since a node was last awake

local  == <<table, probes, swept>>
timers == <<gossipLeft, healthLeft>>
world  == <<at, frozen, gone>>
vars   == <<at, frozen, table, call, probes, leaving, gossipLeft, healthLeft, swept, gone>>

Awake(n) == at[n] # Off /\ ~frozen[n]

\* The awake node that answers at an endpoint, if there is one.
Answers(m, a) == at[m] = a /\ ~frozen[m]
Silent(a)     == \A m \in Node : ~Answers(m, a)
MayFail(a)    == Lossy \/ Silent(a)

Probed  == [id : Node, addr : Addr, rep : 0..RepMax, round : 1..HealthPerTick]
Heard   == [Node -> [addr : Addr, age : 0..DeadAge] \cup {Absent}]
Call    == [peer : Node, addr : Addr, from : Addr, reply : Heard \cup {Absent}]

Init ==
    /\ at = [n \in Node |-> Off]
    /\ frozen = [n \in Node |-> FALSE]
    /\ table = [n \in Node |-> NoPeers]
    /\ call = [n \in Node |-> Absent]
    /\ probes = [n \in Node |-> {}]
    /\ leaving = [n \in Node |-> Absent]
    /\ gossipLeft = [n \in Node |-> 0]
    /\ healthLeft = [n \in Node |-> 0]
    /\ swept = [n \in Node |-> [a \in Addr |-> 0]]
    /\ gone = [n \in Node |-> DeadAge]

----------------------------------------------------------------------------
(* The life of a process *)

\* bootstrap(), start(): an empty table and timers that fire from the next tick.  _bootstrapFromSeeds
\* adds nobody: it passes a SeedNode object where a URL is expected, so every
\* request to a seed fails.
Start(n, a) ==
    /\ at[n] = Off /\ call[n] = Absent
    /\ a \in Homes[n] /\ \A m \in Node : at[m] # a
    /\ at' = [at EXCEPT ![n] = a]
    /\ gone' = [gone EXCEPT ![n] = 0]
    /\ UNCHANGED <<frozen, timers, local, call, leaving>>

\* The process ends.  A request it has sent and nobody has answered is still
\* on its way (Handled), unless it is given up (HandshakeFails).
Down(n) ==
    /\ at' = [at EXCEPT ![n] = Off]
    /\ frozen' = [frozen EXCEPT ![n] = FALSE]
    /\ table' = [table EXCEPT ![n] = NoPeers]
    /\ call' = IF call[n] # Absent /\ call[n].reply = Absent THEN call
               ELSE [call EXCEPT ![n] = Absent]
    /\ probes' = [probes EXCEPT ![n] = {}]
    /\ leaving' = [leaving EXCEPT ![n] = Absent]
    /\ gossipLeft' = [gossipLeft EXCEPT ![n] = 0]
    /\ healthLeft' = [healthLeft EXCEPT ![n] = 0]
    /\ swept' = [swept EXCEPT ![n] = [a \in Addr |-> 0]]
    /\ UNCHANGED gone

Crash(n) == n \in MayCrash /\ at[n] # Off /\ Down(n)

\* SIGTERM: broadcastGoodbye() tells every peer that counts as alive.  The
\* gossip and health timers run on until all have been told.
BeginLeave(n) ==
    /\ n \in MayLeave /\ Awake(n) /\ leaving[n] = Absent
    /\ leaving' = [leaving EXCEPT ![n] = {table[n][p].addr : p \in AliveIn(table[n])}]
    /\ UNCHANGED <<world, local, timers, call>>

\* /gossip/goodbye at node m: the sweep may look at the address again, and the
\* peer is removed from the table.
HandleGoodbye(m, n) ==
    /\ swept' = IF n \in AliveIn(table[m])
                THEN [swept EXCEPT ![m][table[m][n].addr] = 0] ELSE swept
    /\ table' = [table EXCEPT ![m] = Remove(@, n)]

Goodbye(n, a) ==
    /\ Awake(n) /\ leaving[n] # Absent /\ a \in leaving[n]
    /\ leaving' = [leaving EXCEPT ![n] = @ \ {a}]
    /\ \/ \E m \in Node : Answers(m, a) /\ HandleGoodbye(m, n)
       \/ MayFail(a) /\ UNCHANGED <<table, swept>>
    /\ UNCHANGED <<world, timers, call, probes>>

\* shutdown(), once every goodbye has been answered or has failed.
Stop(n) == Awake(n) /\ leaving[n] = {} /\ Down(n)

\* Android suspends the process while no request of its own is open (the
\* suspension of an open request ends in its timeout).
Freeze(n) ==
    /\ n \in MayFreeze /\ Awake(n)
    /\ call[n] = Absent /\ probes[n] = {} /\ leaving[n] = Absent
    /\ frozen' = [frozen EXCEPT ![n] = TRUE]
    /\ gossipLeft' = [gossipLeft EXCEPT ![n] = 0]
    /\ healthLeft' = [healthLeft EXCEPT ![n] = 0]
    /\ UNCHANGED <<at, gone, local, call, leaving>>

Thaw(n) ==
    /\ frozen[n]
    /\ frozen' = [frozen EXCEPT ![n] = FALSE]
    /\ gone' = [gone EXCEPT ![n] = 0]
    /\ UNCHANGED <<at, timers, local, call, leaving>>

----------------------------------------------------------------------------
(* _gossipRound *)

\* The gossip timer: a random peer that counts as alive is asked, if any.
GossipWith(n, p) ==
    /\ Awake(n) /\ gossipLeft[n] > 0 /\ call[n] = Absent
    /\ p \in AliveIn(table[n])
    /\ gossipLeft' = [gossipLeft EXCEPT ![n] = @ - 1]
    /\ call' = [call EXCEPT ![n] =
            [peer |-> p, addr |-> table[n][p].addr, from |-> at[n], reply |-> Absent]]
    /\ UNCHANGED <<world, local, healthLeft, leaving>>

NobodyToAsk(n) ==
    /\ Awake(n) /\ gossipLeft[n] > 0 /\ AliveIn(table[n]) = {}
    /\ gossipLeft' = [gossipLeft EXCEPT ![n] = @ - 1]
    /\ UNCHANGED <<world, local, healthLeft, call, leaving>>

GossipRound(n) == NobodyToAsk(n) \/ \E p \in Node : GossipWith(n, p)

\* handleHandshake's answer: what m knows of peers that count as alive, except
\* of the caller and of itself.
Sightings(T, self, caller) ==
    [p \in Node |-> IF p \in AliveIn(T) \ {self, caller}
                    THEN [addr |-> T[p].addr, age |-> T[p].age] ELSE Absent]

\* handleHandshake() at m: record the caller as seen now, then answer.
HandshakeTable(T, m, n, from) == IF n = m THEN T ELSE Upsert(T, n, from, 0, Absent)

Handled(n, m) ==
    /\ call[n] # Absent /\ call[n].reply = Absent
    /\ Answers(m, call[n].addr)
    /\ LET T == HandshakeTable(table[m], m, n, call[n].from)
       IN  /\ table' = [table EXCEPT ![m] = T]
           /\ call' = [call EXCEPT ![n] =
                IF at[n] = Off THEN Absent ELSE [@ EXCEPT !.reply = Sightings(T, m, n)]]
    /\ UNCHANGED <<world, timers, probes, leaving, swept>>

\* Mutant: a request that failed counts as an answer.
HandshakeFailsSeen(n) ==
    /\ call[n] # Absent /\ call[n].reply = Absent
    /\ MayFail(call[n].addr) \/ at[n] = Off
    /\ table' = [table EXCEPT ![n] = MarkSeen(@, call[n].peer)]
    /\ call' = [call EXCEPT ![n] = Absent]
    /\ UNCHANGED <<world, probes, swept, timers, leaving>>

\* _doHandshake returns null on any error: the round ends, and markDead is
\* not reached.
HandshakeFails(n) ==
    /\ call[n] # Absent /\ call[n].reply = Absent
    /\ MayFail(call[n].addr) \/ at[n] = Off
    /\ call' = [call EXCEPT ![n] = Absent]
    /\ UNCHANGED <<world, local, timers, leaving>>

\* Mutant: hearsay is ignored.
LearnedNothing(T, self, c) == MarkSeen(T, c.peer)

\* The answer is back: the peer that was asked counts as seen, whoever has
\* answered, and what it knows is merged as hearsay.
Learned(T, self, c) == Merge(MarkSeen(T, c.peer), self, c.reply, RepHearsay)

HandshakeDone(n) ==
    /\ Awake(n) /\ call[n] # Absent /\ call[n].reply # Absent
    /\ table' = [table EXCEPT ![n] = Learned(@, n, call[n])]
    /\ call' = [call EXCEPT ![n] = Absent]
    /\ UNCHANGED <<world, timers, probes, leaving, swept>>

----------------------------------------------------------------------------
(* _checkPeerHealth *)

\* A round takes a snapshot of the live peers, and skips those seen within the
\* last tick.  Rounds overlap: each has its own snapshot.
HealthRound(n) ==
    /\ Awake(n) /\ healthLeft[n] > 0
    /\ probes' = [probes EXCEPT ![n] = @ \cup
            {[id |-> p, addr |-> table[n][p].addr, rep |-> table[n][p].rep,
              round |-> healthLeft[n]] : p \in {q \in AliveIn(table[n]) : table[n][q].age > 0}}]
    /\ healthLeft' = [healthLeft EXCEPT ![n] = @ - 1]
    /\ UNCHANGED <<world, table, call, leaving, gossipLeft, swept>>

\* Mutant: the reputation is lowered for ever and the record never dropped.
AfterProbeKept(T, e, who) ==
    IF who = {} THEN MarkDead(T, e.id)
    ELSE IF e.id \in who THEN MarkSeen(T, e.id) ELSE Remove(T, e.id)

\* What the answer of a probe does to the table: `who` answers, or nobody.
\* The reputation that decides is the snapshot's.
AfterProbe(T, e, who) ==
    IF who = {} THEN IF e.rep = 0 THEN Remove(T, e.id) ELSE MarkDead(T, e.id)
    ELSE IF e.id \in who THEN MarkSeen(T, e.id) ELSE Remove(T, e.id)

Probe(n, e) ==
    /\ Awake(n) /\ e \in probes[n]
    /\ probes' = [probes EXCEPT ![n] = @ \ {e}]
    /\ \/ \E m \in Node : Answers(m, e.addr)
                          /\ table' = [table EXCEPT ![n] = AfterProbe(@, e, {m})]
       \/ MayFail(e.addr) /\ table' = [table EXCEPT ![n] = AfterProbe(@, e, {})]
    /\ UNCHANGED <<world, timers, call, leaving, swept>>

----------------------------------------------------------------------------
(* main.ts: the sweep and Android's announcements *)

\* addPeer(): not when another identity is listed at that endpoint.
Added(T, p, a) ==
    IF \E q \in Listed(T) \ {p} : T[q].addr = a THEN T ELSE Upsert(T, p, a, 0, Absent)

\* probeHost(): m answers at a, was not looked at lately and is not listed,
\* dead or alive.
Sweep(n, m, a) ==
    /\ Awake(n) /\ a \in Subnet[n] /\ m # n /\ Answers(m, a)
    /\ swept[n][a] = 0 /\ table[n][m] = Absent
    /\ swept' = [swept EXCEPT ![n][a] = SweepTTL]
    /\ table' = [table EXCEPT ![n] = Added(@, m, a)]
    /\ UNCHANGED <<world, timers, call, probes, leaving>>

\* Mutant: an announcement of the node's own address is taken for a peer.
AddPeerSelf(n, a) ==
    /\ Awake(n) /\ a \in Announced[n]
    /\ swept' = [swept EXCEPT ![n][a] = LongTTL]
    /\ \/ \E m \in Node : Answers(m, a) /\ table' = [table EXCEPT ![n] = Added(@, m, a)]
       \/ MayFail(a) /\ UNCHANGED table
    /\ UNCHANGED <<world, timers, call, probes, leaving>>

\* /admin/add-peer: Android reports an address; the sweep leaves it alone for
\* a day, whether or not a node answers there.
AddPeer(n, a) ==
    /\ Awake(n) /\ a \in Announced[n]
    /\ swept' = [swept EXCEPT ![n][a] = LongTTL]
    /\ \/ \E m \in Node : Answers(m, a) /\ table' =
            IF m = n THEN table ELSE [table EXCEPT ![n] = Added(@, m, a)]
       \/ MayFail(a) /\ UNCHANGED table
    /\ UNCHANGED <<world, timers, call, probes, leaving>>

\* /admin/p2p-lost: WiFi Direct is gone, and with it every live peer there.
P2pLost(n) ==
    /\ Awake(n)
    /\ table' = [table EXCEPT ![n] = [p \in Node |->
            IF p \in AliveIn(@) /\ @[p].addr \in P2P THEN Absent ELSE @[p]]]
    /\ UNCHANGED <<world, timers, call, probes, leaving, swept>>

----------------------------------------------------------------------------
\* 30 s pass.  Everything of the last tick has been done, and no process needs
\* more than a tick to leave.
Quiet(n) ==
    /\ call[n] = Absent /\ probes[n] = {} /\ leaving[n] = Absent
    /\ gossipLeft[n] = 0 /\ healthLeft[n] = 0

Tick ==
    /\ \A n \in Node : Quiet(n)
    /\ table' = [n \in Node |-> Aged(table[n])]
    /\ swept' = [n \in Node |-> [a \in Addr |-> IF swept[n][a] = 0 THEN 0 ELSE swept[n][a] - 1]]
    /\ gone' = [n \in Node |-> IF Awake(n) THEN 0 ELSE Older(gone[n])]
    /\ gossipLeft' = [n \in Node |-> IF Awake(n) THEN 1 ELSE 0]
    /\ healthLeft' = [n \in Node |-> IF Awake(n) THEN HealthPerTick ELSE 0]
    /\ UNCHANGED <<at, frozen, call, probes, leaving>>

\* What a node does by itself: its timers fire, and its requests end, by an
\* answer or by their timeout.
Works(n) ==
    \/ GossipRound(n) \/ HealthRound(n) \/ HandshakeFails(n) \/ HandshakeDone(n) \/ Stop(n)
    \/ \E m \in Node : Handled(n, m)
    \/ \E e \in probes[n] : Probe(n, e)
    \/ \E a \in Addr : Goodbye(n, a)

Next ==
    \/ Tick
    \/ \E n \in Node :
        \/ Works(n)
        \/ \E a \in Addr : Start(n, a) \/ AddPeer(n, a)
        \/ Crash(n) \/ BeginLeave(n) \/ Freeze(n) \/ Thaw(n) \/ P2pLost(n)
        \/ \E m \in Node, a \in Addr : Sweep(n, m, a)

Spec == Init /\ [][Next]_vars

\* Time passes and every awake node works; the sweep, every 45 s, reaches a node
\* that stays; the random choice of the gossip round neglects no peer for ever.
Fairness ==
    /\ WF_vars(Tick)
    /\ \A n \in Node :
        /\ WF_vars(Works(n))
        /\ WF_vars(\E m \in Node, a \in Addr : Sweep(n, m, a))
        /\ \A p \in Node \ {n} : SF_vars(GossipWith(n, p))

FairSpec == Spec /\ Fairness

----------------------------------------------------------------------------
(* Properties *)

\* Every variable keeps its type.
TypeOK ==
    /\ at \in [Node -> Addr \cup {Off}]
    /\ frozen \in [Node -> BOOLEAN]
    /\ table \in [Node -> Table]
    /\ call \in [Node -> Call \cup {Absent}]
    /\ probes \in [Node -> SUBSET Probed]
    /\ leaving \in [Node -> (SUBSET Addr) \cup {Absent}]
    /\ gossipLeft \in [Node -> 0..1]
    /\ healthLeft \in [Node -> 0..HealthPerTick]
    /\ swept \in [Node -> [Addr -> 0..LongTTL]]
    /\ gone \in [Node -> 0..DeadAge]

\* No node lists itself: not from a sweep of its own subnet, not from an
\* announcement and not from what its peers tell it about it (the "kendini
\* ekleme" checks of merge, addPeer and handleHandshake).
NeverSelf == \A n \in Node : table[n][n] = Absent

\* lastSeen is never later than the last moment the peer was awake, through
\* any chain of hearsay, replies in flight, probes, restarts and suspensions:
\* a node that is gone cannot be kept alive by the others talking about it.
NoFalseSighting ==
    \A n, p \in Node : table[n][p] # Absent => table[n][p].age >= gone[p]

\* A node that is gone for good stops counting as alive everywhere.
DeadForgotten ==
    \A p \in Node : <>[](~Awake(p)) => <>[](\A n \in Node : p \notin AliveIn(table[n]))

\* Once every node stays awake, each ends up counting every other as alive,
\* whatever happened before ("5 dk sonra yeniden duyur - resurrection kapisi").
Reunited ==
    <>[](\A n \in Node : Awake(n)) =>
        \A n, p \in Node : n # p => []<>(p \in AliveIn(table[n]))

=============================================================================
