------------------------------- MODULE MCNode -------------------------------
(***************************************************************************)
(* Instances for TLC of the components of a node whose calls wait for one  *)
(* another, for the network or for foreign code: gossip and store, health  *)
(* of the peers, plugins, database.  A behaviour runs one of them.         *)
(***************************************************************************)
EXTENDS Naturals, Sequences, TLC, TLAPS

CONSTANTS n1, n2, n3,       \* nodes
          none,
          a, b, c, d,       \* plugins
          c1, c2,           \* callers
          t1, r1, r2        \* database calls

VARIABLES scene,
          clock, store, log, seen, inbox, net, pub, published, snap, got, taken,
          evicted, recovered,
          sClock, sStore, sLog, sSeen, sInbox, sNet, sPub, sPublished, sSnap, sGot,
          sTaken, sEvicted, sRecovered,
          running, registered, peers, pings, health, sent, changes,
          status, graph, memory, inits, stops, calls, overlapped,
          state, gen, errors, old, visited, waitsFor, invokes, swap, quiet, moves,
          rows, call, ran, faults

syncVars == <<clock, store, log, seen, inbox, net, pub, published, snap, got, taken,
              evicted, recovered>>
stormVars == <<sClock, sStore, sLog, sSeen, sInbox, sNet, sPub, sPublished, sSnap, sGot,
               sTaken, sEvicted, sRecovered>>
healthVars == <<running, registered, peers, pings, health, sent, changes>>
registryVars == <<status, graph, memory, inits, stops, calls, overlapped>>
runtimeVars == <<state, gen, errors, old, visited, waitsFor, invokes, swap, quiet, moves>>
dbVars == <<rows, call, ran, faults>>

nodeVars == <<scene, syncVars, stormVars, healthVars, registryVars, runtimeVars, dbVars>>

-----------------------------------------------------------------------------
(* The constants of the components but NodeSync.                           *)

\* One transaction and two runners of two migrations share two connections.
Tx == {t1}
Runner == {r1, r2}
Migration == <<"m1", "m2">>
Memory == FALSE
MaxConns == 2
MaxFaults == 2

\* b depends on a and throws; c asks for an isolation it cannot have, d for another
\* version of a than there is.
Release(x, y, z) == [at |-> <<x, y, z>>, pre |-> FALSE]
From(op, x, y, z) == [op |-> op, at |-> <<x, y, z>>, pre |-> FALSE]
Declares(deps, isolation) ==
    [version |-> Release(1, 2, 1), dependencies |-> deps, platform |-> From(">=", 0, 9, 0),
     points |-> {"search"}, provides |-> {"search"}, permissions |-> {"write:search_score"},
     isolation |-> isolation]
Plugin == {a, b, c, d}
Manifest ==
    a :> Declares(<<>>, "none") @@ b :> Declares(a :> From("^", 1, 1, 2), "process")
    @@ c :> Declares(<<>>, "vm") @@ d :> Declares(a :> From("~", 1, 1, 2), "none")
Platform == Release(1, 0, 0)
Adapter == "process"
Faulty == {b}
MaxPlugins == 3
MaxCalls == 3

\* b depends on a and hangs; one error opens the breaker.
Loaded == {a, b}
Deps == [p \in Loaded |-> IF p = b THEN {a} ELSE {}]
Threshold == 1
Caller == {c1, c2}
Hangs == {b}
MaxInvokes == 2
MaxGen == 1
MaxMoves == 3
Nobody == none

\* The peer n2 sends pings with the checksum of their payload, n1 does not.
Peer == {n1, n2}
Foreign == {n2}
BanAt == 2
MaxMissed == 2
MaxPings == 2
MaxChanges == 4
NoPeer == none

-----------------------------------------------------------------------------
\* n1 and n2 publish and know n3 only, which takes snapshots and recovers.  Under the
\* names Db, Registry, Runtime and Health, the other components.
Host == INSTANCE NodeProofs WITH
    Node <- {n1, n2, n3}, Peers <- [n \in {n1, n2, n3} |-> IF n = n3 THEN {n1, n2} ELSE {n3}],
    Rank <- [n \in {n1, n2, n3} |-> IF n = n1 THEN 1 ELSE IF n = n2 THEN 2 ELSE 3],
    Publisher <- {n1, n2}, MaxPublish <- 1,
    Keeper <- {n3}, Fanout <- 2, DefaultTTL <- 2, SeenCacheSize <- 2,
    Duplicates <- FALSE, Drops <- FALSE, Wired <- TRUE, None <- none

\* Two messages of n1 in a full mesh, each of which may come twice or be lost,
\* for nodes that remember one message and whose store has no resolver.
Storm == INSTANCE NodeProofs WITH
    Node <- {n1, n2, n3}, Peers <- [n \in {n1, n2, n3} |-> {n1, n2, n3} \ {n}],
    Rank <- [n \in {n1, n2, n3} |-> IF n = n1 THEN 1 ELSE IF n = n2 THEN 2 ELSE 3],
    Publisher <- {n1}, MaxPublish <- 2,
    Keeper <- {}, Fanout <- 1, DefaultTTL <- 3, SeenCacheSize <- 1,
    Duplicates <- TRUE, Drops <- TRUE, Wired <- FALSE, None <- none,
    clock <- sClock, store <- sStore, log <- sLog, seen <- sSeen, inbox <- sInbox,
    net <- sNet, pub <- sPub, published <- sPublished, snap <- sSnap, got <- sGot,
    taken <- sTaken, evicted <- sEvicted, recovered <- sRecovered

\* The calls to the database on an InMemoryPool.
MemoryDb == INSTANCE Database WITH Memory <- TRUE

\* The names are different, and what stands for undefined is no entry, record or peer.
ASSUME NodeAssumption ==
    /\ t1 \notin {r1, r2}
    /\ none \notin [c : Nat, v : Nat, id : {n1, n2, n3} \X (1 .. 2)]
    /\ none \notin {a, b} \X {1}
    /\ none \notin Host!Health!PeerState

NodeInit ==
    /\ scene \in {"sync", "storm", "health", "registry", "runtime", "database"}
    /\ Host!Init /\ Storm!Init /\ Host!Health!Init /\ Host!Registry!Init /\ Host!Runtime!Init /\ Host!Db!Init

Only(s) ==
    /\ scene = s /\ scene' = s
    /\ s # "sync" => UNCHANGED syncVars
    /\ s # "storm" => UNCHANGED stormVars
    /\ s # "health" => UNCHANGED healthVars
    /\ s # "registry" => UNCHANGED registryVars
    /\ s # "runtime" => UNCHANGED runtimeVars
    /\ s # "database" => UNCHANGED dbVars

NodeNext ==
    \/ Only("sync") /\ Host!Next
    \/ Only("storm") /\ Storm!Next
    \/ Only("health") /\ Host!Health!Next
    \/ Only("registry") /\ Host!Registry!Next
    \/ Only("runtime") /\ Host!Runtime!Next
    \/ Only("database") /\ Host!Db!Next

\* The transport delivers what it does not lose, no await is for ever, timers
\* fire.
Fairness ==
    /\ WF_syncVars(scene = "sync" /\ \E n \in {n1, n2, n3} : Host!Put(n) \/ Host!Spread(n))
    /\ WF_syncVars(scene = "sync" /\ \E m \in net : Host!Receive(m))
    /\ WF_syncVars(scene = "sync" /\ \E n \in {n1, n2, n3} : \E m \in inbox[n] : Host!Handle(m))
    /\ WF_stormVars(scene = "storm" /\ \E m \in sNet : Storm!Receive(m))
    /\ WF_healthVars(scene = "health" /\ Host!Health!CheckHealth)
    /\ WF_registryVars(scene = "registry" /\
           \E p \in {a, b, c, d} : Host!Registry!InitSettles(p) \/ Host!Registry!ShutdownSettles(p))
    /\ WF_runtimeVars(scene = "runtime" /\ \E i \in {c1, c2} : Host!Runtime!Fails(i))
    /\ WF_dbVars(scene = "database" /\ \E i \in {t1, r1, r2} : Host!Db!Step(i))

NodeSpec == NodeInit /\ [][NodeNext]_nodeVars /\ Fairness

\* The database alone, in memory.
MemorySpec ==
    /\ NodeInit /\ scene = "database"
    /\ [][Only("database") /\ MemoryDb!Next]_nodeVars

-----------------------------------------------------------------------------
\* GossipEngine, SyncStore, PeerManager: a node that only listens holds the best
\* of what it was sent, in whatever order, and whatever snapshot it recovered
\* from; it takes no message for new twice unless its cache forgot it; its clock
\* is past what it holds.  A ban lasts until the peer is removed, whatever
\* heartbeats or additions follow; a stopped node hears no more heartbeats.
GossipSound ==
    /\ [](/\ Host!TypeOK /\ Storm!TypeOK /\ Host!Health!TypeOK
          /\ Host!MergeOrderIrrelevant /\ Host!HandledOnce /\ Storm!HandledOnce
          /\ Host!ClockPastStore /\ Storm!ClockPastStore)
    /\ Host!Health!BanLasts /\ Host!Health!StoppedIsQuiet

\* PluginRegistry, PluginRuntime, TransactionManager, MigrationRunner: calls that
\* overlap, hang or fail leave no plugin without what it depends on, none in a
\* weaker isolation than it asked for, no more errors on a record than the
\* breaker allows and a gap in a hot swap to nobody; no connection is kept by a
\* call that is over, a transaction leaves all of its rows or none, and the
\* history of migrations is that of the tables, each run by one runner.
CallsSound ==
    /\ scene = "registry" =>
        /\ Host!Registry!TypeOK /\ Host!Registry!GraphSound /\ Host!Registry!NeverWeaker
        /\ Host!Registry!StatusTrue /\ Host!Registry!RangesOrdered
    /\ scene = "runtime" =>
        /\ Host!Runtime!TypeOK /\ Host!Runtime!DepsThere /\ Host!Runtime!BreakerBounds
        /\ Host!Runtime!SwapLeavesNoGap
    /\ scene = "database" =>
        /\ Host!Db!TypeOK /\ Host!Db!ConnectionsComeBack
        /\ Host!Db!MigratedAsRecorded /\ Host!Db!AllOrNothing /\ Host!Db!RanOnce

\* MigrationRunner.runAll, called again, skips the migrations that have been run.  It
\* does not hold of the InMemoryPool, where CREATE TABLE IF NOT EXISTS empties the
\* history of migrations.
RanOnce == MemoryDb!RanOnce

\* A publication reaches every node and a storm of messages dies out; a peer
\* that stays silent is reported; a plugin's init, shutdown and invocations end
\* and so does every database call.
AllSettles ==
    /\ scene = "sync" => Host!EveryoneHears
    /\ Storm!StormEnds /\ Host!Health!SilenceReported
    /\ Host!Registry!TransitionsEnd /\ Host!Runtime!InvokeEnds
    /\ scene = "database" => Host!Db!CallsEnd

-----------------------------------------------------------------------------
(* What NodeProofs shows of each component for any constants, of this node. *)

LEMMA SyncAssumed == Host!SyncAssumption /\ Storm!SyncAssumption
<1> DEFINE N == {n1, n2, n3}
<1>1. /\ [n \in N |-> IF n = n3 THEN {n1, n2} ELSE {n3}] \in [N -> SUBSET N]
      /\ [n \in N |-> N \ {n}] \in [N -> SUBSET N]
      /\ [n \in N |-> IF n = n1 THEN 1 ELSE IF n = n2 THEN 2 ELSE 3] \in [N -> Nat]
    OBVIOUS
<1>2. none \notin [c : Nat, v : Nat, id : N \X (1 .. 2)]
    BY NodeAssumption
<1>3. none \notin [c : Nat, v : Nat, id : N \X (1 .. 1)]
  <2>1. [c : Nat, v : Nat, id : N \X (1 .. 1)] \subseteq [c : Nat, v : Nat, id : N \X (1 .. 2)]
      OBVIOUS
  <2>. QED BY <1>2, <2>1
<1>4. Host!Id = N \X (1 .. 1) /\ Storm!Id = N \X (1 .. 2)
    BY DEF Host!Id, Storm!Id
<1>. QED BY <1>1, <1>2, <1>3, <1>4 DEF Host!SyncAssumption, Storm!SyncAssumption

LEMMA HealthAssumed == Host!HealthAssumption
BY NodeAssumption DEF Host!HealthAssumption, BanAt, MaxMissed, NoPeer

LEMMA RegistryAssumed == Host!RegistryAssumption
BY DEF Host!RegistryAssumption, MaxCalls

LEMMA RuntimeAssumed == Host!RuntimeAssumption
<1> DEFINE q == <<c1, c2>>
<1>1. q \in Seq({c1, c2}) /\ Len(q) = 2 /\ q[1] = c1 /\ q[2] = c2
    OBVIOUS
<1>. HIDE DEF q
<1>2. Host!IsFiniteSet(Caller)
    BY <1>1 DEF Host!IsFiniteSet, Caller
<1>3. Deps \in [Loaded -> SUBSET Loaded]
    BY DEF Deps, Loaded
<1>4. Nobody \notin Loaded \X Host!Runtime!Gen
    BY NodeAssumption DEF Nobody, Loaded, Host!Runtime!Gen, MaxGen
<1>. QED BY <1>2, <1>3, <1>4 DEF Host!RuntimeAssumption, Threshold, MaxGen

LEMMA DbAssumed == Host!DbAssumption
<1> DEFINE q == <<t1, r1, r2>>
<1>1. q \in Seq({t1, r1, r2}) /\ Len(q) = 3 /\ q[1] = t1 /\ q[2] = r1 /\ q[3] = r2
    OBVIOUS
<1>. HIDE DEF q
<1>2. Tx \cup Runner = {t1, r1, r2} /\ Tx \cap Runner = {}
    BY NodeAssumption DEF Tx, Runner
<1>3. Host!IsFiniteSet(Tx \cup Runner)
    BY <1>1, <1>2 DEF Host!IsFiniteSet
<1>4. Migration \in Seq({"m1", "m2"})
    BY DEF Migration
<1>5. Host!Db!IsInjective(Migration)
  <2>1. DOMAIN Migration = {1, 2} /\ Migration[1] = "m1" /\ Migration[2] = "m2"
      BY DEF Migration
  <2>. QED BY <2>1 DEF Host!Db!IsInjective
<1>. QED BY <1>2, <1>3, <1>4, <1>5 DEF Host!DbAssumption, Memory, MaxConns

LEMMA SyncRuns == NodeSpec => Host!Spec /\ Storm!Spec
<1>1. NodeInit => Host!Init /\ Storm!Init
    BY DEF NodeInit
<1>2. [NodeNext]_nodeVars => [Host!Next]_Host!vars /\ [Storm!Next]_Storm!vars
    BY DEF NodeNext, Only, nodeVars, syncVars, stormVars, Host!vars, Storm!vars
<1>. QED BY <1>1, <1>2, PTL DEF NodeSpec, Host!Spec, Storm!Spec

LEMMA HealthRuns == NodeSpec => Host!Health!Spec
<1>1. NodeInit => Host!Health!Init
    BY DEF NodeInit
<1>2. [NodeNext]_nodeVars => [Host!Health!Next]_Host!Health!vars
    BY DEF NodeNext, Only, nodeVars, healthVars, Host!Health!vars
<1>. QED BY <1>1, <1>2, PTL DEF NodeSpec, Host!Health!Spec

LEMMA RegistryRuns == NodeSpec => Host!Registry!Spec
<1>1. NodeInit => Host!Registry!Init
    BY DEF NodeInit
<1>2. [NodeNext]_nodeVars => [Host!Registry!Next]_Host!Registry!vars
    BY DEF NodeNext, Only, nodeVars, registryVars, Host!Registry!vars
<1>. QED BY <1>1, <1>2, PTL DEF NodeSpec, Host!Registry!Spec

LEMMA RuntimeRuns == NodeSpec => Host!Runtime!Spec
<1>1. NodeInit => Host!Runtime!Init
    BY DEF NodeInit
<1>2. [NodeNext]_nodeVars => [Host!Runtime!Next]_Host!Runtime!vars
    BY DEF NodeNext, Only, nodeVars, runtimeVars, Host!Runtime!vars
<1>. QED BY <1>1, <1>2, PTL DEF NodeSpec, Host!Runtime!Spec

LEMMA DbRuns == NodeSpec => Host!Db!Spec
<1>1. NodeInit => Host!Db!Init
    BY DEF NodeInit
<1>2. [NodeNext]_nodeVars => [Host!Db!Next]_Host!Db!vars
    BY DEF NodeNext, Only, nodeVars, dbVars, Host!Db!vars
<1>. QED BY <1>1, <1>2, PTL DEF NodeSpec, Host!Db!Spec

\* Gossip and health of this node: what a listener holds is the best it was sent, no
\* message is new twice to who remembers it, bans last and a stopped node is quiet.
THEOREM GossipInOrder == NodeSpec => GossipSound
<1>1. Host!Spec =>
        [](Host!TypeOK /\ Host!MergeOrderIrrelevant /\ Host!HandledOnce /\ Host!ClockPastStore)
    BY SyncAssumed, Host!GossipConverges
<1>2. Storm!Spec =>
        [](Storm!TypeOK /\ Storm!MergeOrderIrrelevant /\ Storm!HandledOnce /\ Storm!ClockPastStore)
    BY SyncAssumed, Storm!GossipConverges
<1>3. Host!Health!Spec => /\ []Host!Health!TypeOK
                          /\ Host!Health!BanLasts /\ Host!Health!StoppedIsQuiet
    BY HealthAssumed, Host!BansLast
<1>. QED BY <1>1, <1>2, <1>3, SyncRuns, HealthRuns, PTL DEF GossipSound

\* Plugins and database of this node: calls that overlap, hang or fail break no
\* dependency, isolation or breaker, keep no connection and leave no half transaction.
THEOREM CallsInOrder == NodeSpec => []CallsSound
<1>1. Host!Registry!Spec =>
        [](/\ Host!Registry!TypeOK /\ Host!Registry!GraphSound
           /\ Host!Registry!NeverWeaker /\ Host!Registry!StatusTrue
           /\ Host!Registry!RangesOrdered)
    BY RegistryAssumed, Host!RegistryStaysSound
<1>2. Host!Runtime!Spec =>
        [](/\ Host!Runtime!TypeOK /\ Host!Runtime!DepsThere
           /\ Host!Runtime!BreakerBounds /\ Host!Runtime!SwapLeavesNoGap)
    BY RuntimeAssumed, Host!RuntimeStaysSound
<1>3. Host!Db!Spec =>
        [](/\ Host!Db!TypeOK /\ Host!Db!ConnectionsComeBack /\ Host!Db!MigratedAsRecorded
           /\ Host!Db!AllOrNothing /\ (~Memory => Host!Db!RanOnce))
    BY DbAssumed, Host!CallsLeaveOrder
<1>4. ~Memory
    BY DEF Memory
<1>. QED BY <1>1, <1>2, <1>3, <1>4, RegistryRuns, RuntimeRuns, DbRuns, PTL DEF CallsSound
=============================================================================
