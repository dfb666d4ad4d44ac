----------------------------- MODULE MCServices -----------------------------
(***************************************************************************)
(* Instances for TLC of the routing table, the ghost mesh, its simulator,  *)
(* of what a consensus node makes of the commands, of the Android          *)
(* application, of the review of uploads, of the HTTP interface, of the    *)
(* plugins' watchdogs and of the previews.  A behaviour runs one of them.  *)
(***************************************************************************)
EXTENDS Integers, TLC

CONSTANTS p1, p2,           \* keys, plugins
          a, b, c, self,    \* nodes
          f1, f2,           \* ghosts
          c1, c2, c3,       \* calls
          m1, m2, m3,       \* messages
          none

VARIABLES scene,
          table, call, refresh, changes,
          phase, up, online, distance, queue, flights, due, gtCall, wire, gone, stored, missed,
          crossed, starts, gtChanges, mgRecords, listed, byHost, usable, sending, mgTold,
          coord, simOnline, neighbors, empty, batman, mpr, routeTable, dsrCache, pkt, linked,
          fresh, ticks, packets,
          log, view, commitIndex, lastApplied, loop, chain, store, keys, active, running,
          pcStarts, pcOverlapped,
          lcLog, lcCommit, lcApplied, lastCompacted, cut, lcDue, manual, pushed, applied,
          stale, raced, torn,
          entries, eventLog, fjChain, lastVersion, incrementalCount, taking, takes, target,
          join, joins,
          mode, open, canStart, inbox, service, instances, launcher, asRuns, owner, stage,
          stopping, reader, process, told, printed, shellRunning, healthFails, health,
          sseGeneration, sseCall, streams, wifi, field, group, device, scanning, lastGroupIp,
          infos, notices, probes, p2pPeers, groups, taps, shellFaults, late, darkened, lapsed,
          overtaken, twoAsked, announced, unheard, overtook,
          file, rvStage, waiting, asking, found, lost, report, rules, sessions, history,
          outcome, emitted,
          server, started, cleanup, buckets, agNow, input, agStage, answer, allowance, agCalls,
          grNow, grid, records, held, contested, grCache, grOutcome, lastEvicted, ghosts,
          coords, grPackets, reported, idle, copies, status, satisfied, digesting, receipts,
          reports, grOvertaken,
          paNow, paCalls, budgets, pending, crowded, spent, events, isolated, failed,
          banned, verdict, paMode, modeHistory, paTotal, degraded, actions, paGroups,
          windows, ewma, variance, samples, baselines, paTold, whole, flipped, paRules,
          rollbacks, stable, fallbacks, done, forgotten,
          pvStore, pvNow, plugins, pvCall, hits, generated, errors

dhtVars == <<table, call, refresh, changes>>
meshVars == <<phase, up, online, distance, queue, flights, due, gtCall, wire, gone, stored,
              missed, crossed, starts, gtChanges, mgRecords, listed, byHost, usable,
              sending, mgTold>>
simVars == <<coord, simOnline, neighbors, empty, batman, mpr, routeTable, dsrCache, pkt,
             linked, fresh, ticks, packets>>
chainVars == <<log, view, commitIndex, lastApplied, loop, chain, store, keys, active,
               running, pcStarts, pcOverlapped>>
compactVars == <<lcLog, lcCommit, lcApplied, lastCompacted, cut, lcDue, manual, pushed,
                 applied, stale, raced, torn>>
joinVars == <<entries, eventLog, fjChain, lastVersion, incrementalCount, taking, takes,
              target, join, joins>>
shellVars == <<mode, open, canStart, inbox, service, instances, launcher, asRuns, owner, stage,
               stopping, reader, process, told, printed, shellRunning, healthFails, health,
               sseGeneration, sseCall, streams, wifi, field, group, device, scanning,
               lastGroupIp, infos, notices, probes, p2pPeers, groups, taps, shellFaults, late,
               darkened, lapsed, overtaken, twoAsked, announced, unheard, overtook>>
reviewVars == <<file, rvStage, waiting, asking, found, lost, report, rules, sessions,
                history, outcome, emitted>>
gatewayVars == <<server, started, cleanup, buckets, agNow, input, agStage, answer, allowance,
                 agCalls>>
routingVars == <<grNow, grid, records, held, contested, grCache, grOutcome, lastEvicted,
                 ghosts, coords, grPackets, reported, idle, copies, status, satisfied,
                 digesting, receipts, reports, grOvertaken>>
autonomyVars == <<paNow, paCalls, budgets, pending, crowded, spent, events, isolated,
                 failed, banned, verdict, paMode, modeHistory, paTotal, degraded, actions,
                 paGroups, windows, ewma, variance, samples, baselines, paTold, whole,
                 flipped, paRules, rollbacks, stable, fallbacks, done, forgotten>>
previewVars == <<pvStore, pvNow, plugins, pvCall, hits, generated, errors>>
servicesVars == <<scene, dhtVars, meshVars, simVars, chainVars, compactVars, joinVars,
                  shellVars, reviewVars,
                  gatewayVars, routingVars, autonomyVars, previewVars>>

\* Three contacts for one bucket of two, of which one is there at first; a is nearest
\* to the target, b to the node itself.
Dht == INSTANCE Kademlia WITH
    Node <- {a, b, c, self}, Self <- self, Known <- {b},
    Bucket <- (a :> 1 @@ b :> 1 @@ c :> 1),
    Distance <- (a :> 1 @@ b :> 2 @@ c :> 3 @@ self :> 9),
    ToSelf <- (a :> 3 @@ b :> 2 @@ c :> 4 @@ self :> 0),
    K <- 2, Alpha <- 2, Lookup <- {"l"}, MaxChanges <- 1

\* Three messages to two peers, one of which may be too near for a chain of ghosts.
Mesh == INSTANCE GhostTransport WITH
    Node <- {a, b}, Msg <- {m1, m2, m3}, Link <- {"lan", "ble"},
    Score <- [lan |-> 3, ble |-> 1], Estimated <- (a :> 3 @@ b :> 1), Located <- {0, 2},
    To <- (m1 :> {a} @@ m2 :> {a} @@ m3 :> {a, b}),
    MaxQueue <- 2, MaxStarts <- 1, MaxChanges <- 2, call <- gtCall, changes <- gtChanges,
    Strong <- {"S"}, Weak <- {"w"}, SelfName <- "me", Host <- {"x", "y"}, Ghost <- "0.0.0.0",
    Hint <- "hint", EndpointName <- [x |-> "at x", y |-> "at y"], Ladder <- <<"lan", "bt">>,
    OverHttp <- {"lan"}, Sender <- {}, Absent <- none,
    records <- mgRecords, told <- mgTold
\* One device's names at two addresses, and a send down a ladder of two transports.
Manager == INSTANCE GhostTransport WITH
    Node <- {a, b}, Msg <- {m1, m2, m3}, Link <- {"lan", "ble"},
    Score <- [lan |-> 3, ble |-> 1], Estimated <- (a :> 3 @@ b :> 1), Located <- {0, 2},
    To <- (m1 :> {a} @@ m2 :> {a} @@ m3 :> {a, b}),
    MaxQueue <- 2, MaxStarts <- 1, MaxChanges <- 4, call <- gtCall, changes <- gtChanges,
    Strong <- {"S"}, Weak <- {"w"}, SelfName <- "me", Host <- {"x", "y"}, Ghost <- "0.0.0.0",
    Hint <- "hint", EndpointName <- [x |-> "at x", y |-> "at y"], Ladder <- <<"lan", "bt">>,
    OverHttp <- {"lan"}, Sender <- {c1}, Absent <- none,
    records <- mgRecords, told <- mgTold

\* Five nodes on a line, each near the next; one moves and one fails.
Sim == INSTANCE MeshSimulator WITH
    Node <- 1..5, MaxCoord <- 8, At <- <<0, 2, 4, 6, 8>>, Mobile <- {4}, Flaky <- {2},
    Pair <- {<<1, 5>>, <<2, 4>>, <<3, 5>>}, MaxHops <- 4, MaxTicks <- 2, online <- simOnline,
    Wired <- TRUE
AsCommitted == INSTANCE MeshSimulator WITH
    Node <- 1..5, MaxCoord <- 8, At <- <<0, 2, 4, 6, 8>>, Mobile <- {4}, Flaky <- {2},
    Pair <- {<<1, 5>>, <<2, 4>>, <<3, 5>>}, MaxHops <- 4, MaxTicks <- 2, online <- simOnline,
    Wired <- FALSE

\* Two logs of three commands, and two loops that apply them.
PulseOf(i) == [type |-> "pulse", of |-> i]
Pulses == INSTANCE PulseChain WITH
    Node <- {self}, Leader <- {self}, None <- none, Initial <- {self},
    Logs <- {<<PulseOf(1), [type |-> "add", of |-> a], PulseOf(2)>>,
             <<PulseOf(1), PulseOf(2), [type |-> "remove", of |-> self]>>},
    Loop <- {1, 2}, MaxChain <- 2, MaxTerm <- 1, MaxStarts <- 2,
    starts <- pcStarts, overlapped <- pcOverlapped

\* Four commands, the log cut as soon as it holds two.
Compacts == INSTANCE LogCompaction WITH
    MaxCommands <- 4, TriggerSize <- 2, RetainTail <- 0, Manual <- 1,
    log <- lcLog, commitIndex <- lcCommit, lastApplied <- lcApplied, due <- lcDue

\* Two entries, three snapshots of which two overlap, and one join.
Joins == INSTANCE FastJoin WITH
    Key <- {p1, p2}, None <- none, Take <- {1, 2}, MaxPuts <- 2, MaxTakes <- 3, MaxJoins <- 1,
    FullSnapshotInterval <- 2, MaxChainLength <- 3, Chunks <- 2, Wired <- TRUE,
    chain <- fjChain

\* The phone: three taps and two nodes; one node, a failure and two event
\* streams; one node and two WiFi Direct groups of different owners.
Phone == INSTANCE AndroidShell WITH
    MaxRuns <- 2, MaxTaps <- 3, MaxFaults <- 0, MaxStreams <- 0, Modes <- {1}, Groups <- {},
    MaxGroups <- 0, None <- none, runs <- asRuns, running <- shellRunning,
    faults <- shellFaults, raced <- twoAsked
Bridge == INSTANCE AndroidShell WITH
    MaxRuns <- 1, MaxTaps <- 2, MaxFaults <- 1, MaxStreams <- 2, Modes <- {1}, Groups <- {},
    MaxGroups <- 0, None <- none, runs <- asRuns, running <- shellRunning,
    faults <- shellFaults, raced <- twoAsked
Direct == INSTANCE AndroidShell WITH
    MaxRuns <- 1, MaxTaps <- 0, MaxFaults <- 0, MaxStreams <- 0, Modes <- {1},
    Groups <- {"x", "y"}, MaxGroups <- 2, None <- none, runs <- asRuns,
    running <- shellRunning, faults <- shellFaults, raced <- twoAsked

\* Two uploads: under review with two plugins' analyzers and a rule that is added,
\* and run afterwards, the first of them with leave to use the network.
Upload(format, mime, name, size, marks) ==
    [format |-> format, mime |-> mime, name |-> name, size |-> size, marks |-> marks]
Uploads ==
    {Upload("js", "text", "a.js", "normal", [S030 |-> 1, fetch |-> 1]),
     Upload("ts", "text", "b.ts", "normal", [S011 |-> 5, S020 |-> 1, ask |-> 1]),
     Upload("json", "text", "package.json", "normal", [log4j |-> 1]),
     Upload("wasm", "wasm", "c.wasm", "normal", [process |-> 1, gzip |-> 1, S041 |-> 1]),
     Upload("txt", "text", "d.txt", "empty", <<>>),
     Upload("stl", "stl", "e.stl", "large", <<>>)}
ShellFinding(mark, upload) ==
    IF mark \in DOMAIN upload.marks
    THEN {[rule |-> mark, n |-> 1, category |-> "shell_exec", risk |-> "medium"]} ELSE {}
Reviews == INSTANCE Review WITH
    Job <- {c1, c2}, File <- Uploads, Plugin <- <<"ask", "dns">>,
    Sees <- [ask |-> [upload \in Uploads |-> ShellFinding("ask", upload)],
             dns |-> [upload \in Uploads |-> ShellFinding("S030", upload)]],
    MaxConcurrent <- 1, HistorySize <- 1, Allowed <- {}, Adapter <- "mock", Runs <- {},
    MaxAdded <- 1, None <- none, stage <- rvStage, active <- sessions
Mocked == INSTANCE Review WITH
    Job <- {c1, c2}, File <- Uploads, Plugin <- <<>>, Sees <- <<>>, MaxConcurrent <- 1,
    HistorySize <- 1, Allowed <- {c1}, Adapter <- "mock", Runs <- {c1, c2},
    MaxAdded <- 0, None <- none, stage <- rvStage, active <- sessions
Processes == INSTANCE Review WITH
    Job <- {c1, c2}, File <- Uploads, Plugin <- <<>>, Sees <- <<>>, MaxConcurrent <- 1,
    HistorySize <- 1, Allowed <- {c1}, Adapter <- "process", Runs <- {c1, c2},
    MaxAdded <- 0, None <- none, stage <- rvStage, active <- sessions

\* Two requests of a client with two tokens a minute.
Req(method, path, body, query, breaks) ==
    [method |-> method, path |-> path, forwarded |-> <<"c">>, real |-> none, body |-> body,
     query |-> query, breaks |-> breaks]
Gateway == INSTANCE ApiGateway WITH
    Request <- {c1, c2},
    Input <-
        {Req("POST", "/search", [query |-> 5, limit |-> 100,
                                 weights |-> [semantic |-> 60, recency |-> 45]], <<>>, FALSE),
         Req("POST", "/search", [query |-> 5, filter |-> [coord |-> none]], <<>>, FALSE),
         Req("POST", "/search", [query |-> 1], <<>>, FALSE),
         Req("GET", "/search/stream", none, [query |-> 3], FALSE),
         Req("GET", "/search/stream", none, [query |-> 3], TRUE),
         Req("GET", "/search/resolve", none, [query |-> 3], TRUE),
         Req("GET", "/health", none, <<>>, FALSE)},
    RequestsPerMinute <- 2, BurstLimit <- 2, Refill <- 1, BucketTtl <- 2, MaxTime <- 3,
    MaxStarts <- 2, None <- none, now <- agNow, stage <- agStage, calls <- agCalls

\* Two nodes and two reservations over two cells; routes to three nodes, of which two
\* are kept; packets of three ghosts, of which two are kept; two copies of one session.
Places == INSTANCE GhostRouting WITH
    Node <- {a, b, self}, Self <- self, SelfCoord <- 0, MaxCoord <- 1, KHop <- 1,
    Session <- {c1, c2}, GhostTtl <- 1, Chain <- {}, RouteTtl <- 1, RouteMax <- 1,
    HitWorth <- 1, Distance <- (c1 :> 1 @@ c2 :> 1), MaxTime <- 1, MaxEvents <- 0,
    GhostId <- {}, MaxGhosts <- 1, None <- none, now <- grNow, cache <- grCache,
    outcome <- grOutcome, packets <- grPackets, overtaken <- grOvertaken
Routes == INSTANCE GhostRouting WITH
    Node <- {a, b, c, self}, Self <- self, SelfCoord <- 0, MaxCoord <- 0, KHop <- 0,
    Session <- {}, GhostTtl <- 1, Chain <- {<<1>>}, RouteTtl <- 2, RouteMax <- 2,
    HitWorth <- 1, Distance <- <<>>, MaxTime <- 2, MaxEvents <- 1,
    GhostId <- {}, MaxGhosts <- 1, None <- none, now <- grNow, cache <- grCache,
    outcome <- grOutcome, packets <- grPackets, overtaken <- grOvertaken
Transfers == INSTANCE GhostRouting WITH
    Node <- {a, b, self}, Self <- self, SelfCoord <- 0, MaxCoord <- 0, KHop <- 0,
    Session <- {c1}, GhostTtl <- 1, Chain <- {}, RouteTtl <- 1,
    RouteMax <- 1, HitWorth <- 1, Distance <- (c1 :> 2), MaxTime <- 1, MaxEvents <- 2,
    GhostId <- {f1, f2, m1}, MaxGhosts <- 2, None <- none, now <- grNow, cache <- grCache,
    outcome <- grOutcome, packets <- grPackets, overtaken <- grOvertaken

\* One plugin within its budget and under watch, with rules that are added; two that
\* make each other fail, or whose rollbacks share a history.
AddedRules ==
    {[name |-> "x", layer |-> "safety", action |-> "disable", priority |-> 110],
     [name |-> "y", layer |-> "safety", action |-> "disable", priority |-> 50],
     [name |-> "z", layer |-> "optimization", action |-> "throttle", priority |-> 99]}
Watched == INSTANCE PluginAutonomy WITH
    Plugin <- {p1}, BudgetWindow <- 2, BaseQuota <- 1, MinQuota <- 1, MaxQuota <- 5,
    CascadeWindow <- 1, CascadeThreshold <- 2, IsolationWindow <- 2, ModeHistoryMax <- 2,
    ActionsMax <- 2, RollbackWindow <- 2, RollbacksMax <- 3, WindowSize <- 3,
    BurstWindow <- 2, BaselineSize <- 2, MinSamples <- 1, SamplesMax <- 3,
    Added <- AddedRules, MaxTime <- 4, MaxCalls <- 5, None <- none, now <- paNow,
    calls <- paCalls, mode <- paMode, total <- paTotal, groups <- paGroups, told <- paTold,
    rules <- paRules
Together == INSTANCE PluginAutonomy WITH
    Plugin <- {p1, p2}, BudgetWindow <- 2, BaseQuota <- 1, MinQuota <- 1, MaxQuota <- 5,
    CascadeWindow <- 1, CascadeThreshold <- 2, IsolationWindow <- 2, ModeHistoryMax <- 2,
    ActionsMax <- 2, RollbackWindow <- 2, RollbacksMax <- 3, WindowSize <- 3,
    BurstWindow <- 2, BaselineSize <- 2, MinSamples <- 1, SamplesMax <- 3,
    Added <- AddedRules, MaxTime <- 3, MaxCalls <- 3, None <- none, now <- paNow,
    calls <- paCalls, mode <- paMode, total <- paTotal, groups <- paGroups, told <- paTold,
    rules <- paRules
Reverted == INSTANCE PluginAutonomy WITH
    Plugin <- {p1, p2}, BudgetWindow <- 2, BaseQuota <- 1, MinQuota <- 1, MaxQuota <- 5,
    CascadeWindow <- 1, CascadeThreshold <- 2, IsolationWindow <- 2, ModeHistoryMax <- 2,
    ActionsMax <- 2, RollbackWindow <- 2, RollbacksMax <- 3, WindowSize <- 3,
    BurstWindow <- 2, BaselineSize <- 2, MinSamples <- 1, SamplesMax <- 3,
    Added <- AddedRules, MaxTime <- 2, MaxCalls <- 5, None <- none, now <- paNow,
    calls <- paCalls, mode <- paMode, total <- paTotal, groups <- paGroups, told <- paTold,
    rules <- paRules

\* Two contents, each under two names, asked for by two callers of a cache of one;
\* two plugins' extractors, of which one throws and one cannot say what it takes.
Document(ext, mime, size, lines) ==
    [ext |-> ext, mime |-> mime, size |-> size, text |-> 60, lines |-> lines,
     head |-> "other", facets |-> 2, tags |-> {"title"}]
Previews == INSTANCE Preview WITH
    Cid <- {"x", "y"}, Caller <- {c1, c2},
    Named <- [x |-> {Document("md", "text/plain", 300000,
                              <<"fence", "heading", "fence", "heading", "para">>),
                     Document("svg", "image/svg+xml", 300000, <<>>)},
              y |-> {Document("pdf", "application/pdf", 300, <<>>),
                     Document("stl", "model/stl", 60000000, <<>>)}],
    Plugin <- {"p", "q"}, Faulty <- {"p"}, Picky <- {"q"}, MaxEntries <- 1, HitWeight <- 1,
    Ttl <- 1, MaxFileSize <- 50000000, MaxTime <- 2,
    store <- pvStore, now <- pvNow, call <- pvCall

ServicesInit ==
    /\ scene \in {"dht", "mesh", "manager", "simulation", "simulator",
                  "pulses", "compaction", "join", "phone", "bridge", "direct",
                  "review", "mocked", "process", "gateway",
                  "places", "routes", "ghosts", "sessions",
                  "budget", "watch", "guard", "governor", "rollback",
                  "previews"}
    /\ Dht!Init
    /\ IF scene = "manager" THEN Manager!Init ELSE Mesh!Init
    /\ Sim!Init /\ (scene \notin {"simulation", "simulator"} => simOnline = 1..5)
    /\ Pulses!Init /\ (scene # "pulses" => log[2].type = "add")
    /\ Compacts!Init /\ Joins!Init
    /\ IF scene = "bridge" THEN Bridge!Init
       ELSE IF scene = "direct" THEN Direct!Init
       ELSE Phone!Init /\ (scene # "phone" => inbox = <<>>)
    /\ IF scene = "routes" THEN Routes!Init ELSE IF scene = "places" THEN Places!Init
       ELSE Transfers!Init
    /\ Gateway!Init
    /\ scene # "gateway" => \A j \in {c1, c2} : input[j].path = "/health"
    /\ Reviews!Init /\ Previews!Init
    /\ IF scene \in {"budget", "watch"} THEN Watched!Init ELSE Together!Init
    /\ scene \notin {"review", "mocked", "process"} => \A j \in {c1, c2} : file[j].size = "empty"

Only(s) ==
    /\ scene = s /\ scene' = s
    /\ s # "dht" => UNCHANGED dhtVars
    /\ s \notin {"mesh", "manager"} => UNCHANGED meshVars
    /\ s \notin {"simulation", "simulator"} => UNCHANGED simVars
    /\ s # "pulses" => UNCHANGED chainVars
    /\ s # "compaction" => UNCHANGED compactVars
    /\ s # "join" => UNCHANGED joinVars
    /\ s \notin {"phone", "bridge", "direct"} => UNCHANGED shellVars
    /\ s \notin {"review", "mocked", "process"} => UNCHANGED reviewVars
    /\ s # "gateway" => UNCHANGED gatewayVars
    /\ s \notin {"places", "routes", "ghosts", "sessions"} => UNCHANGED routingVars
    /\ s \notin {"budget", "watch", "guard", "governor", "rollback"} => UNCHANGED autonomyVars
    /\ s # "previews" => UNCHANGED previewVars

ServicesNext ==
    \/ Only("dht") /\ Dht!Next
    \/ Only("mesh") /\ Mesh!Next
    \/ Only("manager") /\ Manager!ManagerNext
    \/ Only("simulation") /\ Sim!Next
    \/ Only("simulator") /\ AsCommitted!Next
    \/ Only("pulses") /\ Pulses!Next
    \/ Only("compaction") /\ Compacts!Next
    \/ Only("join") /\ Joins!Next
    \/ Only("phone") /\ Phone!Next
    \/ Only("bridge") /\ Bridge!Next
    \/ Only("direct") /\ Direct!Next
    \/ Only("review") /\ Reviews!Next
    \/ Only("mocked") /\ Mocked!Next
    \/ Only("process") /\ Processes!Next
    \/ Only("gateway") /\ Gateway!Next
    \/ Only("places") /\ Places!TopologyNext
    \/ Only("routes") /\ Routes!RoutesNext
    \/ Only("ghosts") /\ Transfers!HealthNext
    \/ Only("sessions") /\ Transfers!SessionsNext
    \/ Only("budget") /\ Watched!BudgetNext
    \/ Only("watch") /\ Watched!WatchNext
    \/ Only("guard") /\ Together!GuardNext
    \/ Only("governor") /\ Together!GovernorNext
    \/ Only("rollback") /\ Reverted!RollbackNext
    \/ Only("previews") /\ Previews!Next

ServicesSpec == ServicesInit /\ [][ServicesNext]_servicesVars

-----------------------------------------------------------------------------
\* KademliaEngine: through failures, gossip and refreshes a contact is once in the
\* bucket of its distance, and a lookup's answer leaves out no nearer contact that it
\* met.  GhostTransport, GhostSimulator: however sends,
\* flushes and arrivals interleave a message is in one place and no peer on line is
\* forgotten; packets go over links there were and, but for AODV, never in circles;
\* TransportManager: a device has one peer by endpoint and, but where its names met, by name;
\* as committed the simulator throws in BATMAN and nowhere else.  SpatialTopology,
\* RouteCache, GhostHealthMonitor, GhostReceiptEngine: cells stay reserved or marked unless
\* they are shared, a route handed out was not taken back, the ghost heard of last is kept,
\* copies and receipts are those reported.  ApiServer: a client
\* has the tokens of one bucket refilled all the time though buckets are dropped, and
\* every request is answered once, before the server has closed.  PreviewService: an answer
\* from the cache is of this content and not expired, every call counts once, the table of
\* types agrees with the extractors, and a preview is what its extractor makes of the file.
\* ConsensusNode: every pulse a node applied is in its chain once; the chain is unbroken
\* and in the order of the log where its loops did not overlap; the validators are those
\* of the prefix applied.  RaftEngine with LogCompactor: commands are applied in order,
\* and lost only where something overtook a compaction.  FastJoin: a joined store is the
\* sponsor's, but for what the increments leave out.
LookupsSound ==
    /\ scene = "dht" =>
        Dht!TypeOK /\ Dht!TableSound /\ Dht!NearestFound /\ Dht!AskedTwiceAtMost
    /\ scene = "mesh" =>
        /\ Mesh!InOnePlace /\ Mesh!NoneForgotten /\ Mesh!StoredInOrder
        /\ Mesh!FailsWhenDown /\ Mesh!QueueBounded
    /\ scene = "manager" =>
        Manager!EndpointsLead /\ Manager!NamesLead /\ Manager!AskedOnce
    /\ scene = "simulation" =>
        Sim!HopsWereLinks /\ Sim!NoReturn /\ Sim!DeliveredOnline /\ Sim!RelaysCover
    /\ scene = "simulator" => AsCommitted!ThrowsInBatman
    /\ scene = "gateway" =>
        /\ Gateway!AllowanceKept /\ Gateway!ClosedWhenDone /\ Gateway!AnsweredOnce
        /\ Gateway!OnlyValidAsked
    /\ scene = "places" => Places!ReservationsStand /\ Places!NodesMarked
    /\ scene = "routes" => Routes!RoutesCurrent /\ Routes!EvictedForReason
    /\ scene = "ghosts" => Transfers!GhostsCounted /\ Transfers!IdleEvicted
    /\ scene = "sessions" => Transfers!CopiesCounted /\ Transfers!LastReportKept
    /\ scene = "previews" =>
        /\ Previews!TypeOK /\ Previews!ServedSound /\ Previews!CountedOnce /\ Previews!TablesAgree
        /\ Previews!PreviewsSound
    /\ scene = "pulses" =>
        /\ Pulses!ChainUnbroken /\ Pulses!SameOrder /\ Pulses!EachOnce
        /\ Pulses!ValidatorsOfPrefix /\ Pulses!QuorumsMeet
    /\ scene = "compaction" =>
        /\ Compacts!AppliedInOrder /\ Compacts!LostForReason
        /\ Compacts!StaleNeverApplied /\ Compacts!OnePerIndex
    /\ scene = "join" => Joins!JoinComplete /\ Joins!NothingInvented

\* The Android application: wherever a stop meets the thread that starts the node no
\* node is left behind, what is shown is true but for an answer that overtook, one
\* event stream is read, one receiver registered, and the node knows of the WiFi Direct group there is.  AnalysisPipeline,
\* SandboxService: the report of an upload is that of all its findings and the same
\* every time but for analyzers given up and rules added; sessions are given back
\* whatever ends a run, and no run is approved that was seen to do what it may not.
\* Plugins: a budget is kept by callers that come one after the other, a cascade is
\* stopped as long as it should be, modes follow each other in order, the breaker and the
\* policy answer what the last calls were, and rollbacks keep their distance.
DeviceSound ==
    /\ scene = "phone" => Phone!NoNodeLeft /\ Phone!StatusTrue /\ Phone!ReceiverHeld
    /\ scene = "bridge" =>
        /\ Bridge!NoNodeLeft /\ Bridge!StatusTrue /\ Bridge!DeadForReason
        /\ Bridge!OneStream /\ Bridge!ReceiverHeld
    /\ scene = "direct" => Direct!ReceiverHeld /\ Direct!GroupKnown
    /\ scene = "review" => Reviews!SameReport /\ Reviews!WorstCounts /\ Reviews!BeginningsEnd
    /\ scene = "mocked" =>
        /\ Mocked!WorstCounts /\ Mocked!SessionsKept /\ Mocked!NotApproved
        /\ Mocked!BeginningsEnd
    /\ scene = "process" =>
        Processes!SessionsKept /\ Processes!NotApproved /\ Processes!BeginningsEnd
    /\ scene = "budget" => Watched!CeilingKept
    /\ scene = "watch" =>
        /\ Watched!BreakerMonotone /\ Watched!LeftAlone /\ Watched!BreakerOverrides
        /\ Watched!DriftTold
    /\ scene = "guard" => Together!CascadesStopped
    /\ scene = "governor" =>
        Together!ModesInOrder /\ Together!StricterUnderLoad /\ Together!ActionsBounded
    /\ scene = "rollback" => Reverted!RollbacksSpaced
=============================================================================
