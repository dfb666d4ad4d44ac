----------------------------- MODULE MCPlatform -----------------------------
(***************************************************************************)
(* Instances of the components of one process, for TLC.  A behaviour runs  *)
(* one of them, `scene`; the variables of the others keep their values.    *)
(***************************************************************************)
EXTENDS NodeLock, Integers, TLC

CONSTANTS r1, r2, r3,               \* lock requests, of those of the first scene
          k1, k2, k3, noKey,        \* idempotency keys
          p1, p2, p3, p4,           \* projects
          c1, c2, noCell,           \* cells
          o1, o2, o3, noPath,       \* calls of the fractal engine
          noRecord, noProject,      \* of the pulse
          Work, WorkName, Caller, NoRow, MaxCreated, MaxCalls,      \* ProjectService
          ShopCall, Old, Owner, Title, Address, Version, Follower,
          MaxChannels, MaxWallets,  \* ChannelService
          Word, Tag, Spot, AskedWords, AskedTags, AskedSpots,
          MaxClock, MaxRepairs, MaxHeard,     \* IndexManager and SearchEngine
          AssetCall, Content, Edition, noAsset, MaxFaults,          \* AssetService
          Contact, Browser, noIdentity, halfIdentity,
          MaxBoots, MaxStops, MaxBeats, MaxMisreads,                \* main.ts
          MaxAsked, MaxPending, MaxListed, MaxCount, MaxTyped       \* its pages

VARIABLES scene,
          wTarget, wStatus, wLocked, wQueue, wAged, wGranted, wAhead,
          fifo, processing, current, keys, log, emitted, evicted, seen,
          cells, projectIndex,
          tree, where, op, lockq, timedOut, overlapped,
          running, ticking, tickPulse, source, pulse, fairness, archived, shown,
          shownPulse, saved, ticks, streak,
          row, search, placed, recorded, created, pjCall, calls, pjOverlapped, contended,
          channels, releases, follows, chCall, chOverlapped,
          assets, checksums, references, storage, edges, asCall, faults, asOverlapped, abandoned,
          words, tokenIndex, keysOf, keyIndex, spotOf, total, answers, clock, heard, repairs,
          clash,
          npFile, identity, served, misreads, npRuns, npStage, exited, runtimeUp, gossipUp,
          pulseUp, npTicking, meshUp, observed, listening, signals, goodbyes, npStopping,
          closing, early, npTable, known, npPulse, clients, npShown, believed, before,
          page, asked, pending, label, listedPeers, failCount, silent, crashed,
          typed, searching, results, twoTyped, pgPulse, refreshes, dot, number, newest,
          overtaken

watchVars == <<wTarget, wStatus, wLocked, wQueue, wAged, wGranted, wAhead>>
busVars  == <<fifo, processing, current, keys, log, emitted, evicted, seen>>
cellVars == <<cells, projectIndex>>
cubeVars == <<tree, where, op, lockq, timedOut, overlapped>>
pulseVars == <<running, ticking, tickPulse, source, pulse, fairness, archived, shown,
               shownPulse, saved, ticks, streak>>
projectVars == <<row, search, placed, recorded, created, pjCall, calls, pjOverlapped, contended>>
channelVars == <<channels, releases, follows, chCall, chOverlapped>>
assetVars == <<assets, checksums, references, storage, edges, asCall, faults, asOverlapped,
               abandoned>>
searchVars == <<words, tokenIndex, keysOf, keyIndex, spotOf, total, answers, clock, heard,
                repairs, clash>>
processVars == <<npFile, identity, served, misreads, npRuns, npStage, exited, runtimeUp,
                 gossipUp, pulseUp, npTicking, meshUp, observed, listening, signals, goodbyes,
                 npStopping, closing, early, npTable, known, npPulse, clients, npShown,
                 believed, before>>
pageVars == <<page, asked, pending, label, listedPeers, failCount, silent, crashed, typed,
              searching, results, twoTyped, pgPulse, refreshes, dot, number, newest, overtaken>>

platformVars == <<scene, vars, watchVars, busVars, cellVars, cubeVars, pulseVars,
                  projectVars, channelVars, assetVars, searchVars, processVars, pageVars>>

\* NodeLock itself: four acquire() calls on two paths, without the watchdog.
\* Three of them while releaseStale() takes locks away.
Watched == INSTANCE NodeLock WITH
    Req <- {r1, r2, r3}, Watchdog <- TRUE, target <- wTarget, status <- wStatus,
    locked <- wLocked, queue <- wQueue, aged <- wAged, granted <- wGranted, ahead <- wAhead

\* Three calls on two projects whose ids hash alike.  Under the name Flat, the flat
\* engine with four projects and two cells for two each; under the name Ranks, the
\* pulse of two projects, of which the first is worth one point more; under the name
\* Bus, four events with three keys, of which the bus remembers two.
Cube == INSTANCE EngineProofs WITH
    Project <- {p1, p2}, Root <- {c1, c2}, Bucket <- {0, 1}, Op <- {o1, o2, o3},
    Hash <- [p \in {p1, p2} |-> 0], Suffix <- [p \in {p1, p2} |-> IF p = p1 THEN 0 ELSE 1],
    HardDepthLimit <- 2, Threshold <- [d \in 0 .. 2 |-> 1], MergeThreshold <- 2,
    NoPath <- noPath,
    Shelved <- {p1, p2, p3, p4}, Cell <- {c1, c2}, MaxPerCell <- 2, NoCell <- noCell,
    Listed <- {p1, p2}, Order <- <<p1, p2>>,
    Merit <- [p \in {p1, p2} |-> IF p = p1 THEN 1 ELSE 0],
    GapCap <- 2, CountCap <- 2, PenaltyWeight <- 3, BanPenalty <- 2, MaxEntries <- 3,
    MaxConsecutiveTop <- 1, DemoteSteps <- 1, MaxPulse <- 2, MaxTicks <- 3,
    NoRecord <- noRecord, NoProject <- noProject,
    Key <- {k1, k2, k3}, NoKey <- noKey, MaxProcessedKeys <- 2, EvictBatch <- 1,
    MaxLogSize <- 2, MaxEvents <- 4

\* The services over repositories: calls about the projects of one developer, ...
Works == INSTANCE Projects WITH
    Project <- Work, Name <- WorkName, MaxChannels <- MaxCreated, channels <- created,
    call <- pjCall, overlapped <- pjOverlapped

\* ... about channels, their releases and their followers, ...
Shops == INSTANCE Channels WITH
    Call <- ShopCall, call <- chCall, overlapped <- chOverlapped

\* ... and about assets and the files they name.
Files == INSTANCE Assets WITH
    Call <- AssetCall, Version <- Edition, None <- noAsset,
    index <- checksums, call <- asCall, overlapped <- asOverlapped

\* The indexes of projects and the answers the search engine keeps, ...
Searches == INSTANCE SearchIndex WITH
    Project <- Work, Token <- Word, Key <- Tag, Place <- Spot, NoPlace <- NoRow,
    Query <- [tokens : AskedWords, keys : AskedTags, places : AskedSpots],
    MaxTime <- MaxClock, MaxReconciles <- MaxRepairs, MaxEvents <- MaxHeard,
    index <- keyIndex, place <- spotOf, cache <- answers, now <- clock, used <- heard,
    runs <- repairs

\* ... the process around them, through its starts and stops, ...
Program == INSTANCE NodeProcess WITH
    Peer <- Contact, Client <- Browser, None <- noIdentity, Torn <- halfIdentity,
    MaxRuns <- MaxBoots, MaxSignals <- MaxStops, MaxPulses <- MaxBeats,
    file <- npFile, runs <- npRuns, stage <- npStage, ticking <- npTicking,
    stopping <- npStopping, table <- npTable, pulse <- npPulse, shown <- npShown

\* ... and the pages it serves, whose polls and searches overlap.
Pages == INSTANCE Dashboard WITH
    MaxPolls <- MaxAsked, MaxPeers <- MaxListed, MaxPulse <- MaxCount,
    MaxSearches <- MaxTyped, None <- noIdentity,
    peers <- listedPeers, pulse <- pgPulse, overlapped <- twoTyped

\* What stands for undefined is no key, cell, path, record or row.  The channels there are at
\* first, one at most, are named unlike those that calls make.
ASSUME PlatformAssumption ==
    /\ noKey \notin {k1, k2, k3} /\ noCell \notin {c1, c2}
    /\ noPath \notin Cube!CubePath
    /\ noRecord \notin [lastTop : Int, topCount : Int, first : Int, penalty : Int]
    /\ p1 # p2
    /\ NoRow \notin [status : Works!Live \cup {"archived"}, name : WorkName] \cup WorkName
    /\ MaxCreated \in Nat /\ MaxChannels \in Nat \ {0} /\ MaxWallets \in Nat
    /\ Shops!IsFiniteSet(ShopCall) /\ Shops!IsFiniteSet(Follower) /\ Shops!IsFiniteSet(Address)
    /\ Shops!IsFiniteSet(Old) /\ (\A i, j \in Old : i = j) /\ Old \cap ShopCall = {}
    /\ Shops!IsFiniteSet(Work)
    /\ noAsset \notin AssetCall
    /\ noIdentity \notin Int /\ halfIdentity \notin Nat
    /\ MaxBoots \in Nat /\ MaxMisreads \in Nat /\ MaxAsked \in Nat /\ MaxListed \in Nat

PlatformInit ==
    /\ scene \in {"locks", "watched", "bus", "cells", "cube", "pulse", "projects", "channels",
                  "assets", "search", "process", "pages"}
    /\ Init /\ (scene # "locks" => target = [r \in Req |-> CHOOSE p \in Path : TRUE])
    /\ Watched!Init /\ (scene # "watched" => wTarget = [r \in {r1, r2, r3} |-> CHOOSE p \in Path : TRUE])
    /\ Cube!Bus!Init /\ Cube!Flat!Init /\ Cube!Init /\ Cube!Ranks!Init /\ Works!Init
    /\ Shops!Init /\ Files!Init /\ Searches!Init /\ Program!Init
    /\ Pages!Init /\ (scene # "pages" => page = "app")
    /\ scene # "channels" =>
         \A ch \in channels : ch.owner = (CHOOSE o \in Owner : TRUE) /\ ch.slug[1] = (CHOOSE t \in Title : TRUE)

Only(s) ==
    /\ scene = s /\ scene' = s
    /\ s # "locks" => UNCHANGED vars
    /\ s # "watched" => UNCHANGED watchVars
    /\ s # "bus"   => UNCHANGED busVars
    /\ s # "cells" => UNCHANGED cellVars
    /\ s # "cube"  => UNCHANGED cubeVars
    /\ s # "pulse" => UNCHANGED pulseVars
    /\ s # "projects" => UNCHANGED projectVars
    /\ s # "channels" => UNCHANGED channelVars
    /\ s # "assets" => UNCHANGED assetVars
    /\ s # "search" => UNCHANGED searchVars
    /\ s # "process" => UNCHANGED processVars
    /\ s # "pages" => UNCHANGED pageVars

PlatformNext ==
    \/ Only("locks") /\ Next
    \/ Only("watched") /\ Watched!Next
    \/ Only("bus")   /\ Cube!Bus!Next
    \/ Only("cells") /\ Cube!Flat!Next
    \/ Only("cube")  /\ Cube!Next
    \/ Only("pulse") /\ Cube!Ranks!Next
    \/ Only("projects") /\ Works!Next
    \/ Only("channels") /\ Shops!Next
    \/ Only("assets") /\ Files!Next
    \/ Only("search") /\ Searches!Next
    \/ Only("process") /\ Program!Next
    \/ Only("pages") /\ Pages!Next

\* Callbacks that are due run.
Fairness ==
    /\ \A r \in {r1, r2, r3} : WF_watchVars(scene = "watched" /\ Watched!TimeoutFires(r))
    /\ WF_busVars(scene = "bus" /\ (Cube!Bus!Dispatch \/ Cube!Bus!HandlersDone \/ Cube!Bus!Drained))
    /\ WF_cubeVars(scene = "cube" /\ \E o \in {o1, o2, o3} : Cube!Step(o))
    /\ WF_pulseVars(scene = "pulse" /\ (Cube!Ranks!SourceFails \/ Cube!Ranks!Projects))

PlatformSpec == PlatformInit /\ [][PlatformNext]_platformVars /\ Fairness

-----------------------------------------------------------------------------
\* EventBus: whatever handlers emit while the queue drains, an event with a key
\* is handled once unless its key was evicted, a handler of an INDEX event
\* raises no CORE event, and events are handled in the order of their emission.
BusSound == Cube!Bus!BusSound

\* CubeEngine: after every index, remove and move the cells and the index say the
\* same of every project, and no cell is above its capacity.  FractalCubeEngine: what
\* the registry places is in the node of that path, as long as calls do not overlap
\* tree and registry agree, and a lock that no call holds any more is free or at its
\* next waiter.
CellsSound == Cube!Flat!CellsSound
TreeSound ==
    /\ Cube!TypeOK
    /\ Cube!RegisteredIsPlaced /\ Cube!SerialCallsAgree /\ Cube!LocksComeBack
CubeSound == CellsSound /\ TreeSound

\* PulseScheduler: the project that ranks first is rotated away from the top in
\* time, no project is shown twice, also when ticks overlap with a restart.
PulseSound == Cube!Ranks!TypeOK /\ Cube!Ranks!RankedTopRotates /\ Cube!Ranks!ShownOnce

\* ProjectService: search shows the row of a project whose calls came one after the
\* other, a project is in the archive only with its event, and names and channels stay
\* within their limits unless two calls were checked against the same rows.
ProjectsSound ==
    Works!TypeOK /\ Works!SerialCallsIndex /\ Works!ArchiveOnRecord /\ Works!LimitsKept

\* ChannelService, ReleaseService, FollowService: slugs are unique and one release of a
\* channel the latest however calls overlap, the counter is that of the followers, and
\* channels and wallets stay within their limits unless calls overlapped.
ChannelsSound ==
    /\ Shops!TypeOK /\ Shops!SlugsUnique /\ Shops!OneLatest /\ Shops!FollowersCounted
    /\ Shops!SerialCallsKeepLimits

\* AssetService, DependencyGraph: whatever step fails where, every file is an asset's, a
\* call's or left over by a clean-up that failed; a checksum leads to an asset with that
\* content, serial calls store a content once, and dependencies close no cycle.
FilesSound ==
    /\ Files!TypeOK /\ Files!FilesAccountedFor /\ Files!IndexTrue
    /\ Files!SerialCallsNoDuplicates /\ Files!Acyclic

\* IndexManager, SearchEngine: through re-indexing, removal and reconciliation the maps of
\* an index are each other's inverse, and a cached answer is the one the indexes give now.
SearchSound == Searches!IndexesAgree /\ Searches!CacheFresh

\* The services over repositories and indexes keep rows, search, archive, slugs, releases,
\* counters, files and cached answers in agreement through calls that overlap.
RecordsSound == ProjectsSound /\ ChannelsSound /\ FilesSound /\ SearchSound

\* main.ts: a node keeps its identity while its file is readable, answers requests when its
\* parts are up, tells its streams what is so now, announces itself to every peer, and
\* leaves nothing running but what a stop met halfway.
NodeSound ==
    /\ Program!TypeOK /\ Program!IdentityKept /\ Program!RequestsReady
    /\ Program!StreamCurrent /\ Program!AnnouncedToAll /\ Program!CleanExit

\* index.html: a page says OFFLINE for a reason, shows the results of the last search and a
\* pulse that goes forward, whatever order the answers come in.
PageSound ==
    Pages!TypeOK /\ Pages!OfflineHonest /\ Pages!ResultsOfLast /\ Pages!PulseForward

\* The process and what it shows, through starts, stops, kills and answers that overtake.
ProcessSound == NodeSound /\ PageSound

\* Maintenance changes nothing that only a request may change: FractalCubeEngine's
\* split and merge carry projects over, so that only a call about a project takes
\* it out of the registry; PulseScheduler's stop() and start() neither forget nor
\* revive anything about a project.
KeptThroughMaintenance == Cube!OnlyOwnCallsUnregister /\ Cube!Ranks!RestartKeepsFairness

\* What a call of a component waits for comes: an acquire() ends in a lock or an
\* error, a drain that was begun ends, the calls of the fractal engine end, a
\* tick of the scheduler ends.
CallsSettle ==
    Watched!AcquireSettles /\ Cube!Bus!DrainEnds /\ Cube!CallsEnd /\ Cube!Ranks!TickEnds
=============================================================================
