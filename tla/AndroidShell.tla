---------------------------- MODULE AndroidShell ----------------------------
(***************************************************************************)
(* The Android application around the node: the screen with its buttons    *)
(* (MainActivity), the service that keeps the node alive                   *)
(* (NodeForegroundService, BootReceiver), the launcher and its threads     *)
(* (NodeRuntimeLauncher), the node as a process that listens, leaves on    *)
(* SIGTERM and dies (main.ts), the bridge with what it believes of the     *)
(* node (NodeBridge), and WiFi Direct, which tells the node its peers      *)
(* (WifiDirectTransport, the /admin handlers of main.ts).                  *)
(*                                                                         *)
(* Android is external: the main thread handles the messages of a service  *)
(* in the order of their arrival, stopSelf is a message to it, and a       *)
(* service that was killed is restarted without an intent (START_STICKY).  *)
(* The threads of the launcher and the callbacks of HTTP calls run between *)
(* any two of them.                                                        *)
(***************************************************************************)
EXTENDS Integers, Sequences, FiniteSets, SequencesExt

CONSTANTS MaxRuns,      \* bound: launchers, each with one process
          MaxTaps,      \* bound: what the user does
          MaxFaults,    \* bound: processes and applications that die by themselves
          MaxStreams,   \* bound: event streams asked for
          Modes,        \* the modes the user may have chosen: 0 manual, 1 auto, 2 background
          Groups,       \* addresses of WiFi Direct group owners
          MaxGroups,    \* bound: groups formed
          None

Run == 1..MaxRuns
Instance == 1..(MaxRuns + 1)

VARIABLES
    \* the application
    mode,       \* the preference "mode"
    open,       \* MainActivity is there
    canStart,   \* btnStart is enabled; btnStop is when it is not
    inbox,      \* messages to the service
    service,    \* the instance of the service that is there, or 0
    instances,  \* instances created
    launcher,   \* the run the service holds, or 0
    runs,       \* launchers started
    \* the runs
    owner,      \* the instance a run was started by
    stage,      \* its thread
    stopping,
    reader,     \* the thread that reads the output: "off", "on", "fired"
    process,    \* "none", "booting", "up", "dead"
    told,       \* it was sent SIGTERM
    printed,    \* it has printed that it listens
    \* the bridge
    running,    \* _status.running
    healthFails,
    health,     \* the health query under way: "none", "sent", "ok", "failed"
    sseGeneration,
    sseCall,    \* the stream the bridge holds, or 0
    streams,    \* generation -> "none", "starting", "open", "ended", "sleeping"
    \* WiFi Direct
    wifi,       \* run -> its transport: "none", "launching", "on", "off"
    field,      \* instance -> the run whose transport its field holds, or 0
    group,      \* the group there is, or None
    device,     \* the other device: "unknown", "invited", "connected"
    scanning,
    lastGroupIp,
    infos,      \* requestConnectionInfo under way
    notices,    \* coroutines: <<"scan">>, <<"lost">> or <<"add", an address>>
    probes,     \* main.ts: [ip, at] for an announced address whose /health is asked for
    p2pPeers,   \* addresses of WiFi Direct in the node's table
    groups,
    \* the environment and history
    taps, faults,
    late,       \* a callback said "running" of a node that was being stopped or was gone
    darkened,   \* the status was cleared while the node of the launcher ran
    lapsed,     \* the event stream ended while the status said stopped
    overtaken,  \* transports that a stop could not reach
    raced,      \* two streams were asked for at once
    announced,  \* the node was told of this group
    unheard,    \* ... not, for its address is that of an earlier group or the node was down
    overtook    \* an announcement was under way when the node was told of a loss

app == <<mode, open, canStart, service, instances, launcher, runs, owner>>
threads == <<stage, stopping, reader>>
nodes == <<process, told, printed>>
bridge == <<running, healthFails, health, sseGeneration, sseCall, streams>>
direct == <<wifi, field, group, device, scanning, lastGroupIp, infos, notices,
            probes, p2pPeers, groups>>
world == <<taps, faults>>
history == <<late, darkened, lapsed, overtaken, raced, announced, unheard, overtook>>
vars == <<app, inbox, threads, nodes, bridge, direct, world, history>>

Init ==
    /\ mode \in Modes /\ open = FALSE /\ canStart = TRUE
    \* BootReceiver.onReceive: after a boot, in the modes 1 and 2.
    /\ inbox \in {<<>>} \union IF mode \in {1, 2} THEN {<<"start">>} ELSE {}
    /\ service = 0 /\ instances = 0 /\ launcher = 0 /\ runs = 0
    /\ owner = [r \in Run |-> 0] /\ stage = [r \in Run |-> "none"]
    /\ stopping = [r \in Run |-> FALSE] /\ reader = [r \in Run |-> "off"]
    /\ process = [r \in Run |-> "none"] /\ told = [r \in Run |-> FALSE]
    /\ printed = [r \in Run |-> FALSE]
    /\ running = FALSE /\ healthFails = 0 /\ health = "none"
    /\ sseGeneration = 0 /\ sseCall = 0 /\ streams = [g \in 1..MaxStreams |-> "none"]
    /\ wifi = [r \in Run |-> "none"] /\ field = [i \in Instance |-> 0]
    /\ group = None /\ device = "unknown" /\ scanning = FALSE /\ lastGroupIp = None
    /\ infos = 0 /\ notices = {} /\ probes = {} /\ p2pPeers = {} /\ groups = 0
    /\ taps = 0 /\ faults = 0 /\ late = FALSE /\ darkened = FALSE /\ lapsed = FALSE
    /\ overtaken = {} /\ raced = FALSE /\ announced = FALSE /\ unheard = FALSE
    /\ overtook = FALSE

Serving(r) == process[r] = "up"
Up == \E r \in Run : Serving(r)
Alive(r) == process[r] \in {"booting", "up"}

-----------------------------------------------------------------------------
(* NodeBridge. *)

Cancelled(s) == IF sseCall # 0 /\ s[sseCall] = "open" THEN [s EXCEPT ![sseCall] = "ended"] ELSE s

\* setStopped, by the service or by the thread of a run.
SetStopped ==
    /\ running' = FALSE /\ sseCall' = 0 /\ streams' = Cancelled(streams)
    /\ UNCHANGED <<healthFails, health, sseGeneration>>
Darkens == darkened' = (darkened \/ (launcher # 0 /\ Alive(launcher) /\ running))

FetchHealth == health' = IF health = "none" THEN "sent" ELSE health

\* startSSE, up to the cancellation of the old stream.
Starting == \E g \in DOMAIN streams : streams[g] = "starting"
StreamBegins ==
    /\ sseGeneration' = sseGeneration + 1
    /\ streams' = [Cancelled(streams) EXCEPT ![sseGeneration + 1] = "starting"]
    /\ raced' = (raced \/ Starting) /\ lapsed' = FALSE

\* startSSE, the new call; where nothing listens, it fails.
StreamOpens(g) ==
    /\ streams[g] = "starting" /\ sseCall' = g
    /\ streams' = [streams EXCEPT ![g] = IF Up THEN "open" ELSE "ended"]
    /\ UNCHANGED <<app, inbox, threads, nodes, running, healthFails, health, sseGeneration,
                   direct, world, history>>

StreamBreaks(g) ==
    /\ streams[g] = "open" /\ ~Up /\ streams' = [streams EXCEPT ![g] = "ended"]
    /\ UNCHANGED <<app, inbox, threads, nodes, running, healthFails, health, sseGeneration,
                   sseCall, direct, world, history>>

\* onFailure, or the end of onResponse: the current stream is asked for again.
AsksAgain(g) == g = sseGeneration /\ running
StreamEnds(g) ==
    /\ streams[g] = "ended"
    /\ streams' = [streams EXCEPT ![g] = IF AsksAgain(g) THEN "sleeping" ELSE "none"]
    /\ lapsed' = (lapsed \/ (g = sseGeneration /\ ~running))
    /\ UNCHANGED <<app, inbox, threads, nodes, running, healthFails, health, sseGeneration,
                   sseCall, direct, world, late, darkened, overtaken, raced, announced,
                   unheard, overtook>>

\* After 2 s, whatever happened meanwhile.
StreamRetries(g) ==
    /\ streams[g] = "sleeping" /\ sseGeneration < MaxStreams
    /\ sseGeneration' = sseGeneration + 1
    /\ streams' = [Cancelled(streams) EXCEPT ![g] = "none", ![sseGeneration + 1] = "starting"]
    /\ raced' = (raced \/ Starting)
    /\ lapsed' = FALSE
    /\ UNCHANGED <<app, inbox, threads, nodes, running, healthFails, health, sseCall,
                   direct, world, late, darkened, overtaken, announced, unheard, overtook>>

\* /health of main.ts, or no connection.
HealthAnswered ==
    /\ health = "sent" /\ health' = IF Up THEN "ok" ELSE "failed"
    /\ UNCHANGED <<app, inbox, threads, nodes, running, healthFails, sseGeneration, sseCall,
                   streams, direct, world, history>>

\* A node too busy to answer within 5 s.
HealthTimesOut ==
    /\ health = "sent" /\ Up /\ faults < MaxFaults /\ faults' = faults + 1
    /\ health' = "failed"
    /\ UNCHANGED <<app, inbox, threads, nodes, running, healthFails, sseGeneration, sseCall,
                   streams, direct, taps, history>>

\* onResponse.
HealthOk ==
    /\ health = "ok" /\ health' = "none" /\ healthFails' = 0 /\ running' = TRUE
    /\ late' = (late \/ launcher = 0 \/ ~Alive(launcher))
    /\ UNCHANGED <<app, inbox, threads, nodes, sseGeneration, sseCall, streams, direct,
                   world, darkened, lapsed, overtaken, raced, announced,
                   unheard, overtook>>

\* onFailure: three failures in a row; no start sets them back.
MaxHealthFails == 3
HealthFailed ==
    LET off == healthFails + 1 >= MaxHealthFails /\ running IN
    /\ health = "failed" /\ health' = "none"
    /\ healthFails' = IF healthFails < MaxHealthFails THEN healthFails + 1 ELSE healthFails
    /\ running' = (running /\ ~off)
    /\ darkened' = (darkened \/ (off /\ launcher # 0 /\ Alive(launcher)))
    /\ UNCHANGED <<app, inbox, threads, nodes, sseGeneration, sseCall, streams, direct,
                   world, late, lapsed, overtaken, raced, announced,
                   unheard, overtook>>

-----------------------------------------------------------------------------
(* The launcher: one thread per run, and one for the output. *)

\* start of a new launcher.
Launch(r, inst) ==
    /\ launcher' = r /\ runs' = r /\ owner' = [owner EXCEPT ![r] = inst]
    /\ stage' = [stage EXCEPT ![r] = "extracting"]

\* runNode, up to pb.start.
Spawn(r) ==
    /\ stage[r] = "extracting" /\ stage' = [stage EXCEPT ![r] = "spawned"]
    /\ process' = [process EXCEPT ![r] = "booting"]
    /\ UNCHANGED <<app, inbox, stopping, reader, told, printed, bridge, direct, world, history>>

\* There is no binary, or it cannot be run: onError, setStopped.
SpawnFails(r) ==
    /\ stage[r] = "extracting" /\ faults < MaxFaults /\ faults' = faults + 1
    /\ stage' = [stage EXCEPT ![r] = "done"] /\ SetStopped /\ Darkens
    /\ UNCHANGED <<app, inbox, stopping, reader, nodes, direct, taps, late, lapsed,
                   overtaken, raced, announced, unheard, overtook>>

\* Mutant: the thread leaves the process it has just started alone.
SpawnStoppedLeaves(r) ==
    /\ stage[r] = "spawned" /\ stopping[r] /\ stage' = [stage EXCEPT ![r] = "done"]
    /\ SetStopped /\ Darkens
    /\ UNCHANGED <<app, inbox, stopping, reader, nodes, direct, world, late, lapsed,
                   overtaken, raced, announced, unheard, overtook>>

\* Stopped meanwhile: a stop that found no process left it to the thread.
SpawnStopped(r) ==
    /\ stage[r] = "spawned" /\ stopping[r] /\ stage' = [stage EXCEPT ![r] = "done"]
    /\ process' = [process EXCEPT ![r] = IF told[r] THEN @ ELSE "dead"]
    /\ SetStopped /\ Darkens
    /\ UNCHANGED <<app, inbox, stopping, reader, told, printed, direct, world, late, lapsed,
                   overtaken, raced, announced, unheard, overtook>>

\* The log thread starts, and the run waits for its process.
Waits(r) ==
    /\ stage[r] = "spawned" /\ ~stopping[r]
    /\ stage' = [stage EXCEPT ![r] = "waiting"] /\ reader' = [reader EXCEPT ![r] = "on"]
    /\ UNCHANGED <<app, inbox, stopping, nodes, bridge, direct, world, history>>

\* waitFor returns: setStopped, whichever run the bridge speaks of by now.
Exits(r) ==
    /\ stage[r] = "waiting" /\ process[r] = "dead"
    /\ stage' = [stage EXCEPT ![r] = "done"] /\ SetStopped /\ Darkens
    /\ UNCHANGED <<app, inbox, stopping, reader, nodes, direct, world, late, lapsed,
                   overtaken, raced, announced, unheard, overtook>>

\* onReady: the bridge is told, and the fields of the service that started the
\* run are filled if they are empty.
Ready(r) ==
    LET i == owner[r] IN
    /\ reader[r] = "on" /\ printed[r] /\ reader' = [reader EXCEPT ![r] = "fired"]
    /\ running' = TRUE /\ FetchHealth
    /\ IF sseGeneration < MaxStreams THEN StreamBegins
       ELSE UNCHANGED <<sseGeneration, streams, raced, lapsed>>
    /\ late' = (late \/ launcher # r \/ ~Alive(r))
    /\ field' = IF field[i] = 0 THEN [field EXCEPT ![i] = r] ELSE field
    /\ wifi' = IF field[i] = 0 THEN [wifi EXCEPT ![r] = "launching"] ELSE wifi
    /\ lastGroupIp' = IF field[i] = 0 THEN None ELSE lastGroupIp
    /\ overtaken' = IF stopping[r] THEN overtaken \union {r} ELSE overtaken
    /\ UNCHANGED <<app, inbox, stage, stopping, nodes, healthFails, sseCall, group, device,
                   scanning, infos, notices, probes, p2pPeers, groups, world, darkened,
                   announced, unheard, overtook>>

-----------------------------------------------------------------------------
(* main.ts as a process. *)

\* bootstrap ends with listen; where another process holds the port, the error
\* event has no handler and the process dies.
Listens(r) ==
    LET taken == \E q \in Run : q # r /\ Serving(q) IN
    /\ process[r] = "booting"
    /\ process' = [process EXCEPT ![r] = IF taken THEN "dead" ELSE "up"]
    /\ printed' = [printed EXCEPT ![r] = ~taken]
    /\ UNCHANGED <<app, inbox, threads, told, bridge, direct, world, history>>

NodeGone(r) == IF Serving(r) THEN p2pPeers' = {} /\ probes' = {} ELSE UNCHANGED <<p2pPeers, probes>>

\* shutdown has ended, or the 2 s of NodeRuntimeLauncher.stop are over.
Leaves(r) ==
    /\ Alive(r) /\ told[r] /\ process' = [process EXCEPT ![r] = "dead"] /\ NodeGone(r)
    /\ UNCHANGED <<app, inbox, threads, told, printed, bridge, wifi, field, group, device,
                   scanning, lastGroupIp, infos, notices, groups, world, history>>

Dies(r) ==
    /\ Alive(r) /\ ~told[r] /\ faults < MaxFaults /\ faults' = faults + 1
    /\ process' = [process EXCEPT ![r] = "dead"] /\ NodeGone(r)
    /\ UNCHANGED <<app, inbox, threads, told, printed, bridge, wifi, field, group, device,
                   scanning, lastGroupIp, infos, notices, groups, taps, history>>

-----------------------------------------------------------------------------
(* NodeForegroundService, on the main thread. *)

\* WifiDirectTransport.stop: nothing where it is not on yet.
StopTransport(w) ==
    IF w # 0 /\ wifi[w] = "on"
    THEN /\ wifi' = [wifi EXCEPT ![w] = "off"] /\ scanning' = FALSE /\ notices' = {}
         /\ group' = None /\ infos' = 0
    ELSE UNCHANGED <<wifi, scanning, notices, group, infos>>

\* NodeRuntimeLauncher.stop: the process there is by now is told to end.
StopLauncher(r) ==
    /\ stopping' = IF r # 0 THEN [stopping EXCEPT ![r] = TRUE] ELSE stopping
    /\ told' = IF r # 0 /\ Alive(r) THEN [told EXCEPT ![r] = TRUE] ELSE told
    /\ SetStopped

\* stopRuntime of instance i.
StopRuntime(i) ==
    LET w == IF i = 0 THEN 0 ELSE field[i] IN
    /\ StopTransport(w) /\ StopLauncher(launcher) /\ launcher' = 0
    /\ field' = IF w # 0 THEN [field EXCEPT ![i] = 0] ELSE field
    /\ overtaken' = IF w # 0 /\ wifi[w] = "launching" THEN overtaken \union {w} ELSE overtaken
    /\ UNCHANGED <<device, lastGroupIp, probes, p2pPeers, groups, process, printed, stage, reader,
                   runs, owner, late, darkened, lapsed, raced, announced, unheard, overtook>>

Next0 == Head(inbox)
NewInstance == IF service = 0 THEN instances + 1 ELSE service

\* onStartCommand, ACTION_START: nothing where there is a launcher.
OnStart ==
    /\ inbox # <<>> /\ Next0 = "start" /\ inbox' = Tail(inbox)
    /\ launcher # 0 \/ runs < MaxRuns
    /\ service' = NewInstance /\ instances' = IF service = 0 THEN instances + 1 ELSE instances
    /\ NewInstance \in Instance
    /\ IF launcher = 0 THEN Launch(runs + 1, NewInstance) ELSE UNCHANGED <<launcher, runs, owner, stage>>
    /\ UNCHANGED <<mode, open, canStart, stopping, reader, nodes, bridge, direct, world, history>>

\* onStartCommand without an intent: the system restarts a service it killed.
OnRestart ==
    LET again == mode = 2 /\ launcher = 0 IN
    /\ inbox # <<>> /\ Next0 = "restart"
    /\ service' = NewInstance /\ instances' = IF service = 0 THEN instances + 1 ELSE instances
    /\ NewInstance \in Instance /\ (again => runs < MaxRuns)
    /\ IF again THEN Launch(runs + 1, NewInstance) ELSE UNCHANGED <<launcher, runs, owner, stage>>
    /\ inbox' = IF mode = 2 THEN Tail(inbox) ELSE Append(Tail(inbox), "destroy")
    /\ UNCHANGED <<mode, open, canStart, stopping, reader, nodes, bridge, direct, world, history>>

\* onStartCommand, ACTION_STOP; stopSelf.
OnStop ==
    /\ inbox # <<>> /\ Next0 = "stop" /\ inbox' = Append(Tail(inbox), "destroy")
    /\ service' = NewInstance /\ instances' = IF service = 0 THEN instances + 1 ELSE instances
    /\ NewInstance \in Instance
    /\ StopRuntime(service)
    /\ UNCHANGED <<mode, open, canStart, world>>

\* onTaskRemoved: in the background mode the node goes on.
OnTaskRemoved ==
    /\ inbox # <<>> /\ Next0 = "removed"
    /\ IF mode # 2 /\ service # 0
       THEN StopRuntime(service) /\ inbox' = Append(Tail(inbox), "destroy")
       ELSE inbox' = Tail(inbox) /\ UNCHANGED <<launcher, runs, owner, threads, nodes, bridge, direct, history>>
    /\ UNCHANGED <<mode, open, canStart, service, instances, world>>

\* onDestroy.
OnDestroy ==
    /\ inbox # <<>> /\ Next0 = "destroy" /\ inbox' = Tail(inbox)
    /\ StopRuntime(service) /\ service' = 0
    /\ UNCHANGED <<mode, open, canStart, instances, world>>

-----------------------------------------------------------------------------
(* MainActivity and the user. *)

Taps == taps < MaxTaps /\ taps' = taps + 1

\* updateUI.
UpdateUI == canStart' = ~running

\* onCreate: in the modes 1 and 2 the node is started if it does not run; the
\* first updateUI comes after, and enables btnStart again.
OpenApp ==
    /\ ~open /\ open' = TRUE /\ Taps
    /\ inbox' = IF mode \in {1, 2} /\ ~running THEN Append(inbox, "start") ELSE inbox
    /\ UpdateUI /\ IF running THEN FetchHealth ELSE UNCHANGED health
    /\ UNCHANGED <<mode, service, instances, launcher, runs, owner, threads, nodes, running,
                   healthFails, sseGeneration, sseCall, streams, direct, faults, history>>

\* startNode and stopNode, as far as their buttons are enabled.
TapStart ==
    /\ open /\ canStart /\ Taps /\ canStart' = FALSE /\ inbox' = Append(inbox, "start")
    /\ UNCHANGED <<mode, open, service, instances, launcher, runs, owner, threads, nodes,
                   bridge, direct, faults, history>>
TapStop ==
    /\ open /\ ~canStart /\ Taps /\ canStart' = TRUE /\ inbox' = Append(inbox, "stop")
    /\ UNCHANGED <<mode, open, service, instances, launcher, runs, owner, threads, nodes,
                   bridge, direct, faults, history>>

\* The loop of onCreate, every 2 s: what is shown, and a health query of a running node.
Poll ==
    /\ open /\ UpdateUI /\ IF running THEN FetchHealth ELSE UNCHANGED health
    /\ UNCHANGED <<mode, open, inbox, service, instances, launcher, runs, owner, threads, nodes,
                   running, healthFails, sseGeneration, sseCall, streams, direct, world, history>>

\* X1XXBrowserActivity: a page was loaded, or the browser comes to the front.  It
\* asks for the health of a node that is taken for stopped, too.
Browses ==
    /\ open /\ ~canStart /\ Taps /\ health = "none" /\ health' = "sent"
    /\ UNCHANGED <<app, inbox, threads, nodes, running, healthFails, sseGeneration, sseCall,
                   streams, direct, faults, history>>

\* The task is swiped away.
Swipe ==
    /\ open /\ Taps /\ open' = FALSE
    /\ inbox' = IF service # 0 THEN Append(inbox, "removed") ELSE inbox
    /\ UNCHANGED <<mode, canStart, service, instances, launcher, runs, owner, threads, nodes,
                   bridge, direct, faults, history>>

\* Android kills the application with its processes; a started service comes back.
Killed ==
    /\ faults < MaxFaults /\ faults' = faults + 1 /\ (service # 0 \/ inbox # <<>>)
    /\ inbox' = IF service # 0 THEN <<"restart">> ELSE <<>>
    /\ open' = FALSE /\ canStart' = TRUE /\ service' = 0 /\ launcher' = 0
    /\ stage' = [r \in Run |-> IF r <= runs THEN "done" ELSE "none"]
    /\ reader' = [r \in Run |-> "off"]
    /\ process' = [r \in Run |-> IF Alive(r) THEN "dead" ELSE process[r]]
    /\ running' = FALSE /\ healthFails' = 0 /\ health' = "none"
    /\ sseGeneration' = 0 /\ sseCall' = 0 /\ streams' = [g \in 1..MaxStreams |-> "none"]
    /\ wifi' = [r \in Run |-> "none"] /\ field' = [i \in Instance |-> 0]
    /\ device' = "unknown" /\ scanning' = FALSE /\ lastGroupIp' = None /\ infos' = 0
    /\ notices' = {} /\ probes' = {} /\ p2pPeers' = {} /\ group' = None
    /\ late' = FALSE /\ darkened' = FALSE /\ lapsed' = FALSE /\ overtaken' = {}
    /\ raced' = FALSE /\ announced' = FALSE /\ unheard' = FALSE /\ overtook' = FALSE
    /\ UNCHANGED <<mode, instances, runs, owner, stopping, told, printed, groups, taps>>

-----------------------------------------------------------------------------
(* WiFi Direct: the transport, what it tells the node, and main.ts. *)

On == \E r \in Run : wifi[r] = "on"
phone == <<app, inbox, threads, nodes, bridge>>
past == <<late, darkened, lapsed, overtaken, raced>>

\* start of the transport, on the main thread: also after its stop, which found
\* it not running yet.  2 s later it looks for peers.
WifiOn(r) ==
    /\ wifi[r] = "launching" /\ wifi' = [wifi EXCEPT ![r] = "on"]
    /\ notices' = notices \union {<<"scan">>}
    /\ UNCHANGED <<phone, field, group, device, scanning, lastGroupIp, infos, probes, p2pPeers,
                   groups, world, history>>

\* discoverPeers: not while it knows of a group.
DiscoverPeers ==
    /\ On /\ <<"scan">> \in notices /\ notices' = notices \ {<<"scan">>}
    /\ scanning' = (scanning \/ lastGroupIp = None)
    /\ UNCHANGED <<phone, wifi, field, group, device, lastGroupIp, infos, probes, p2pPeers,
                   groups, world, history>>

\* WIFI_P2P_PEERS_CHANGED_ACTION: every device is invited that is not connected.
ConnectToPeer ==
    /\ On /\ scanning /\ groups < MaxGroups /\ device = "unknown" /\ device' = "invited"
    /\ UNCHANGED <<phone, wifi, field, group, scanning, lastGroupIp, infos, notices, probes,
                   p2pPeers, groups, world, history>>
Invited ==
    /\ On /\ device = "invited" /\ device' \in {"unknown", "connected"}
    /\ UNCHANGED <<phone, wifi, field, group, scanning, lastGroupIp, infos, notices, probes,
                   p2pPeers, groups, world, history>>

\* A group is formed, by this device's invitation or another's, and
\* WIFI_P2P_CONNECTION_CHANGED_ACTION asks for its addresses.
GroupForms(ip) ==
    /\ On /\ group = None /\ groups < MaxGroups /\ groups' = groups + 1
    /\ group' = ip /\ scanning' = FALSE /\ infos' = infos + 1
    /\ announced' = FALSE /\ unheard' = (lastGroupIp = ip)
    /\ UNCHANGED <<phone, wifi, field, device, lastGroupIp, notices, probes, p2pPeers, world,
                   past, overtook>>

\* The same broadcast comes more than once.
BroadcastAgain ==
    /\ On /\ group # None /\ infos = 1 /\ infos' = 2
    /\ UNCHANGED <<phone, wifi, field, group, device, scanning, lastGroupIp, notices, probes,
                   p2pPeers, groups, world, history>>

\* The callback of requestConnectionInfo.
RequestConnectionInfo ==
    LET new == group # None /\ group # lastGroupIp IN
    /\ On /\ infos > 0 /\ infos' = infos - 1 /\ lastGroupIp' = group
    /\ notices' = IF new THEN notices \union {<<"add", group>>} ELSE notices
    /\ UNCHANGED <<phone, wifi, field, group, device, scanning, probes, p2pPeers, groups, world,
                   history>>

\* The group is gone: the devices are forgotten, the address is not.
GroupLost ==
    /\ group # None /\ group' = None
    /\ IF On THEN device' = "unknown" /\ notices' = notices \union {<<"lost">>}
             ELSE UNCHANGED <<device, notices>>
    /\ UNCHANGED <<phone, wifi, field, scanning, lastGroupIp, infos, probes, p2pPeers, groups,
                   world, history>>

\* notifyNodeJS, 2 s later, and the handler of /admin/add-peer: the node asks the
\* address who it is.  A node that is down is not told again.
NotifyNodeJS(ip) ==
    /\ On /\ <<"add", ip>> \in notices /\ notices' = notices \ {<<"add", ip>>}
    /\ probes' = IF Up THEN probes \union {[ip |-> ip, at |-> "asked"]} ELSE probes
    /\ announced' = (announced \/ (Up /\ group = ip))
    /\ unheard' = (unheard \/ ~Up)
    /\ UNCHANGED <<phone, wifi, field, group, device, scanning, lastGroupIp, infos, p2pPeers,
                   groups, world, past, overtook>>

\* /health of the address: the group's owner, this node itself, or nobody.
Probed(p) ==
    /\ p \in probes /\ p.at = "asked"
    /\ \/ group = p.ip /\ probes' = (probes \ {p}) \union {[p EXCEPT !.at = "answered"]}
       \/ probes' = probes \ {p}
    /\ UNCHANGED <<phone, wifi, field, group, device, scanning, lastGroupIp, infos, notices,
                   p2pPeers, groups, world, history>>
AddPeer(p) ==
    /\ p \in probes /\ p.at = "answered" /\ probes' = probes \ {p}
    /\ p2pPeers' = p2pPeers \union {p.ip}
    /\ UNCHANGED <<phone, wifi, field, group, device, scanning, lastGroupIp, infos, notices,
                   groups, world, history>>

\* The handler of /admin/p2p-lost.
ForgetsP2pPeers == p2pPeers' = {}

\* The node is told of a loss; 10 s later the transport looks for peers again.
P2pLost ==
    /\ On /\ <<"lost">> \in notices /\ notices' = (notices \ {<<"lost">>}) \union {<<"scan">>}
    /\ ForgetsP2pPeers
    /\ overtook' = (overtook \/ probes # {} \/ notices \intersect {<<"add", ip>> : ip \in Groups} # {})
    /\ UNCHANGED <<phone, wifi, field, group, device, scanning, lastGroupIp, infos, probes,
                   groups, world, past, announced, unheard>>

-----------------------------------------------------------------------------
Next ==
    \/ \E g \in 1..MaxStreams :
         StreamOpens(g) \/ StreamBreaks(g) \/ StreamEnds(g) \/ StreamRetries(g)
    \/ HealthAnswered \/ HealthTimesOut \/ HealthOk \/ HealthFailed
    \/ \E r \in Run :
         \/ Spawn(r) \/ SpawnFails(r) \/ SpawnStopped(r) \/ Waits(r) \/ Exits(r) \/ Ready(r)
         \/ Listens(r) \/ Leaves(r) \/ Dies(r) \/ WifiOn(r)
    \/ OnStart \/ OnRestart \/ OnStop \/ OnTaskRemoved \/ OnDestroy
    \/ OpenApp \/ TapStart \/ TapStop \/ Poll \/ Browses \/ Swipe \/ Killed
    \/ DiscoverPeers \/ ConnectToPeer \/ Invited \/ BroadcastAgain \/ RequestConnectionInfo
    \/ GroupLost \/ P2pLost
    \/ \E ip \in Groups : GroupForms(ip) \/ NotifyNodeJS(ip)
    \/ \E p \in probes : Probed(p) \/ AddPeer(p)

Spec == Init /\ [][Next]_vars

-----------------------------------------------------------------------------
\* Nothing of a run, of the service or of a query is under way.
Settled(r) ==
    /\ stage[r] \in {"none", "done"} \/ (stage[r] = "waiting" /\ process[r] = "up" /\ ~told[r])
    /\ ~(reader[r] = "on" /\ printed[r])
    /\ ~(Alive(r) /\ told[r])
Quiet == inbox = <<>> /\ health = "none" /\ \A r \in Run : Settled(r)

\* NodeForegroundService.stopRuntime, NodeRuntimeLauncher.stop: wherever a stop
\* meets the thread that starts the node, no node lives on that the service does
\* not hold and nobody has told to end.
NoNodeLeft ==
    \A r \in Run : Alive(r) /\ r # launcher =>
        told[r] \/ (stage[r] = "spawned" /\ stopping[r])

\* NodeBridge: with no node and nothing under way the status is not "running",
\* unless an answer or a line of output came in after the stop; and a node that
\* was seen ready is shown, unless its status was cleared by the thread of an
\* earlier run or by three failed queries.
StatusTrue ==
    Quiet =>
        /\ launcher = 0 => ~running \/ late
        /\ launcher # 0 /\ Serving(launcher) /\ reader[launcher] = "fired" =>
               running \/ darkened

\* startRuntime: the service holds a dead node, for which START is ignored, only
\* after a failure or while an earlier node still held the port.
DeadForReason ==
    launcher # 0 /\ process[launcher] = "dead" => faults > 0 \/ launcher > 1

\* startSSE: two streams are never read at once unless two were asked for at
\* once; and a node shown as running is heard, unless its stream ended while it
\* was shown as stopped.
OneStream ==
    /\ Cardinality({g \in DOMAIN streams : streams[g] = "open"}) > 1 => raced
    /\ Quiet /\ running /\ sseGeneration \in 1..(MaxStreams - 1)
         /\ (\A g \in DOMAIN streams : streams[g] = "none") => lapsed

\* onReady, WifiDirectTransport: a receiver is registered only for the transport
\* its service holds, but for one that was stopped while it was starting or
\* whose node was ready only after the stop.
ReceiverHeld ==
    \A r \in Run : wifi[r] = "on" =>
        (service # 0 /\ field[service] = r) \/ r \in overtaken

\* requestConnectionInfo, notifyNodeJS, /admin/p2p-lost: a node is told of the
\* group there is, unless its owner has the address of an earlier one or the
\* node was down; without a group it keeps no peer of WiFi Direct, unless an
\* announcement was under way when the loss was told; and peers are looked for
\* again, unless there was a group before: an old address may be kept.
GroupKnown ==
    LET on == service # 0 /\ field[service] # 0 /\ wifi[field[service]] = "on"
        busy == notices # {} \/ infos > 0 \/ probes # {}
    IN
    on /\ ~busy /\ Up /\ overtaken = {} =>
        /\ group # None => announced \/ unheard
        /\ group = None => p2pPeers = {} \/ overtook
        /\ group = None => scanning \/ groups > 0
=============================================================================
