----------------------------- MODULE NodeProcess -----------------------------
(***************************************************************************)
(* The process main.ts runs: the identity it comes back with, the          *)
(* bootstrap, the bridge from the event bus to the clients of /events, and *)
(* the stop at a signal.  The peer table and the pulses are only what      *)
(* main.ts sees of them (Discovery and Pulse model them); bootstrap waits  *)
(* four times, and anything may happen while it does.                      *)
(***************************************************************************)
EXTENDS Integers, FiniteSets

CONSTANTS Peer, Client,
          None, Torn,            \* no identity, and half of one, in the file
          MaxRuns, MaxSignals, MaxPulses, MaxMisreads

VARIABLES file, identity, served, misreads,   \* identity.key, and who served under what
          runs, stage, exited,                \* the process: its await in bootstrap, its end
          runtimeUp, gossipUp, pulseUp, ticking, meshUp, observed, listening,
          signals, goodbyes, stopping, closing, early,   \* signals, and the stops under way
          table, known,                       \* gossip's peers, and _knownPeers
          pulse,                              \* currentSnapshot
          clients, shown, believed, before    \* sseClients, and what they were sent

identityVars == <<file, identity, served, misreads>>
stopVars == <<signals, goodbyes, stopping, closing, early>>
peerVars == <<table, known>>
streamVars == <<clients, shown, believed, before>>
upVars == <<runtimeUp, gossipUp, pulseUp, ticking, meshUp, observed, listening>>
vars == <<identityVars, runs, stage, exited, upVars, stopVars, peerVars, pulse, streamVars>>

Init ==
    /\ file = None /\ identity = None /\ served = {} /\ misreads = 0
    /\ runs = 0 /\ stage = "none" /\ exited = "stopped"
    /\ runtimeUp = FALSE /\ gossipUp = FALSE /\ pulseUp = FALSE /\ ticking = FALSE
    /\ meshUp = FALSE /\ observed = FALSE /\ listening = FALSE
    /\ signals = 0 /\ goodbyes = 0 /\ stopping = 0 /\ closing = FALSE /\ early = FALSE
    /\ table = {} /\ known = {} /\ pulse = 0 /\ clients = {}
    /\ shown = [c \in Client |-> 0] /\ believed = [c \in Client |-> {}]
    /\ before = [c \in Client |-> {}]

Alive == exited = "no"
--------------------------------------------------------------------------------
\* resolveIdentity: a file that cannot be read or parsed counts as none, and is
\* written again under a new identity (here the number of the run).
Resolve(misread, cut) ==
    LET whole == file \notin {None, Torn} /\ ~misread
    IN  /\ misread => file \notin {None, Torn} /\ misreads < MaxMisreads
        /\ misreads' = misreads + (IF misread THEN 1 ELSE 0)
        /\ whole => ~cut
        /\ identity' = IF whole THEN file ELSE runs + 1
        /\ file' = IF whole THEN file ELSE IF cut THEN Torn ELSE runs + 1

\* The process starts, with nothing in memory, after one that ended or was killed at any
\* moment; it may be killed as it writes the file.
Boot(misread, cut) ==
    /\ runs < MaxRuns /\ Resolve(misread, cut)
    /\ runs' = runs + 1
    /\ stage' = "runtime" /\ exited' = IF cut THEN "killed" ELSE "no"
    /\ runtimeUp' = FALSE /\ gossipUp' = FALSE /\ pulseUp' = FALSE /\ ticking' = FALSE
    /\ meshUp' = FALSE /\ observed' = FALSE /\ listening' = FALSE
    /\ signals' = 0 /\ goodbyes' = 0 /\ stopping' = 0 /\ closing' = FALSE /\ early' = FALSE
    /\ table' = {} /\ known' = {} /\ pulse' = 0 /\ clients' = {}
    /\ shown' = [c \in Client |-> 0] /\ believed' = [c \in Client |-> {}]
    /\ before' = [c \in Client |-> {}]
    /\ UNCHANGED served

\* bootstrap: the runtime is up, and gossip.start greets the seeds.
RuntimeStarted ==
    /\ Alive /\ stage = "runtime" /\ stage' = "gossip"
    /\ runtimeUp' = TRUE /\ gossipUp' = TRUE
    /\ UNCHANGED <<identityVars, runs, exited, pulseUp, ticking, meshUp, observed, listening,
                   stopVars, peerVars, pulse, streamVars>>
\* The manual peers, the sweep; then the address is asked for outside.
GossipStarted ==
    /\ Alive /\ stage = "gossip" /\ stage' = "address"
    /\ UNCHANGED <<identityVars, runs, exited, upVars, stopVars, peerVars, pulse, streamVars>>
\* The routing table and the observer are there; the mesh starts.
AddressFound ==
    /\ Alive /\ stage = "address" /\ stage' = "mesh" /\ observed' = TRUE
    /\ UNCHANGED <<identityVars, runs, exited, runtimeUp, gossipUp, pulseUp, ticking, meshUp,
                   listening, stopVars, peerVars, pulse, streamVars>>
\* The rest at once: with or without a mesh, the scheduler and its first tick, the bridge
\* for pulse:tick and the server.  A port in use ends the process.
MeshStarted(ok, portFree) ==
    /\ Alive /\ stage = "mesh" /\ stage' = "serving"
    /\ meshUp' = ok /\ pulseUp' = TRUE /\ ticking' = TRUE
    /\ listening' = portFree /\ exited' = IF portFree THEN "no" ELSE "failed"
    /\ served' = IF portFree THEN served \union {identity} ELSE served
    /\ UNCHANGED <<file, identity, misreads, runs, runtimeUp, gossipUp, observed, stopVars,
                   peerVars, pulse, streamVars>>

--------------------------------------------------------------------------------
\* The bridge: peer:update to every client.
Emit(p, alive) ==
    believed' = [c \in Client |-> IF c \notin clients THEN believed[c]
                                  ELSE IF alive THEN believed[c] \union {p} ELSE believed[c] \ {p}]
\* onNewPeer, after a handshake or by hearsay: what is known is not announced again.
NewPeer(p) ==
    /\ Alive /\ (gossipUp \/ listening)
    /\ table' = table \union {p} /\ known' = known \union {p}
    /\ IF p \in known THEN UNCHANGED believed ELSE Emit(p, TRUE)
    /\ UNCHANGED <<identityVars, runs, stage, exited, upVars, stopVars, pulse, clients, shown,
                   before>>
\* onPeerDead.
PeerDead(p) ==
    /\ Alive /\ gossipUp /\ p \in table
    /\ table' = table \ {p} /\ known' = known \ {p} /\ Emit(p, FALSE)
    /\ UNCHANGED <<identityVars, runs, stage, exited, upVars, stopVars, pulse, clients, shown,
                   before>>
\* /gossip/goodbye forgets the peer and tells nobody.
Goodbye(p) ==
    /\ Alive /\ listening
    /\ table' = table \ {p} /\ known' = known \ {p}
    /\ UNCHANGED <<identityVars, runs, stage, exited, upVars, stopVars, pulse, streamVars>>
\* /admin/add-peer, once the peer told who it is: to be announced when it is next heard of.
AddPeer(p) ==
    /\ Alive /\ listening
    /\ table' = table \union {p} /\ known' = known \ {p}
    /\ UNCHANGED <<identityVars, runs, stage, exited, upVars, stopVars, pulse, streamVars>>
\* A message of the mesh: its sender is announced each time, and never known.
MeshMessage(p) ==
    /\ Alive /\ meshUp
    /\ table' = table \union {p} /\ Emit(p, TRUE)
    /\ UNCHANGED <<identityVars, runs, stage, exited, upVars, stopVars, known, pulse, clients,
                   shown, before>>

\* The scheduler: a tick that began ends, also after a stop, with a snapshot that is
\* current and then sent; the pulse is sent as the bus delivers pulse:tick.
TickBegins ==
    /\ Alive /\ pulseUp /\ ~ticking /\ pulse < MaxPulses /\ ticking' = TRUE
    /\ UNCHANGED <<identityVars, runs, stage, exited, runtimeUp, gossipUp, pulseUp, meshUp,
                   observed, listening, stopVars, peerVars, pulse, streamVars>>
TickEnds ==
    /\ Alive /\ ticking /\ ticking' = FALSE /\ pulse' = pulse + 1
    /\ shown' = [c \in Client |-> IF c \in clients THEN pulse + 1 ELSE shown[c]]
    /\ UNCHANGED <<identityVars, runs, stage, exited, runtimeUp, gossipUp, pulseUp, meshUp,
                   observed, listening, stopVars, peerVars, clients, believed, before>>

\* /events: the current snapshot, and from then on the events.  Its list of peers is the
\* configuration's, not the table's.
Connect(c) ==
    /\ Alive /\ listening /\ c \notin clients
    /\ clients' = clients \union {c} /\ shown' = [shown EXCEPT ![c] = pulse]
    /\ believed' = [believed EXCEPT ![c] = {}] /\ before' = [before EXCEPT ![c] = known]
    /\ UNCHANGED <<identityVars, runs, stage, exited, upVars, stopVars, peerVars, pulse>>

--------------------------------------------------------------------------------
\* broadcastGoodbye waits for the peers, a second and a half at most.
Sigterm ==
    /\ Alive /\ signals < MaxSignals
    /\ signals' = signals + 1 /\ goodbyes' = goodbyes + 1
    /\ UNCHANGED <<identityVars, runs, stage, exited, upVars, stopping, closing, early, peerVars, pulse,
                   streamVars>>
\* Mutant: the scheduler is not stopped.
ShutdownTicks ==
    /\ gossipUp' = FALSE /\ stopping' = stopping + 1
    /\ early' = (early \/ stage # "serving")
    /\ UNCHANGED <<identityVars, runs, stage, exited, runtimeUp, pulseUp, ticking, meshUp,
                   observed, listening, closing, peerVars, pulse, streamVars>>

\* shutdown, whoever asked for it: gossip and the scheduler stop at once.
Shutdown ==
    /\ gossipUp' = FALSE /\ pulseUp' = FALSE /\ stopping' = stopping + 1
    /\ early' = (early \/ stage # "serving")
    /\ UNCHANGED <<identityVars, runs, stage, exited, runtimeUp, ticking, meshUp, observed,
                   listening, closing, peerVars, pulse, streamVars>>
GoodbyeSaid == Alive /\ goodbyes > 0 /\ goodbyes' = goodbyes - 1 /\ Shutdown /\ UNCHANGED signals
Sigint ==
    /\ Alive /\ signals < MaxSignals /\ signals' = signals + 1 /\ Shutdown /\ UNCHANGED goodbyes
\* The runtime after an await; then the server is closed, and the process exits when no
\* client is left.
RuntimeStopped ==
    /\ Alive /\ stopping > 0 /\ stopping' = stopping - 1
    /\ runtimeUp' = FALSE /\ listening' = FALSE /\ closing' = TRUE
    /\ exited' = IF clients = {} THEN "stopped" ELSE "no"
    /\ UNCHANGED <<identityVars, runs, stage, gossipUp, pulseUp, ticking, meshUp, observed,
                   signals, goodbyes, early, peerVars, pulse, streamVars>>
\* The last client of a closed server lets the process exit.
Disconnect(c) ==
    /\ Alive /\ c \in clients /\ clients' = clients \ {c}
    /\ exited' = IF closing /\ clients = {c} THEN "stopped" ELSE "no"
    /\ UNCHANGED <<identityVars, runs, stage, upVars, stopVars, peerVars, pulse, shown,
                   believed, before>>

Next ==
    \/ \E misread, cut \in BOOLEAN : Boot(misread, cut)
    \/ RuntimeStarted \/ GossipStarted \/ AddressFound
    \/ \E ok, portFree \in BOOLEAN : MeshStarted(ok, portFree)
    \/ \E p \in Peer : NewPeer(p) \/ PeerDead(p) \/ Goodbye(p) \/ AddPeer(p) \/ MeshMessage(p)
    \/ TickBegins \/ TickEnds
    \/ \E c \in Client : Connect(c) \/ Disconnect(c)
    \/ Sigterm \/ GoodbyeSaid \/ Sigint \/ RuntimeStopped

Spec == Init /\ [][Next]_vars
--------------------------------------------------------------------------------
TypeOK ==
    /\ file \in {None, Torn} \union 1..MaxRuns /\ served \subseteq 1..MaxRuns
    /\ table \subseteq Peer /\ known \subseteq Peer /\ clients \subseteq Client

\* core/identity.ts: the identity a node served under is the one it comes back with,
\* wherever it was killed, unless the file could not be read once.
IdentityKept ==
    misreads = 0 => \A i \in served : file = i /\ (Alive => identity = i)

\* main.ts, the order of bootstrap: a request finds the observer and the routing table,
\* for the server is the last to start.
RequestsReady == Alive /\ listening => observed /\ stage = "serving"

\* main.ts, /events and the bridge: a connected client has been sent the current snapshot,
\* whether it came before or after the tick.
StreamCurrent == \A c \in clients : shown[c] = pulse

\* main.ts, the callbacks of gossip: a peer that counts as known was announced to every
\* client that has been there since; one that is not announced again was not forgotten.
AnnouncedToAll == \A c \in clients : known \subseteq believed[c] \union before[c]

\* main.ts, shutdown: after a stop that did not overtake the start, the process exits with
\* nothing of it running, and only when every client of the stream is gone.
CleanExit ==
    runs > 0 /\ exited = "stopped" =>
        /\ clients = {} /\ ~listening
        /\ early \/ ~(pulseUp \/ runtimeUp \/ gossipUp)
================================================================================
