----------------------------- MODULE PeerHealth -----------------------------
(***************************************************************************)
(* Heartbeats, reputation and health of one node: NodeRuntime              *)
(* (distributed/node/node-runtime.ts) with its PeerManager                 *)
(* (peer/peer-manager.ts), NodeHealthMonitor (health/health-monitor.ts)    *)
(* and MemoryTransport (transport/transport.ts).                           *)
(*                                                                         *)
(* The node is seen from inside; its peers are other NodeRuntimes or nodes *)
(* of another make that keep to the protocol.  PeerManager.isBanned, which *)
(* would lift a ban that has run out, is called by nobody.                 *)
(***************************************************************************)
EXTENDS Integers, FiniteSets

CONSTANTS Peer,
          Foreign,     \* the peers whose ping has the checksum of its payload
          BanAt,       \* banThreshold, in penalties: -80 is eight checksum errors
          MaxMissed,   \* maxMissedHeartbeats
          MaxPings,    \* bound: pings a peer sends
          MaxChanges,  \* bound: calls of addPeer, removePeer, start and stop
          NoPeer

VARIABLES
    running,    \* _running, and the three timers
    registered, \* the transport is in the registry
    peers,      \* PeerManager.peers
    inbox,      \* pings under way to this node
    health,     \* NodeHealthMonitor._status
    sent,       \* pings each peer has sent
    changes

vars == <<running, registered, peers, inbox, health, sent, changes>>

Heard == {"never", "recent", "old"}  \* lastHeartbeat against heartbeatTimeoutMs

Known == {p \in Peer : peers[p] # NoPeer}

Init ==
    /\ running = FALSE /\ registered = TRUE
    /\ peers = [p \in Peer |-> NoPeer]
    /\ inbox = [p \in Peer |-> 0] /\ sent = [p \in Peer |-> 0]
    /\ health = "ACTIVE" /\ changes = 0

-----------------------------------------------------------------------------
Change ==
    changes < MaxChanges /\ changes' = changes + 1 /\ UNCHANGED <<inbox, sent, health>>

\* start() does not put the transport back into the registry.
Start == Change /\ ~running /\ running' = TRUE /\ UNCHANGED <<registered, peers>>

Stop ==
    /\ Change /\ running
    /\ running' = FALSE /\ registered' = FALSE
    /\ UNCHANGED peers

Newcomer == [reputation |-> 0, banned |-> FALSE, heard |-> "never", missed |-> 0]

\* Mutant: a known peer starts afresh.
AddPeerAfresh(p) ==
    Change /\ peers' = [peers EXCEPT ![p] = Newcomer] /\ UNCHANGED <<running, registered>>

\* A known peer keeps its reputation, its ban and its heartbeat.
AddPeer(p) ==
    /\ Change
    /\ peers' = [peers EXCEPT ![p] = IF @ = NoPeer THEN Newcomer ELSE @]
    /\ UNCHANGED <<running, registered>>

RemovePeer(p) ==
    /\ Change
    /\ peers' = [peers EXCEPT ![p] = NoPeer]
    /\ UNCHANGED <<running, registered>>

\* A peer's _sendHeartbeat: lost unless this node is in the registry.
Ping(p) ==
    /\ sent[p] < MaxPings
    /\ sent' = [sent EXCEPT ![p] = @ + 1]
    /\ inbox' = IF registered THEN [inbox EXCEPT ![p] = @ + 1] ELSE inbox
    /\ UNCHANGED <<running, registered, peers, health, changes>>

\* adjustReputation by one checksum error, and the ban it may lead to.
Punished(r) ==
    LET rep == r.reputation - 1 IN
    [r EXCEPT !.reputation = IF rep < -(BanAt + 1) THEN @ ELSE rep,
              !.banned = @ \/ rep <= -BanAt]

\* recordHeartbeat, of a banned peer too.
Recorded(r) == [r EXCEPT !.heard = "recent", !.missed = 0]

\* validateEnvelope: _sendHeartbeat takes the checksum of {type: "ping"}, but
\* sends another payload.
ChecksumOk(p) == p \in Foreign

\* _handleHeartbeat; the pong it sends changes nothing at either end that this
\* module holds.
HandleHeartbeat(p) == [peers EXCEPT ![p] = Recorded(@)]

\* _processEnvelope of a ping, also by a node that has stopped meanwhile.
Receive(p) ==
    /\ inbox[p] > 0
    /\ inbox' = [inbox EXCEPT ![p] = @ - 1]
    /\ peers' = IF p \notin Known THEN peers
                ELSE IF ChecksumOk(p) THEN HandleHeartbeat(p)
                ELSE [peers EXCEPT ![p] = Punished(@)]
    /\ UNCHANGED <<running, registered, health, sent, changes>>

Silent(p) == p \in Known /\ ~peers[p].banned /\ peers[p].heard # "recent"

\* Mutant: only peers that were heard once are counted as missing.
MissedIfEver(p) ==
    IF Silent(p) /\ peers[p].heard = "old" /\ peers[p].missed < MaxMissed
    THEN [peers[p] EXCEPT !.missed = @ + 1] ELSE peers[p]

\* checkHeartbeats for one peer; the count stops where it no longer matters.
Missed(p) ==
    IF Silent(p) /\ peers[p].missed < MaxMissed
    THEN [peers[p] EXCEPT !.missed = @ + 1] ELSE peers[p]

Active == {p \in Known : ~peers[p].banned /\ peers[p].heard = "recent"}

\* NodeHealthMonitor.update: the queue, drift and latency it is given are below
\* their limits.
Status ==
    IF Active # {} THEN "ACTIVE" ELSE IF Known # {} THEN "ISOLATED" ELSE "OFFLINE"

\* Mutant: the health timer goes on when the node stops.
CheckHealthAlways ==
    /\ health' = Status
    /\ peers' = [p \in Peer |-> Missed(p)]
    /\ UNCHANGED <<running, registered, inbox, sent, changes>>

\* _checkHealth: the status, then the missed heartbeats.
CheckHealth ==
    /\ running
    /\ health' = Status
    /\ peers' = [p \in Peer |-> Missed(p)]
    /\ UNCHANGED <<running, registered, inbox, sent, changes>>

\* heartbeatTimeoutMs passes without a heartbeat of p.
Ages(p) ==
    /\ p \in Known /\ peers[p].heard = "recent"
    /\ peers' = [peers EXCEPT ![p].heard = "old"]
    /\ UNCHANGED <<running, registered, inbox, health, sent, changes>>

Next ==
    \/ Start \/ Stop \/ CheckHealth
    \/ \E p \in Peer : AddPeer(p) \/ RemovePeer(p) \/ Ping(p) \/ Receive(p) \/ Ages(p)

Spec == Init /\ [][Next]_vars

-----------------------------------------------------------------------------
PeerState ==
    [reputation : -(BanAt + 1) .. 0, banned : BOOLEAN, heard : Heard, missed : 0 .. MaxMissed]

TypeOK ==
    /\ {running, registered} \subseteq BOOLEAN
    /\ health \in {"ACTIVE", "ISOLATED", "OFFLINE"}
    /\ \A p \in Known : peers[p] \in PeerState

\* Neither heartbeats nor being added again launder a ban: it lasts until the
\* peer is removed (the hour that ban() sets is looked at by nobody).
BanLasts ==
    [][\A p \in Known : peers[p].banned => peers'[p] = NoPeer \/ peers'[p].banned]_vars

\* A stopped node is not told of new heartbeats, and its health stays as it was.
StoppedIsQuiet ==
    [][~registered /\ ~running => health' = health /\ \A p \in Peer : inbox'[p] <= inbox[p]]_vars

\* A peer that stays silent is reported as timed out, one that never sent a
\* heartbeat too, as long as the node runs.
SilenceReported ==
    \A p \in Peer :
        (running /\ Silent(p)) ~> (~running \/ ~Silent(p) \/ peers[p].missed = MaxMissed)
=============================================================================
