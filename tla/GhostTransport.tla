--------------------------- MODULE GhostTransport ---------------------------
(***************************************************************************)
(* GhostTransport (mesh/ghost/ghost-transport.ts), the LinkManager below   *)
(* it (mesh/link/link-manager.ts) and the decision of the GhostRouter      *)
(* (mesh/ghost/ghost-router.ts) as the transport asks for it.              *)
(*                                                                         *)
(* A message is sent at once to a peer that is on line; else a chain of    *)
(* ghosts is built to its coordinate and the message goes to a carrier, or *)
(* is stored until the peer is heard of.  A send is cut at the hash it     *)
(* awaits, a flush after every message.  A coordinate is its Manhattan     *)
(* distance: 0, 1, 2, or 3 for any that leaves a ghost after the first.    *)
(* Left out: ghosts' times to live (a chain is new when it is judged),     *)
(* receipts, sessions, what the handlers do.                               *)
(*                                                                         *)
(* Beside them the TransportManager (mesh/transport/), the gate that is to *)
(* take their place: sightings of a device under several names and at      *)
(* several endpoints become one peer, and a send goes down the ladder of   *)
(* the transports.  Left out: media and times of sightings.                *)
(***************************************************************************)
EXTENDS Naturals, Sequences, FiniteSets, SequencesExt

CONSTANTS Node, Msg, Link,
          Estimated,    \* _estimateCoord: the distance of a node never located
          Located,      \* the distances that updatePeerCoordinate tells
          Score,        \* score of a link that is connected
          To,           \* bound: the nodes a message may be sent to
          MaxQueue,     \* 100
          MaxStarts,    \* bound: starts
          MaxChanges,   \* bound: peers added, removed, located, heard
          Strong, Weak, \* names of devices: base58 keys, and device names
          SelfName, Host, Ghost, \* endpoints; a loopback or wildcard address
          Hint,         \* the name made of a MAC, and of an endpoint
          EndpointName,
          Ladder,       \* connectionLadder() among the transports registered
          OverHttp,     \* the transports of makeHttpTransport
          Sender,       \* TransportManager.send calls
          Absent

VARIABLES
    phase,      \* start and stop under way; _started is on and stopping
    up,         \* LinkManager: the links connected
    online,     \* _peers: "unknown", "online", "offline"
    distance,   \* the distance of a peer's coordinate, or of the estimate
    queue,      \* _queue
    flights,    \* _flushQueue under way: [to, rest]
    due,        \* nodes a handler is at work for before their flush
    call,       \* sends: "new", "hash" with the distance seen, "over"
    wire,       \* what was given to a link: <<message, node>>
    gone,       \* messages neither sent nor stored, with the reason
    stored,     \* history: the messages stored, in order
    missed,     \* history: messages stored for a peer on line
    crossed,    \* history: two flushes to one node at once
    starts, changes,
    records,    \* KnownPeer objects: [id, aliases, endpoint, down, active]
    listed,     \* TransportManager.peers: the object of a name, or 0
    byHost,
    usable,     \* the transports whose isUp() holds
    sending,    \* send: "new", "over", or the object held and the transport asked
    told        \* history: the names reported

manager == <<records, listed, byHost, usable, sending, told>>
links == <<phase, up, starts>>
peers == <<online, distance, changes>>
vars == <<phase, up, online, distance, queue, flights, due, call, wire, gone,
          stored, missed, crossed, starts, changes, manager>>

Name == Strong \cup Weak \cup {Hint} \cup {EndpointName[h] : h \in Host}

ManagerInit ==
    /\ records = <<>> /\ listed = [n \in Name |-> 0] /\ byHost = [h \in Host |-> Absent]
    /\ usable = ToSet(Ladder) /\ sending = [e \in Sender |-> [at |-> "new"]] /\ told = {}

Init ==
    /\ ManagerInit
    /\ phase = "off" /\ up = {} /\ starts = 0
    /\ online = [n \in Node |-> "unknown"] /\ distance = Estimated /\ changes = 0
    /\ queue = [n \in Node |-> <<>>] /\ flights = {} /\ due = {}
    /\ call = [m \in Msg |-> [at |-> "new"]]
    /\ wire = <<>> /\ gone = [m \in Msg |-> "no"]
    /\ stored = <<>> /\ missed = {} /\ crossed = FALSE

-----------------------------------------------------------------------------
Scored(l) == IF l \in up THEN Score[l] ELSE 0

\* Mutant: a link's score does not depend on its state.
BestByProfile == CHOOSE l \in Link : \A k \in Link : Score[k] <= Score[l]

\* best: among links that are all down it still picks one.
Best == CHOOSE l \in Link : \A k \in Link : Scored(k) <= Scored(l)

Goes(m, r) == call' = [call EXCEPT ![m] = r]
Over(m) == Goes(m, [at |-> "over"])
Dropped(m, why) == gone' = [gone EXCEPT ![m] = why]

\* LinkManager.send: a link that is down throws.
Given(m, n) ==
    IF Best \in up THEN wire' = Append(wire, <<m, n>>) /\ UNCHANGED gone
                   ELSE Dropped(m, "down") /\ UNCHANGED wire

\* _storeForForward
StoreForForward(m, n) ==
    LET q == Append(queue[n], m)  full == Len(q) > MaxQueue IN
    /\ queue' = [queue EXCEPT ![n] = IF full THEN Tail(q) ELSE q]
    /\ IF full THEN Dropped(Head(q), "full") ELSE UNCHANGED gone
    /\ stored' = Append(stored, m)
    /\ missed' = IF online[n] = "online" THEN missed \cup {m} ELSE missed
    /\ UNCHANGED wire

NotStored == UNCHANGED <<queue, stored, missed>>

\* send, up to the hash of the envelope.
Send(m, n) ==
    /\ call[m].at = "new"
    /\ IF phase \notin {"on", "stopping"}
       THEN Dropped(m, "off") /\ Over(m) /\ NotStored /\ UNCHANGED wire
       ELSE IF online[n] = "online" THEN Given(m, n) /\ Over(m) /\ NotStored
       ELSE IF distance[n] = 0 THEN StoreForForward(m, n) /\ Over(m)
       ELSE /\ Goes(m, [at |-> "hash", to |-> n, d |-> distance[n]])
            /\ NotStored /\ UNCHANGED <<wire, gone>>
    /\ UNCHANGED <<links, peers, flights, due, crossed>>

\* ghostCount, for the context the transport is given: a ghost for every step
\* between the two.
GhostCount(d) == IF d < 2 THEN 0 ELSE d - 1

\* GhostChainBuilder.build: fillChain throws on a chain without ghosts.
Builds(d) == GhostCount(d) > 0

\* fillChain keeps a ghost after the first if there was one.
FollowedBy(d) == GhostCount(d) > 1

\* GhostRouter.decide of a new ghost: to the target if it is known by now, to a
\* carrier if there is a next ghost and any peer to take it, else stored.
RouteDecision(n, d, known) ==
    IF n \in known THEN "direct"
    ELSE IF FollowedBy(d) /\ known # {} THEN "hop" ELSE "store"

\* The rest of send.
Decide(m) ==
    LET n == call[m].to  known == {p \in Node : online[p] = "online"} IN
    /\ call[m].at = "hash" /\ Over(m)
    /\ IF ~Builds(call[m].d) THEN Dropped(m, "near") /\ NotStored /\ UNCHANGED wire
       ELSE CASE RouteDecision(n, call[m].d, known) = "direct" -> Given(m, n) /\ NotStored
              [] RouteDecision(n, call[m].d, known) = "hop" ->
                    (\E carrier \in known : Given(m, carrier)) /\ NotStored
              [] OTHER -> StoreForForward(m, n)
    /\ UNCHANGED <<links, peers, flights, due, crossed>>

\* broadcast: a send to every peer on line, up to the first await.
Broadcast(m) ==
    LET known == {p \in Node : online[p] = "online"} IN
    /\ call[m].at = "new" /\ phase \in {"on", "stopping"} /\ known # {} /\ Over(m)
    /\ IF Best \in up
       THEN wire' = wire \o SetToSeq({<<m, p>> : p \in known}) /\ UNCHANGED gone
       ELSE Dropped(m, "down") /\ UNCHANGED wire
    /\ NotStored /\ UNCHANGED <<links, peers, flights, due, crossed>>

-----------------------------------------------------------------------------
Unsent(s, why) == [m \in Msg |-> IF Contains(s, m) THEN why ELSE gone[m]]

\* One message of a flush, then its await; when the link throws, the rest is lost.
Carries(n, s) ==
    IF Best \in up
    THEN /\ wire' = Append(wire, <<Head(s), n>>) /\ UNCHANGED gone
         /\ flights' = (flights \ {[to |-> n, rest |-> s]}) \cup
                (IF Tail(s) = <<>> THEN {} ELSE {[to |-> n, rest |-> Tail(s)]})
    ELSE /\ gone' = Unsent(s, "down") /\ UNCHANGED wire
         /\ flights' = flights \ {[to |-> n, rest |-> s]}

Flying(n) == \E f \in flights : f.to = n

\* Mutant: the queue is deleted when all of it was sent.
FlushKeeps(n, on) ==
    /\ UNCHANGED <<queue, stored, missed>>
    /\ IF queue[n] = <<>> \/ on # "online"
       THEN UNCHANGED <<wire, gone, flights, crossed>>
       ELSE Carries(n, queue[n]) /\ crossed' = (crossed \/ Flying(n))

\* _flushQueue, up to its first await: the queue is deleted before anything is sent.
Flush(n, on) ==
    /\ UNCHANGED <<stored, missed>>
    /\ IF queue[n] = <<>> \/ on # "online"
       THEN UNCHANGED <<queue, wire, gone, flights, crossed>>
       ELSE /\ queue' = [queue EXCEPT ![n] = <<>>]
            /\ Carries(n, queue[n]) /\ crossed' = (crossed \/ Flying(n))

FlyOn(f) ==
    /\ f \in flights /\ Carries(f.to, f.rest)
    /\ UNCHANGED <<links, peers, queue, due, call, stored, missed, crossed>>

Changes == changes < MaxChanges /\ changes' = changes + 1

AddPeer(n) ==
    /\ Changes /\ online' = [online EXCEPT ![n] = "online"] /\ Flush(n, "online")
    /\ UNCHANGED <<links, distance, due, call>>

RemovePeer(n) ==
    /\ Changes /\ online[n] = "online"
    /\ online' = [online EXCEPT ![n] = "offline"]
    /\ UNCHANGED <<links, distance, queue, flights, due, call, wire, gone, stored, missed, crossed>>

\* updatePeerCoordinate: a node it had not heard of counts as on line, and
\* nothing is flushed.
UpdatePeerCoordinate(n, d) ==
    /\ Changes /\ distance' = [distance EXCEPT ![n] = d]
    /\ online' = [online EXCEPT ![n] = IF @ = "unknown" THEN "online" ELSE @]
    /\ missed' = IF online[n] = "unknown" THEN missed \cup ToSet(queue[n]) ELSE missed
    /\ UNCHANGED <<links, queue, flights, due, call, wire, gone, stored, crossed>>

\* _onPhysicalMessage, up to the handlers.
Arrives(n) ==
    /\ Changes /\ up # {} /\ n \notin due /\ due' = due \cup {n}
    /\ online' = [online EXCEPT ![n] = IF @ = "unknown" THEN @ ELSE "online"]
    /\ UNCHANGED <<links, distance, queue, flights, call, wire, gone, stored, missed, crossed>>

\* _onPhysicalMessage after the handlers.
Handled(n) ==
    /\ n \in due /\ due' = due \ {n} /\ Flush(n, online[n])
    /\ UNCHANGED <<links, peers, call>>

-----------------------------------------------------------------------------
Quiet == UNCHANGED <<peers, queue, flights, due, call, wire, gone, stored, missed, crossed>>

\* start and stop: the links go up and down one by one.
Start == phase = "off" /\ starts < MaxStarts /\ phase' = "starting" /\ starts' = starts + 1
         /\ UNCHANGED up /\ Quiet
LinkUp(l) == phase = "starting" /\ up' = up \cup {l} /\ UNCHANGED <<phase, starts>> /\ Quiet
Started == phase = "starting" /\ up = Link /\ phase' = "on" /\ UNCHANGED <<up, starts>> /\ Quiet
Stop == phase = "on" /\ phase' = "stopping" /\ UNCHANGED <<up, starts>> /\ Quiet
LinkDown(l) == phase = "stopping" /\ up' = up \ {l} /\ UNCHANGED <<phase, starts>> /\ Quiet
Stopped == phase = "stopping" /\ up = {} /\ phase' = "off" /\ UNCHANGED <<up, starts>> /\ Quiet

Next ==
    /\ \/ \E m \in Msg : Decide(m) \/ Broadcast(m) \/ \E n \in To[m] : Send(m, n)
       \/ \E n \in Node : \/ AddPeer(n) \/ RemovePeer(n) \/ Arrives(n) \/ Handled(n)
                          \/ \E d \in Located : UpdatePeerCoordinate(n, d)
       \/ \E f \in flights : FlyOn(f)
       \/ \E l \in Link : LinkUp(l) \/ LinkDown(l)
       \/ Start \/ Started \/ Stop \/ Stopped
    /\ UNCHANGED manager

-----------------------------------------------------------------------------
\* TransportManager.  What the sources report: the sweep and a pairing code a name
\* with an endpoint, multicast and the bridge perhaps one of them, or a hint only.
Sighting == ([name : Strong \cup Weak \cup {SelfName, Absent}, endpoint : Host \cup {Ghost, Absent}])

\* Does it name the device at all?  Not itself, and not by a ghost endpoint only.
Accepted(s) == s.name # SelfName /\ ~(s.name = Absent /\ s.endpoint = Ghost)

\* resolve: the object listed under a name or, failing that, with it as an alias.
Resolve(n) ==
    IF listed[n] # 0 THEN {listed[n]}
    ELSE {o \in {listed[k] : k \in Name} \ {0} : n \in records[o].aliases}

AtHost(h) ==
    IF h \in Host /\ byHost[h] # Absent THEN {listed[byHost[h]]} \ {0} ELSE {}

\* The peer that is meant: whoever has the endpoint, then whoever has the name.
Meant(s) ==
    IF AtHost(s.endpoint) # {} THEN AtHost(s.endpoint)
    ELSE IF s.name # Absent THEN Resolve(s.name) ELSE {}

CanonicalName(s) ==
    IF s.name # Absent THEN s.name
    ELSE IF s.endpoint \in Host THEN EndpointName[s.endpoint] ELSE Hint

Newcomer(s) ==
    [id |-> CanonicalName(s), aliases |-> {}, endpoint |-> Absent, down |-> {}, active |-> Absent]

\* A strong name takes the place of a weak one, any other becomes an alias.
Strengthens(s, r) == s.name \in Strong /\ r.id \notin Strong
Renamed(s, r) ==
    IF s.name \in {Absent, r.id} THEN r
    ELSE IF Strengthens(s, r) THEN [r EXCEPT !.id = s.name, !.aliases = @ \cup {r.id}]
    ELSE [r EXCEPT !.aliases = @ \cup {s.name}]

\* reportSighting: also under a name that another object has until now.
Reported(s, o, r) ==
    LET seen == [Renamed(s, r) EXCEPT !.endpoint = IF s.endpoint \in Host THEN s.endpoint ELSE @]
    IN  /\ records' = IF o > Len(records) THEN Append(records, seen) ELSE [records EXCEPT ![o] = seen]
        /\ listed' = [n \in Name |-> IF n = seen.id THEN o ELSE IF n = r.id THEN 0 ELSE listed[n]]
        /\ byHost' = [h \in Host |-> IF h = s.endpoint THEN seen.id ELSE byHost[h]]
        /\ told' = told \cup ({s.name} \cap Name)

ReportSighting(s) ==
    /\ changes < MaxChanges /\ changes' = changes + 1 /\ Accepted(s)
    /\ \/ \E o \in Meant(s) : Reported(s, o, records[o])
       \/ Meant(s) = {} /\ Reported(s, Len(records) + 1, Newcomer(s))
    /\ UNCHANGED <<usable, sending>>

\* canReach of a transport over HTTP: the peer has an endpoint.
CanReach(t, o) == t \in OverHttp => records[o].endpoint # Absent

\* pickTransport, for the object o: the first of the ladder that is up, not in its
\* penalty, and reaches the peer.
Usable(o, down) == SelectSeq(Ladder, LAMBDA t : t \in usable \ down /\ CanReach(t, o))

\* One turn of send: the object held, the penalties set on it, those of the object that
\* its name leads to.
Turn(e, o, turns, tried, rs) ==
    \E p \in Resolve(records[o].id) :
        LET ladder == Usable(p, rs[p].down) IN
        sending' = [sending EXCEPT ![e] =
            IF turns = 0 \/ ladder = <<>> THEN [at |-> "over", via |-> Absent]
            ELSE [at |-> "asking", object |-> o, via |-> Head(ladder), turns |-> turns - 1,
                  tried |-> tried, again |-> Head(ladder) \in tried]]

ManagerSend(e, n) ==
    /\ sending[e].at = "new" /\ Resolve(n) # {}
    /\ \E o \in Resolve(n) : Turn(e, o, Len(Ladder) + 1, {}, records)
    /\ UNCHANGED <<records, listed, byHost, usable, told, changes>>

Delivers(e) ==
    /\ sending[e].at = "asking"
    /\ records' = [records EXCEPT ![sending[e].object].active = sending[e].via]
    /\ sending' = [sending EXCEPT ![e] = [at |-> "over", via |-> sending[e].via]]
    /\ UNCHANGED <<listed, byHost, usable, told, changes>>

\* The transport throws: it has its penalty on the object that send holds.
Throws(e) ==
    LET trial == sending[e] IN
    /\ trial.at = "asking"
    /\ records' = [records EXCEPT ![trial.object].down = @ \cup {trial.via}]
    /\ Turn(e, trial.object, trial.turns, trial.tried \cup {trial.via}, records')
    /\ UNCHANGED <<listed, byHost, usable, told, changes>>

\* DOWN_PENALTY_MS pass; a transport goes down or comes up.
PenaltyEnds(o, t) ==
    /\ changes < MaxChanges /\ changes' = changes + 1
    /\ t \in records[o].down /\ records' = [records EXCEPT ![o].down = @ \ {t}]
    /\ sending' = [e \in Sender |->
           IF sending[e].at = "asking" /\ sending[e].object = o
           THEN [sending[e] EXCEPT !.tried = @ \ {t}] ELSE sending[e]]
    /\ UNCHANGED <<listed, byHost, usable, told>>
Toggles(t) ==
    /\ changes < MaxChanges /\ changes' = changes + 1
    /\ usable' = (usable \ {t}) \cup ({t} \ usable)
    /\ UNCHANGED <<records, listed, byHost, sending, told>>

ManagerNext ==
    /\ \/ \E s \in Sighting : ReportSighting(s)
       \/ \E e \in Sender : Delivers(e) \/ Throws(e) \/ \E n \in Name : ManagerSend(e, n)
       \/ \E t \in ToSet(Ladder) : Toggles(t) \/ \E o \in 1..Len(records) : PenaltyEnds(o, t)
    /\ UNCHANGED <<phase, up, starts, online, distance, queue, flights, due, call, wire,
                   gone, stored, missed, crossed>>

Spec == Init /\ [][Next]_vars

-----------------------------------------------------------------------------
Occurs(m, s) == \E i \in 1..Len(s) : s[i] = m
OnWire(m) == \E i \in 1..Len(wire) : wire[i][1] = m

\* A message whose send has begun is in one place: waiting for its hash, in one
\* queue once, in one flush once, given to a link, or gone; none is sent to a
\* node twice, however flushes, sends and arrivals interleave.
InOnePlace ==
    /\ \A m \in Msg :
        LET places == {n \in Node : Occurs(m, queue[n])}
                      \cup {f \in flights : Occurs(m, f.rest)}
                      \cup {x \in {1} : OnWire(m)} \cup {x \in {2} : gone[m] # "no"}
        IN Cardinality(places) = (IF call[m].at = "over" THEN 1 ELSE 0)
    /\ \A i, j \in 1..Len(wire) : wire[i] = wire[j] => i = j

\* The queue of a peer that is on line is empty, but for what was stored while
\* it was on line (the race of a send with the peer's arrival), what
\* updatePeerCoordinate left, and what the flush after the handlers will find.
NoneForgotten ==
    \A n \in Node : online[n] = "online" =>
        n \in due \/ ToSet(queue[n]) \subseteq missed

\* Messages stored for a node reach the wire in the order they were stored,
\* unless a second flush began while the first was at its awaits.
StoredInOrder ==
    LET at(m) == CHOOSE i \in 1..Len(wire) : wire[i][1] = m IN
    ~crossed => \A i, j \in 1..Len(stored) :
        i < j /\ OnWire(stored[i]) /\ OnWire(stored[j])
              /\ wire[at(stored[i])][2] = wire[at(stored[j])][2]
        => at(stored[i]) < at(stored[j])

\* A message is refused by a link only when no link is connected.
FailsWhenDown == \A m \in Msg : gone[m] = "down" => up = {} \/ starts > 1

\* No two peers of the manager are listed with one endpoint, and the map of endpoints
\* leads from a listed peer's endpoint to it, however names and endpoints change.
EndpointsLead ==
    \A n \in Name : LET o == listed[n] IN
        o # 0 => /\ records[o].id = n
                 /\ records[o].endpoint # Absent => byHost[records[o].endpoint] = n

Displaced == {o \in 1..Len(records) : listed[records[o].id] # o}

\* A name that was reported leads to a peer from then on, unless it was an alias of an
\* object whose own name was given to another.
NamesLead ==
    \A n \in told : Resolve(n) # {} \/ \E o \in Displaced : n \in records[o].aliases \cup {records[o].id}

\* A send asks a transport once, however many sends and sightings go on, unless the
\* penalty has ended or the object it holds was displaced.
AskedOnce ==
    \A e \in Sender : sending[e].at = "asking" /\ sending[e].again => sending[e].object \in Displaced

QueueBounded == \A n \in Node : Len(queue[n]) <= MaxQueue
=============================================================================
