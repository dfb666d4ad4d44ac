------------------------------ MODULE NodeSync ------------------------------
(***************************************************************************)
(* The data path of NodeRuntime (distributed/node/node-runtime.ts) over    *)
(* the GossipEngine, the SyncStore with its DeterministicResolver, the     *)
(* EventLog, the SnapshotManager and the LamportClock, for one key: keys   *)
(* do not interact.  Heartbeats, which only advance clocks here, are left  *)
(* to module PeerHealth.                                                   *)
(*                                                                         *)
(* A message is cut where its receiver awaits a check or a signature, a    *)
(* publication where it awaits its two signatures, a snapshot where it     *)
(* awaits its checksums and its hash.                                      *)
(***************************************************************************)
EXTENDS Integers, Sequences, FiniteSets, SequencesExt, FiniteSetsExt

CONSTANTS Node, Peers,     \* Peers[n]: transport.peers()
          Rank,            \* what breaks the last tie: [Node -> Nat]
          Publisher,       \* the nodes that publish, each MaxPublish times
          MaxPublish,
          Keeper,          \* the nodes that take a snapshot, and recover from it
          Fanout, DefaultTTL, SeenCacheSize,
          Duplicates,      \* may the transport deliver a message twice?
          Drops,           \* may it lose one?
          Wired,           \* does the store keep the resolver it is given?
          None

VARIABLES
    clock,     \* LamportClock._value
    store,     \* SyncStore.entries of the key
    log,       \* EventLog: the clock values, by position
    seen,      \* seenMessages, oldest first
    inbox,     \* messages accepted by _receive and not yet handled
    net,       \* messages on their way: [env, to, from, twice]
    pub,       \* the publication under way: [at, c]
    published, \* how many publications a node has begun
    snap,      \* the snapshot: [at, c, entry, pos]
    got,       \* history: the remote entries a node has merged
    taken,     \* history: how often a node took a message for new
    evicted,   \* history: the node has dropped a message from its seen cache
    recovered  \* history: the node has recovered

vars == <<clock, store, log, seen, inbox, net, pub, published, snap,
          got, taken, evicted, recovered>>

Id == Node \X (1 .. MaxPublish)
Idle == [at |-> "idle", c |-> 0]

Init ==
    /\ clock = [n \in Node |-> 0]
    /\ store = [n \in Node |-> None]
    /\ log = [n \in Node |-> <<>>]
    /\ seen = [n \in Node |-> <<>>]
    /\ inbox = [n \in Node |-> {}]
    /\ net = {}
    /\ pub = [n \in Node |-> Idle]
    /\ published = [n \in Node |-> 0]
    /\ snap = [n \in Node |-> [at |-> "idle", c |-> 0, entry |-> None, pos |-> 0]]
    /\ got = [n \in Node |-> {}]
    /\ taken = [n \in Node |-> [i \in Id |-> 0]]
    /\ evicted = [n \in Node |-> FALSE]
    /\ recovered = [n \in Node |-> FALSE]

-----------------------------------------------------------------------------
\* Mutant: the timestamps decide before the versions and clocks do not.
LastComerWins(a, b) == b

\* LamportClock.merge
Advanced(here, remote) == Max({here, remote}) + 1

\* DeterministicResolver.resolve: the clock, then the version, then what the
\* code compares next (time, signature, node): a fixed order of the origins.
Resolve(a, b) ==
    IF \/ b.c > a.c
       \/ b.c = a.c /\ b.v > a.v
       \/ b.c = a.c /\ b.v = a.v /\ Rank[b.id[1]] > Rank[a.id[1]]
    THEN b ELSE a

Merged(n, e) == IF store[n] = None THEN e ELSE Resolve(store[n], e)

\* LRUCache.set
Remember(s, id) ==
    LET t == Append(s, id) IN IF Len(t) > SeenCacheSize THEN Tail(t) ELSE t

Mark(n, id) ==
    /\ seen' = [seen EXCEPT ![n] = Remember(@, id)]
    /\ evicted' = [evicted EXCEPT ![n] = @ \/ Len(seen[n]) = SeenCacheSize]

\* Mutant: a forwarded message keeps its TTL.
FanoutForever(n, env, exclude) ==
    {{[env |-> env, to |-> p, from |-> n, twice |-> t] : p \in S} :
        S \in kSubset(Min({Fanout, Cardinality(Peers[n] \ exclude)}), Peers[n] \ exclude),
        t \in IF Duplicates THEN BOOLEAN ELSE {FALSE}}

\* _fanout: to `Fanout` of the peers, none when the TTL is used up.
FanoutOf(n, env, exclude) ==
    IF env.ttl <= 0 THEN {{}}
    ELSE LET to == Peers[n] \ exclude IN
         {{[env |-> env, to |-> p, from |-> n, twice |-> t] : p \in S} :
             S \in kSubset(Min({Fanout, Cardinality(to)}), to),
             t \in IF Duplicates THEN BOOLEAN ELSE {FALSE}}

-----------------------------------------------------------------------------
\* publishData: the clock ticks and the entry is signed.
Publish(n) ==
    /\ n \in Publisher /\ published[n] < MaxPublish /\ pub[n] = Idle
    /\ clock' = [clock EXCEPT ![n] = @ + 1]
    /\ pub' = [pub EXCEPT ![n] = [at |-> "signing", c |-> clock[n] + 1]]
    /\ published' = [published EXCEPT ![n] = @ + 1]
    /\ UNCHANGED <<store, log, seen, inbox, net, snap, got, taken, evicted, recovered>>

\* The entry is put over whatever the store holds by now and logged; spread()
\* ticks the clock again for the message.
Put(n) ==
    /\ pub[n].at = "signing"
    /\ store' = [store EXCEPT ![n] =
          [c |-> pub[n].c, v |-> IF @ = None THEN 1 ELSE @.v + 1,
           id |-> <<n, published[n]>>]]
    /\ log' = [log EXCEPT ![n] = Append(@, pub[n].c)]
    /\ clock' = [clock EXCEPT ![n] = @ + 1]
    /\ pub' = [pub EXCEPT ![n] = [at |-> "spreading", c |-> clock[n] + 1]]
    /\ UNCHANGED <<seen, inbox, net, published, snap, got, taken, evicted, recovered>>

\* Mutant: the sender does not remember its own message.
SpreadUnseen(n) ==
    LET env == [id |-> <<n, published[n]>>, c |-> pub[n].c, ttl |-> DefaultTTL] IN
    /\ pub[n].at = "spreading"
    /\ \E out \in FanoutOf(n, env, {n}) : net' = net \cup out
    /\ taken' = [taken EXCEPT ![n][env.id] = @ + 1]
    /\ pub' = [pub EXCEPT ![n] = Idle]
    /\ UNCHANGED <<clock, store, log, seen, inbox, published, snap, got, evicted, recovered>>

\* spread(): the message, whose payload says version 1, leaves.
Spread(n) ==
    LET env == [id |-> <<n, published[n]>>, c |-> pub[n].c, ttl |-> DefaultTTL] IN
    /\ pub[n].at = "spreading"
    /\ \E out \in FanoutOf(n, env, {n}) : net' = net \cup out
    /\ Mark(n, env.id)
    /\ taken' = [taken EXCEPT ![n][env.id] = @ + 1]
    /\ pub' = [pub EXCEPT ![n] = Idle]
    /\ UNCHANGED <<clock, store, log, inbox, published, snap, got, recovered>>

Delivered(m) == (net \ {m}) \cup (IF m.twice THEN {[m EXCEPT !.twice = FALSE]} ELSE {})

\* _receive: an expired or a seen message is dropped; a new one is remembered,
\* the clock merged and the message handed on.
Receive(m) ==
    LET n == m.to
        new == m.env.ttl > 0 /\ ~Contains(seen[n], m.env.id)
    IN  /\ m \in net
        /\ net' = Delivered(m)
        /\ IF ~new THEN UNCHANGED <<seen, evicted, clock, inbox, taken>>
           ELSE /\ Mark(n, m.env.id)
                /\ clock' = [clock EXCEPT ![n] = Advanced(@, m.env.c)]
                /\ inbox' = [inbox EXCEPT ![n] = @ \cup {m}]
                /\ taken' = [taken EXCEPT ![n][m.env.id] = @ + 1]
        /\ UNCHANGED <<store, log, pub, published, snap, got, recovered>>

\* _processEnvelope and _handleGossipData: the clock is merged once more and
\* ticks, the entry is merged into the store and logged whether it won or not;
\* then _receive forwards the message.  Without a resolver the merge of a key
\* the store has throws, and nothing of this happens after the clock.
Handle(m) ==
    LET n == m.to
        e == [c |-> m.env.c, v |-> 1, id |-> m.env.id]
        next == [m.env EXCEPT !.ttl = @ - 1]
    IN  /\ m \in inbox[n]
        /\ inbox' = [inbox EXCEPT ![n] = @ \ {m}]
        /\ clock' = [clock EXCEPT ![n] = Advanced(@, m.env.c) + 1]
        /\ IF ~Wired /\ store[n] # None THEN UNCHANGED <<store, log, got, net>>
           ELSE /\ store' = [store EXCEPT ![n] = Merged(n, e)]
                /\ log' = [log EXCEPT ![n] = Append(@, m.env.c)]
                /\ got' = [got EXCEPT ![n] = @ \cup {e}]
                /\ \E out \in FanoutOf(n, next, {m.from, n}) : net' = net \cup out
        /\ UNCHANGED <<seen, pub, published, snap, taken, evicted, recovered>>

\* The transport loses a message, or the receiver's rate limit does.
Drop(m) ==
    /\ Drops /\ m \in net
    /\ net' = net \ {m}
    /\ UNCHANGED <<clock, store, log, seen, inbox, pub, published, snap,
                   got, taken, evicted, recovered>>

\* SnapshotManager.take: the clock is the caller's, the store is read after
\* the checksums, the log position after the hash.
TakeSnapshot(n) ==
    /\ n \in Keeper
    /\ \/ /\ snap[n].at = "idle"
          /\ snap' = [snap EXCEPT ![n].at = "checksums", ![n].c = clock[n]]
       \/ /\ snap[n].at = "checksums"
          /\ snap' = [snap EXCEPT ![n].at = "hash", ![n].entry = store[n]]
       \/ /\ snap[n].at = "hash"
          /\ snap' = [snap EXCEPT ![n].at = "taken", ![n].pos = Len(log[n])]
    /\ UNCHANGED <<clock, store, log, seen, inbox, net, pub, published,
                   got, taken, evicted, recovered>>

\* recover(): the clock is set to the snapshot's and advanced over the clock
\* values logged after it; nothing else of the log is replayed.
Replayed(n) ==
    LET after[i \in snap[n].pos .. Len(log[n])] ==
          IF i = snap[n].pos THEN snap[n].c ELSE Advanced(after[i - 1], log[n][i])
    IN  after[Len(log[n])]

\* SnapshotManager.restore, and what recover() does after it.
Recover(n) ==
    LET s == snap[n]
    IN  /\ s.at = "taken" /\ ~recovered[n]
        /\ s.entry # None /\ store[n] # None => Wired
        /\ store' = [store EXCEPT ![n] = IF s.entry = None THEN @ ELSE Merged(n, s.entry)]
        /\ clock' = [clock EXCEPT ![n] = Replayed(n)]
        /\ recovered' = [recovered EXCEPT ![n] = TRUE]
        /\ UNCHANGED <<log, seen, inbox, net, pub, published, snap, got, taken, evicted>>

Next ==
    \/ \E n \in Node : \/ Publish(n) \/ Put(n) \/ Spread(n)
                       \/ TakeSnapshot(n) \/ Recover(n)
    \/ \E m \in net : Receive(m) \/ Drop(m)
    \/ \E n \in Node : \E m \in inbox[n] : Handle(m)

Spec == Init /\ [][Next]_vars

\* The transport delivers what it does not drop, and no await is for ever.
Fairness ==
    /\ \A n \in Node : WF_vars(Put(n)) /\ WF_vars(Spread(n))
    /\ WF_vars(\E m \in net : Receive(m))
    /\ WF_vars(\E n \in Node : \E m \in inbox[n] : Handle(m))

-----------------------------------------------------------------------------
TypeOK ==
    /\ clock \in [Node -> Nat]
    /\ \A n \in Node : ToSet(seen[n]) \subseteq Id /\ Len(seen[n]) <= SeenCacheSize
    /\ \A m \in net : m.to \in Peers[m.from] /\ m.env.ttl \in 1 .. DefaultTTL

\* A node that publishes nothing holds the best of the entries it has received,
\* in whatever order and however often the network brought them, and whatever
\* snapshot of its own it recovered from.
MergeOrderIrrelevant ==
    \A n \in Node : published[n] = 0 /\ Wired =>
        \/ got[n] = {} /\ store[n] = None
        \/ /\ store[n] \in got[n]
           /\ \A e \in got[n] : Resolve(store[n], e) = store[n]

\* Neither a duplicate, nor another route, nor an echo makes a node handle a
\* message twice, as long as its cache of seen messages has dropped nothing.
HandledOnce ==
    \A n \in Node, i \in Id : taken[n][i] > 1 => evicted[n]

\* The clock of a node that has not recovered is past every entry it holds, so
\* that what it publishes next wins over it.
ClockPastStore ==
    \A n \in Node : store[n] # None /\ ~recovered[n] => store[n].c <= clock[n]

\* A message storm dies out, even with a cache that forgets what it has seen.
StormEnds == net # {} ~> net = {}

\* Without losses, a publication reaches every node.
EveryoneHears ==
    \A i \in Id : published[i[1]] >= i[2] ~> \A n \in Node : taken[n][i] > 0
=============================================================================
