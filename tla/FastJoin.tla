------------------------------ MODULE FastJoin ------------------------------
(***************************************************************************)
(* A node that joins (consensus/join/fast-join.ts) by the incremental      *)
(* snapshots of a sponsor (consensus/compaction/incremental-snapshot.ts),  *)
(* cut into chunks (snapshot-streamer.ts), and the events since, over one  *)
(* SyncStore and the EventLog (distributed/sync/sync-engine.ts).           *)
(*                                                                         *)
(* A snapshot is cut where it awaits a checksum and its hash.  A join is   *)
(* one step from the chunks and events it is given on: nothing else writes *)
(* its stores.  The clock of an entry was taken before its signature, so   *)
(* that entries may be put out of the order of their clocks.               *)
(* The upper layer, which carries chunks and applies events, loses and     *)
(* reorders chunks, and merges the entry an event was about.               *)
(***************************************************************************)
EXTENDS Integers, Sequences, FiniteSets, SequencesExt, FiniteSetsExt

CONSTANTS Key, None,
          Take,                 \* bound: snapshots under way at once, numbered and alike
          MaxPuts,              \* bound: entries put, and their clocks
          MaxTakes, MaxJoins,   \* bounds
          FullSnapshotInterval,
          MaxChainLength,       \* more than the interval and the snapshots under way
          Chunks,               \* chunks of a snapshot
          Wired                 \* FALSE: the store drops its resolver, as committed

VARIABLES
    entries,    \* the sponsor's SyncStore: key -> [v, c, n] or None
    eventLog,   \* the sponsor's EventLog: [key, entry]
    chain,      \* IncrementalSnapshotBuilder.chain
    lastVersion, incrementalCount,
    taking,     \* snapshots under way: [at, kind, pos, since, delta]
    takes,
    target,     \* the joining node's store
    join,       \* [at], with the chain offered and, joined, the entries wanted
    joins

sponsor == <<entries, eventLog>>
builder == <<chain, lastVersion, incrementalCount, taking, takes>>
vars == <<entries, eventLog, chain, lastVersion, incrementalCount, taking, takes,
          target, join, joins>>

Empty == [k \in Key |-> None]

Init ==
    /\ entries = Empty /\ eventLog = <<>>
    /\ chain = <<>> /\ lastVersion = 0 /\ incrementalCount = 0 /\ takes = 0
    /\ taking = [t \in Take |-> [at |-> "idle"]]
    /\ target = Empty /\ join = [at |-> "idle"] /\ joins = 0

-----------------------------------------------------------------------------
Clocks == {eventLog[i].entry.c : i \in 1..Len(eventLog)}

\* EventLog.append and since.
Logged(k, e) == Append(eventLog, [key |-> k, entry |-> e])
EventsSince(pos) == SubSeq(eventLog, pos + 1, Len(eventLog))

\* SyncStore.put, and the event of it.
Put(k, c) ==
    LET e == [v |-> IF entries[k] = None THEN 1 ELSE entries[k].v + 1, c |-> c] IN
    /\ Len(eventLog) < MaxPuts /\ c \notin Clocks
    /\ entries' = [entries EXCEPT ![k] = e]
    /\ eventLog' = Logged(k, e)
    /\ UNCHANGED <<builder, target, join, joins>>

Goes(t, r) == taking' = [taking EXCEPT ![t] = r]
Seq0 == Len(eventLog)       \* SyncStore.seq: one for every put

\* _diffSince: the entries whose version is above a number.
DiffSince(since) ==
    [k \in {k \in Key : entries[k] # None /\ entries[k].v > since} |-> entries[k]]

\* take, up to the checksum: the kind, and the entries; an increment has those
\* above the sequence number of the store at the last snapshot.
TakeStarts(t) ==
    LET full == chain = <<>> \/ incrementalCount >= FullSnapshotInterval
        since == IF full THEN 0 ELSE lastVersion
    IN
    /\ taking[t].at = "idle" /\ takes < MaxTakes /\ takes' = takes + 1
    /\ \A u \in Take : u < t => taking[u].at # "idle"
    /\ Goes(t, [at |-> "checksum", full |-> full, pos |-> Len(eventLog), since |-> since,
                delta |-> DiffSince(since)])
    /\ UNCHANGED <<sponsor, chain, lastVersion, incrementalCount, target, join, joins>>

\* After the checksum, up to the hash.
TakeSums(t) ==
    /\ taking[t].at = "checksum" /\ Goes(t, [taking[t] EXCEPT !.at = "hash"])
    /\ lastVersion' = Seq0
    /\ UNCHANGED <<sponsor, chain, incrementalCount, takes, target, join, joins>>

\* After the hash.
TakeEnds(t) ==
    LET longer == Append(chain, taking[t]) IN
    /\ taking[t].at = "hash" /\ Goes(t, [at |-> "idle"])
    /\ chain' = IF Len(longer) > MaxChainLength THEN Tail(longer) ELSE longer
    /\ incrementalCount' = IF taking[t].full THEN 0 ELSE incrementalCount + 1
    /\ UNCHANGED <<sponsor, lastVersion, takes, target, join, joins>>

-----------------------------------------------------------------------------
\* Mutant: the chain begins with the last snapshot.
SinceLast == IF chain = <<>> THEN <<>> ELSE <<Last(chain)>>

\* chainSince: from the last full snapshot on, or all of it.
ChainSince ==
    LET fulls == {i \in 1..Len(chain) : chain[i].full} IN
    IF fulls = {} THEN chain ELSE SubSeq(chain, Max(fulls), Len(chain))

\* evaluateJoinRequest and prepareSnapshotChunks.
Ask ==
    /\ join.at # "offered" /\ joins < MaxJoins /\ joins' = joins + 1
    /\ chain # <<>>
    /\ join' = [at |-> "offered", chain |-> ChainSince, pos |-> Last(chain).pos]
    /\ UNCHANGED <<sponsor, builder, target>>

\* What may arrive of a snapshot: some chunks, in any order, maybe one twice.
Arrivals == UNION {[1..n -> 1..Chunks] : n \in 0..Chunks}

\* assemble: as many chunks as there are, and a text that can be read.
Assembles(s) == Len(s) = Chunks /\ ToSet(s) = 1..Chunks

\* DeterministicResolver: the later clock; clocks of one sponsor are distinct.
Resolve(local, remote) == IF remote.c > local.c THEN remote ELSE local

\* merge of some entries in a row, of which the first that needs the resolver
\* throws when there is none.
MergeAll(store, es) ==
    FoldSeq(LAMBDA e, s :
        IF s.threw THEN s
        ELSE IF s.store[e.key] = None THEN [s EXCEPT !.store[e.key] = e.entry]
        ELSE IF ~Wired THEN [s EXCEPT !.threw = TRUE]
        ELSE [s EXCEPT !.store[e.key] = Resolve(s.store[e.key], e.entry)],
        [store |-> store, threw |-> FALSE], Reverse(es))

EntriesOf(snap) ==
    SetToSeq({[key |-> k, entry |-> snap.delta[k]] : k \in DOMAIN snap.delta})

\* pendingEvents, since the position of the last snapshot; then join: every
\* snapshot is assembled, restoreFromChain merges all, applyEvent every event.
Join ==
    LET events == EventsSince(join.pos)
        held == FlattenSeq([i \in 1..Len(join.chain) |-> EntriesOf(join.chain[i])])
        r == MergeAll(target, held \o events)
    IN
    /\ join.at = "offered"
    /\ \E s \in [1..Len(join.chain) -> Arrivals] :
        IF \A i \in 1..Len(join.chain) : Assembles(s[i])
        THEN /\ target' = r.store
             /\ join' = IF r.threw THEN [at |-> "failed"]
                        ELSE [at |-> "joined", chain |-> join.chain, wanted |-> entries,
                              last |-> Len(eventLog)]
        ELSE UNCHANGED target /\ join' = [at |-> "failed"]
    /\ UNCHANGED <<sponsor, builder, joins>>

Next ==
    \/ \E k \in Key, c \in 1..MaxPuts : Put(k, c)
    \/ \E t \in Take : TakeStarts(t) \/ TakeSums(t) \/ TakeEnds(t)
    \/ Ask \/ Join

Spec == Init /\ [][Next]_vars

-----------------------------------------------------------------------------
PutsOf(k) == {i \in 1..Len(eventLog) : eventLog[i].key = k}
InOrder(k, last) ==
    \A i, j \in PutsOf(k) : i < j /\ j <= last => eventLog[i].entry.c < eventLog[j].entry.c

\* An increment leaves out what was put since the full snapshot when its version
\* is not above the number of puts into the whole store before: so most updates.
LeftOut(k, e) ==
    \E i \in 2..Len(join.chain), p \in PutsOf(k) :
        /\ eventLog[p].entry = e /\ join.chain[1].pos < p /\ p <= join.chain[i].pos
        /\ ~join.chain[i].full /\ e.v <= join.chain[i].since

\* However snapshots overlap with each other and with puts, whatever was lost of
\* earlier joins: a joined store has the entries of the sponsor at the time it
\* was asked for its events, but for those the increments leave out and for keys
\* that were put out of the order of their clocks.
JoinComplete ==
    join.at = "joined" => \A k \in Key :
        \/ target[k] = join.wanted[k]
        \/ LeftOut(k, join.wanted[k])
        \/ ~InOrder(k, join.last)

\* What a join brings, complete or failed, are entries of the sponsor.
NothingInvented ==
    \A k \in Key : target[k] # None => \E p \in PutsOf(k) : eventLog[p].entry = target[k]
=============================================================================
