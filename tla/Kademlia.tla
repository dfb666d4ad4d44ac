------------------------------ MODULE Kademlia ------------------------------
(***************************************************************************)
(* KademliaEngine (distributed/dht/kademlia.ts) of one node: its k-buckets *)
(* and the lookups and refreshes that change them between two awaits.      *)
(*                                                                         *)
(* The other nodes are seen from outside: each answers a find-node request *)
(* with at most K contacts of its own choice, or not at all.  Distances    *)
(* and buckets of the ids are constants.  Left out: endpoints, and the     *)
(* values stored, which nothing but their TTL removes.                     *)
(***************************************************************************)
EXTENDS Integers, Sequences, FiniteSets, SequencesExt, FiniteSetsExt

CONSTANTS Node, Self,
          Known,       \* the peers added when the engine is made
          Bucket,      \* Bucket[n]: the bucket of n's distance to Self
          Distance,    \* Distance[n]: from n to the target of the lookups
          ToSelf,      \* ToSelf[n]: from n to Self
          K, Alpha,
          Lookup,      \* calls of lookup()
          MaxChanges   \* bound: contacts from gossip and calls of refresh()

VARIABLES
    table,     \* RoutingTable.buckets, each oldest first
    call,      \* the lookups: [at, seen, queue, batch, waits, heard, result, met, asked]
    refresh,   \* the refresh under way: the contacts still to ask, the first one asked
    changes

vars == <<table, call, refresh, changes>>

Contact == Node \ {Self}
Contacts == {n \in Contact : Contains(table[Bucket[n]], n)}
Sorted(S, dist) == SetToSortSeq(S, LAMBDA a, b : dist[a] < dist[b])
FindNearest(dist, count) ==
    LET s == Sorted(Contacts, dist) IN SubSeq(s, 1, Min({count, Len(s)}))

Init ==
    /\ table = [b \in Range(Bucket) |-> Sorted({n \in Known : Bucket[n] = b}, ToSelf)]
    /\ call = [c \in Lookup |-> [at |-> "new"]]
    /\ refresh = <<>> /\ changes = 0

-----------------------------------------------------------------------------
\* Mutant: a known contact is entered again.
AddedAgain(t, n) ==
    IF n = Self THEN t
    ELSE [t EXCEPT ![Bucket[n]] = Append(IF Len(@) >= K THEN Tail(@) ELSE @, n)]

\* RoutingTable.add: a known contact becomes the newest, a full bucket loses
\* its oldest.
Added(t, n) ==
    IF n = Self THEN t
    ELSE [t EXCEPT ![Bucket[n]] =
              LET rest == SelectSeq(@, LAMBDA m : m # n)
              IN  Append(IF Len(rest) >= K THEN Tail(rest) ELSE rest, n)]

Removed(t, n) == [t EXCEPT ![Bucket[n]] = SelectSeq(@, LAMBDA m : m # n)]

\* addContact, from gossip.
AddContact(n) ==
    /\ changes < MaxChanges /\ changes' = changes + 1
    /\ table' = Added(table, n)
    /\ UNCHANGED <<call, refresh>>

\* Mutant: what was met first is kept.
KeptFirst(bag, dist) ==
    LET order == Sorted({n \in Contact : bag[n] > 0}, ToSelf)
        kept == ToSet(SubSeq(order, 1, Min({K, Len(order)})))
    IN  [n \in Contact |-> IF n \in kept THEN bag[n] ELSE 0]

\* The nearest K of the answer so far, in which a contact may be twice.
Kept(bag, dist) ==
    [n \in Contact |->
        LET nearer == FoldSet(LAMBDA m, s : s + bag[m], 0, {m \in Contact : dist[m] < dist[n]})
        IN  Max({0, Min({bag[n], K - nearer})})]

\* The next Alpha of the queue are asked, or the lookup is over.
Asks(r) ==
    LET k == Min({Alpha, Len(r.queue)})
        batch == SubSeq(r.queue, 1, k)
    IN  IF k = 0 THEN [r EXCEPT !.at = "end", !.batch = <<>>]
        ELSE [r EXCEPT !.at = "asking", !.batch = batch, !.waits = ToSet(batch),
                       !.queue = SubSeq(@, k + 1, Len(@)),
                       !.heard = [n \in Contact |-> <<>>],
                       !.asked = [n \in Contact |-> @[n] + (IF Contains(batch, n) THEN 1 ELSE 0)]]

Start(c) ==
    LET closest == FindNearest(Distance, Alpha) IN
    /\ call[c].at = "new"
    /\ call' = [call EXCEPT ![c] =
          Asks([at |-> "new", seen |-> {Self}, queue |-> closest, batch |-> <<>>, waits |-> {},
                heard |-> <<>>,
                result |-> [n \in Contact |-> IF Contains(closest, n) THEN 1 ELSE 0],
                met |-> ToSet(closest), asked |-> [n \in Contact |-> 0]])]
    /\ UNCHANGED <<table, refresh, changes>>

\* A contact of the batch answers, or cannot be reached and leaves the table.
Answers(c, n, S) ==
    /\ call[c].at = "asking" /\ n \in call[c].waits
    /\ call' = [call EXCEPT ![c].waits = @ \ {n},
                            ![c].heard[n] = Sorted(S, Distance)]
    /\ UNCHANGED <<table, refresh, changes>>
Fails(c, n) ==
    /\ call[c].at = "asking" /\ n \in call[c].waits
    /\ call' = [call EXCEPT ![c].waits = @ \ {n}]
    /\ table' = Removed(table, n)
    /\ UNCHANGED <<refresh, changes>>

\* What the batch has named, in its order, without what is in `seen` or twice.
News(r, seen) ==
    FoldLeft(LAMBDA s, n : IF n \in seen \/ Contains(s, n) THEN s ELSE Append(s, n),
             <<>>, FoldLeft(LAMBDA s, b : s \o r.heard[b], <<>>, r.batch))

\* Mutant: only the contacts that are asked are remembered.
DigestForgets(c) ==
    LET r == call[c]  news == News(r, {Self} \cup ToSet(r.batch)) IN
    /\ r.at = "asking" /\ r.waits = {}
    /\ table' = FoldLeft(Added, table, news)
    /\ call' = [call EXCEPT ![c] =
          Asks([r EXCEPT !.queue = @ \o news, !.met = @ \cup ToSet(news)])]
    /\ UNCHANGED <<refresh, changes>>

\* All have answered or failed: the contacts not seen before go to the table,
\* the answer and the queue.  Those the lookup began with are not in `seen`.
Digest(c) ==
    LET r == call[c]
        news == News(r, r.seen)
        bag == [n \in Contact |-> r.result[n] + (IF Contains(news, n) THEN 1 ELSE 0)]
    IN  /\ r.at = "asking" /\ r.waits = {}
        /\ table' = FoldLeft(Added, table, news)
        /\ call' = [call EXCEPT ![c] =
              Asks([r EXCEPT !.seen = @ \cup ToSet(news), !.queue = @ \o news,
                             !.met = @ \cup ToSet(news), !.result = Kept(bag, Distance)])]
        /\ UNCHANGED <<refresh, changes>>

-----------------------------------------------------------------------------
\* refresh() asks the three nearest to itself one after the other and adds all
\* they name, whether it was seen or not.
Refresh ==
    /\ refresh = <<>> /\ changes < MaxChanges
    /\ refresh' = FindNearest(ToSelf, 3)
    /\ changes' = changes + 1
    /\ UNCHANGED <<table, call>>
RefreshAnswer(S) ==
    /\ refresh # <<>>
    /\ \/ table' = FoldLeft(Added, table, Sorted(S, ToSelf))
       \/ table' = Removed(table, Head(refresh))
    /\ refresh' = Tail(refresh)
    /\ UNCHANGED <<call, changes>>

Reply == {S \in SUBSET Node : Cardinality(S) <= K}

Next ==
    \/ \E n \in Contact : AddContact(n)
    \/ \E c \in Lookup :
           \/ Start(c) \/ Digest(c)
           \/ \E n \in Contact : Fails(c, n) \/ \E S \in Reply : Answers(c, n, S)
    \/ Refresh \/ \E S \in Reply : RefreshAnswer(S)

Spec == Init /\ [][Next]_vars

-----------------------------------------------------------------------------
Lives(c) == call[c].at = "asking"

TypeOK ==
    /\ \A b \in DOMAIN table : ToSet(table[b]) \subseteq Contact
    /\ \A c \in Lookup : Lives(c) => call[c].waits \subseteq ToSet(call[c].batch)

\* Through failures, gossip and refreshes a contact is in the bucket of its
\* distance, once, and no bucket has more than K.
TableSound ==
    \A b \in DOMAIN table :
        /\ Len(table[b]) <= K /\ IsInjective(table[b])
        /\ \A n \in ToSet(table[b]) : Bucket[n] = b

\* A lookup's answer leaves out no contact that it began with or was told of
\* and that is nearer to the target than one in the answer, and it has K
\* entries if so many contacts were met.
NearestFound ==
    \A c \in Lookup : call[c].at # "new" =>
        LET r == call[c]
            in == {n \in Contact : r.result[n] > 0}
        IN  /\ in \subseteq r.met
            /\ \A n \in r.met, m \in in : Distance[n] < Distance[m] => n \in in
            /\ FoldSet(LAMBDA n, s : s + r.result[n], 0, Contact) <= K
            /\ Cardinality(r.met) >= K => FoldSet(LAMBDA n, s : s + r.result[n], 0, Contact) = K

\* However its contacts name each other, a lookup asks none more than twice:
\* once as one it began with, once as one it was told of.
AskedTwiceAtMost ==
    \A c \in Lookup : call[c].at # "new" => \A n \in Contact : call[c].asked[n] <= 2
=============================================================================
