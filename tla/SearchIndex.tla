----------------------------- MODULE SearchIndex -----------------------------
(***************************************************************************)
(* IndexManager with its semantic, reverse and structural indexes and the  *)
(* IndexReconciler (search/), and the SearchEngine over them, whose cache  *)
(* of answers is cleared by the events the indexes and the cube emit.      *)
(*                                                                         *)
(* Nothing here awaits: every call is one action.  An answer is the set of *)
(* candidates; their scores and order are left out, and so is the TTL of   *)
(* the cache but for the fact that an answer may be forgotten any time.    *)
(***************************************************************************)
EXTENDS Naturals, FiniteSets

CONSTANTS Project, Token,
          Key,        \* dev:, lic:, status: and tag: keys of the reverse index
          Place, NoPlace,
          Query,      \* parsed and planned queries: [tokens, keys, places]
          MaxTime, MaxReconciles,
          MaxEvents   \* bound: events of different keys

VARIABLES
    words,      \* SemanticIndex.projectTokens
    tokenIndex, \* SemanticIndex.tokenIndex
    keysOf,     \* ReverseIndex.projectKeys
    index,      \* ReverseIndex.index
    place,      \* StructuralIndex.byProject
    total,      \* _totalProjects
    cache,      \* the answers kept: a set of [query, ids]
    now,        \* Date.now()
    used,       \* the idempotency keys the event bus has seen
    runs,       \* the reconciliations
    clash       \* history: an event was taken for one of the same millisecond

vars == <<words, tokenIndex, keysOf, index, place, total, cache, now, used, runs, clash>>

Init ==
    /\ words = [p \in Project |-> {}] /\ tokenIndex = [t \in Token |-> {}]
    /\ keysOf = [p \in Project |-> {}] /\ index = [k \in Key |-> {}]
    /\ place = [p \in Project |-> NoPlace]
    /\ total = 0 /\ cache = {} /\ now = 0 /\ used = {} /\ runs = 0 /\ clash = FALSE

-----------------------------------------------------------------------------
Live == {p \in Project : keysOf[p] # {}}

\* Mutant: the entries of the previous version stay.
EnteredOver(idx, p, old, new) ==
    [k \in DOMAIN idx |-> IF k \in new THEN idx[k] \cup {p} ELSE idx[k]]

\* upsert of either index: the project leaves the entries it was in, then
\* enters those of its new version.
Entered(idx, p, old, new) ==
    [k \in DOMAIN idx |-> IF k \in new THEN idx[k] \cup {p}
                          ELSE IF k \in old THEN idx[k] \ {p} ELSE idx[k]]

\* Mutant: the cache is cleared by its time to live only.
EmitUnheard(event) == used' = used \cup {event} /\ UNCHANGED <<cache, clash>>

\* EventBus.emit of an event with an idempotency key, and what the search
\* engine does on it.
Emit(event) ==
    /\ event \in used \/ Cardinality(used) < MaxEvents
    /\ used' = used \cup {event}
    /\ clash' = (clash \/ event \in used)
    /\ cache' = IF event \in used THEN cache ELSE {}

\* indexProject
IndexProject(p, ts, ks) ==
    /\ words' = [words EXCEPT ![p] = ts]
    /\ tokenIndex' = Entered(tokenIndex, p, words[p], ts)
    /\ keysOf' = [keysOf EXCEPT ![p] = ks]
    /\ index' = Entered(index, p, keysOf[p], ks)
    /\ total' = IF p \in Live THEN total ELSE total + 1
    /\ Emit(<<"upserted", p, now>>)
    /\ UNCHANGED <<place, now, runs>>

\* removeProject; for an unknown project only the event is emitted
RemoveProject(p) ==
    /\ words' = [words EXCEPT ![p] = {}]
    /\ tokenIndex' = Entered(tokenIndex, p, words[p], {})
    /\ keysOf' = [keysOf EXCEPT ![p] = {}]
    /\ index' = Entered(index, p, keysOf[p], {})
    /\ place' = [place EXCEPT ![p] = NoPlace]
    /\ total' = IF p \in Live THEN total - 1 ELSE total
    /\ Emit(<<"removed", p, now>>)
    /\ UNCHANGED <<now, runs>>

\* A cube:indexed event; its key names the project and the path, so that it is
\* heard once for each path.
CubeIndexed(p, x) ==
    /\ <<"indexed", p, x>> \notin used
    /\ place' = [place EXCEPT ![p] = x]
    /\ Emit(<<"indexed", p, x>>)
    /\ UNCHANGED <<words, tokenIndex, keysOf, index, total, now, runs>>

\* Mutant: a project the semantic index has lost is dropped everywhere.
ReconcileBySemantic ==
    /\ runs < MaxReconciles /\ runs' = runs + 1
    /\ LET gone == {p \in Project : words[p] = {}} IN
       /\ keysOf' = [p \in Project |-> IF p \in gone THEN {} ELSE keysOf[p]]
       /\ index' = [k \in Key |-> index[k] \ gone]
    /\ Emit(<<"reconciled", runs>>)
    /\ UNCHANGED <<words, tokenIndex, place, total, now>>

\* The reconciler's timer: what the reverse index does not know is removed
\* from the other two; what they lack is counted and not repaired.
Reconcile ==
    /\ runs < MaxReconciles /\ runs' = runs + 1
    /\ words' = [p \in Project |-> IF p \in Live THEN words[p] ELSE {}]
    /\ tokenIndex' = [t \in Token |-> tokenIndex[t] \cap Live]
    /\ place' = [p \in Project |-> IF p \in Live THEN place[p] ELSE NoPlace]
    /\ Emit(<<"reconciled", runs>>)
    /\ UNCHANGED <<keysOf, index, total, now>>

-----------------------------------------------------------------------------
\* getIntersection: keys nobody has are left out of it.
Intersection(ks) ==
    LET known == {k \in ks : index[k] # {}} IN
    IF known = {} THEN {} ELSE {p \in Project : \A k \in known : p \in index[k]}

\* CandidateGenerator.generate: the union of what tokens, places and filter
\* find, reduced to the filter's projects unless there are none.
Answer(q) ==
    LET filter == Intersection(q.keys)
        found  == UNION {tokenIndex[t] : t \in q.tokens}
                  \cup {p \in Project : place[p] \in q.places} \cup filter
    IN  IF q.keys # {} /\ filter # {} THEN found \cap filter ELSE found

\* search(): from the cache if it is there, else computed and kept.
Search(q) ==
    /\ ~\E c \in cache : c.query = q
    /\ cache' = cache \cup {[query |-> q, ids |-> Answer(q)]}
    /\ UNCHANGED <<words, tokenIndex, keysOf, index, place, total, now, used, runs, clash>>

\* An answer is too old, or the oldest of a full cache.
Forget ==
    /\ \E c \in cache : cache' = cache \ {c}
    /\ UNCHANGED <<words, tokenIndex, keysOf, index, place, total, now, used, runs, clash>>

Tick ==
    /\ now < MaxTime /\ now' = now + 1
    /\ UNCHANGED <<words, tokenIndex, keysOf, index, place, total, cache, used, runs, clash>>

Next ==
    \/ \E p \in Project, ts \in SUBSET Token, ks \in (SUBSET Key) \ {{}} : IndexProject(p, ts, ks)
    \/ \E p \in Project : RemoveProject(p)
    \/ \E p \in Project, x \in Place : CubeIndexed(p, x)
    \/ Reconcile
    \/ \E q \in Query : Search(q)
    \/ Forget \/ Tick

Spec == Init /\ [][Next]_vars

-----------------------------------------------------------------------------
\* The maps of each index are each other's inverse and the count of projects
\* is that of the reverse index, through re-indexing, removal and
\* reconciliation.
IndexesAgree ==
    /\ \A p \in Project, k \in Key : p \in index[k] <=> k \in keysOf[p]
    /\ \A p \in Project, t \in Token : p \in tokenIndex[t] <=> t \in words[p]
    /\ total = Cardinality(Live)

\* An answer served from the cache is the one the indexes would give now,
\* unless two changes of one project fell into the same millisecond.
CacheFresh == ~clash => \A c \in cache : c.ids = Answer(c.query)
=============================================================================
