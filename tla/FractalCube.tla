----------------------------- MODULE FractalCube -----------------------------
(***************************************************************************)
(* FractalCubeEngine (cube_engine/fractal-cube-engine.ts) with its tree of *)
(* FractalNodes, the PathRegistry, split-merge and the split policy.       *)
(*                                                                         *)
(* An operation is one call of index, remove or move.  It is cut where the *)
(* code awaits: for a lock of the NodeLockManager, for _removeFromPath,    *)
(* for the placing of the project.  Between two awaits any other operation *)
(* may run.  A path is the sequence of its root cell and child indices.    *)
(* No code calls releaseStale, so no lock is taken away by force.          *)
(***************************************************************************)
EXTENDS Naturals, Sequences, FiniteSets, SequencesExt, FiniteSetsExt

CONSTANTS Project, Root, Bucket,
          Op,              \* the calls, each made once
          Hash,            \* hashProjectToBucket, used by splitNode
          Suffix,          \* the bucket of the id's last two characters,
                           \* used by _indexIntoRouter
          HardDepthLimit,  \* no node of this depth is split
          Threshold,       \* effectiveThreshold: [depth -> count]
          MergeThreshold,
          NoPath

CubePath == UNION {{<<r>> \o s : r \in Root, s \in [1 .. d -> Bucket]} :
                  d \in 0 .. HardDepthLimit}
Depth(x) == Len(x) - 1

VARIABLES
    tree,       \* the nodes: [exists, router: sets of paths, ids: [CubePath -> set]]
    where,      \* PathRegistry.idToPath
    op,         \* the calls: what they are asked and how far they are
    lockq,      \* per path, the lock requests: the first one has the lock
    timedOut,   \* history: a lock request has timed out
    overlapped  \* history: two calls were under way at the same time

vars == <<tree, where, op, lockq, timedOut, overlapped>>

Init ==
    /\ tree = [exists |-> {}, router |-> {}, ids |-> [x \in CubePath |-> {}]]
    /\ where = [p \in Project |-> NoPath]
    /\ op = [o \in Op |-> [kind |-> "none", p |-> CHOOSE p \in Project : TRUE,
                           from |-> NoPath, to |-> NoPath, pc |-> "idle"]]
    /\ lockq = [x \in CubePath |-> <<>>]
    /\ timedOut = FALSE
    /\ overlapped = FALSE

-----------------------------------------------------------------------------
(* The tree and the registry, as a pair <<tree, where>>.                   *)

Children(t, x) == {y \in t.exists : Len(y) = Len(x) + 1 /\ IsPrefix(x, y)}

\* _getOrCreateNode: the node and its ancestors.
Grown(t, x) == [t EXCEPT !.exists = @ \cup {SubSeq(x, 1, k) : k \in 1 .. Len(x)}]

\* SplitPolicy.decide: the soft limit only warns.
SplitAllowed(x) == Depth(x) < HardDepthLimit

\* Mutant: the registry is not told of the split.
SplitSilently(t, w, x) ==
    LET moved == t.ids[x]
        kids  == {Append(x, Hash[p]) : p \in moved}
    IN  IF ~SplitAllowed(x) \/ moved = {} THEN <<t, w>>
        ELSE <<[exists |-> t.exists \cup kids, router |-> t.router \cup {x},
                ids |-> [y \in CubePath |->
                   IF y = x THEN {}
                   ELSE IF y \in kids
                        THEN t.ids[y] \cup {p \in moved : Append(x, Hash[p]) = y}
                        ELSE t.ids[y]]], w>>

\* _split of a leaf: decide() allows it above the depth limit; splitNode deals
\* the projects out to the children by hash and bulkChangePath registers all
\* that these children now hold.
Split(t, w, x) ==
    LET moved == t.ids[x]
        kids  == {Append(x, Hash[p]) : p \in moved}
        ids   == [y \in CubePath |->
                   IF y = x THEN {}
                   ELSE IF y \in kids
                        THEN t.ids[y] \cup {p \in moved : Append(x, Hash[p]) = y}
                        ELSE t.ids[y]]
        Now(p) == {y \in kids : p \in ids[y]}
    IN  IF ~SplitAllowed(x) \/ moved = {} THEN <<t, w>>
        ELSE <<[exists |-> t.exists \cup kids, router |-> t.router \cup {x},
                ids |-> ids],
               [p \in Project |->
                   IF Now(p) # {} THEN CHOOSE y \in Now(p) : TRUE ELSE w[p]]>>

\* addProject and register (or changePath) of p at leaf x.
Put(t, w, p, x) == <<[t EXCEPT !.ids[x] = @ \cup {p}], [w EXCEPT ![p] = x]>>

\* _indexIntoRouter: into the child of the id's suffix, which is split when
\* it holds more than its threshold.  A child that is a router throws.
IntoRouter(t, w, p, x) ==
    LET y == Append(x, Suffix[p])
        g == Grown(t, y)
        q == Put(g, w, p, y)
    IN  IF y \in t.router THEN <<t, w>>
        ELSE IF Cardinality(q[1].ids[y]) > Threshold[Depth(y)]
             THEN Split(q[1], q[2], y) ELSE q

\* The rest of index() once the old place is left.  The condition for the
\* split reads `(count > allow) ? threshold : Infinity`, which is true for
\* every count when the policy allows a split.
Indexed(t, w, p, x) ==
    LET g == Grown(t, x)
        q == Put(g, w, p, x)
    IN  IF x \in t.router THEN IntoRouter(t, w, p, x)
        ELSE Split(q[1], q[2], x)

\* The rest of move(); a router as target throws.
Moved(t, w, p, x) ==
    LET g == Grown(t, x)
        q == Put(g, w, p, x)
    IN  IF x \in t.router THEN <<g, w>>
        ELSE IF Cardinality(q[1].ids[x]) > Threshold[Depth(x)]
             THEN Split(q[1], q[2], x) ELSE q

\* Mutant: the registry keeps the paths of the children.
MergeSilently(t, w, x) ==
    LET kids == Children(t, x)
        all  == t.ids[x] \cup UNION {t.ids[y] : y \in kids}
        gone == {y \in t.exists : \E k \in kids : IsPrefix(k, y)}
    IN  IF kids \cap t.router # {} THEN <<t, w>>
        ELSE <<[exists |-> t.exists \ gone, router |-> t.router \ {x},
                ids |-> [y \in CubePath |-> IF y = x THEN all
                                        ELSE IF y \in gone THEN {} ELSE t.ids[y]]], w>>

\* Mutant: the merged projects are taken out of the registry.
MergeUnregisters(t, w, x) ==
    LET m == MergeSilently(t, w, x) IN
    <<m[1], [p \in Project |-> IF m[1] # t /\ p \in m[1].ids[x] THEN NoPath ELSE w[p]]>>

\* mergeNode: a router whose children are all leaves takes their projects
\* and becomes a leaf; _removeFromPath then registers them there.
Merge(t, w, x) ==
    LET m == MergeSilently(t, w, x) IN
    IF m[1] = t THEN m
    ELSE <<m[1], [p \in Project |-> IF p \in m[1].ids[x] THEN x ELSE w[p]]>>

\* Mutant: only the registry forgets the project when its node is gone.
RemovedAnyway(t, w, p, x) ==
    <<[t EXCEPT !.exists = @ \cap CubePath], [w EXCEPT ![p] = NoPath]>>

\* What the children of a node hold between them.
HeldBelow(t, x) == MapThenSumSet(LAMBDA y : Cardinality(t.ids[y]), Children(t, x))

\* _removeFromPath: nothing if the node is gone; else the project leaves the
\* node and the registry, whatever the registry says of it by now, and the
\* parent is merged when its children hold too little.
RemovedFrom(t, w, p, x) ==
    LET t1 == [t EXCEPT !.ids[x] = @ \ {p}]
        w1 == [w EXCEPT ![p] = NoPath]
        up == SubSeq(x, 1, Len(x) - 1)
    IN  IF x \notin t.exists THEN <<t, w>>
        ELSE IF Depth(x) > 0 /\ up \in t.router /\ HeldBelow(t1, up) < MergeThreshold
             THEN Merge(t1, w1, up) ELSE <<t1, w1>>

Apply(q) == tree' = q[1] /\ where' = q[2]

-----------------------------------------------------------------------------
(* The locks: a request is <<call, 1 or 2>>.                               *)

Owns(o, i, x) == lockq[x] # <<>> /\ Head(lockq[x]) = <<o, i>>
Ask(q, o, i, x) == [q EXCEPT ![x] = Append(@, <<o, i>>)]
Unlock(q, x) == [q EXCEPT ![x] = Tail(@)]

InFlight(o) == op[o].pc \notin {"idle", "done"}
At(o, kind, pc) == op[o].kind = kind /\ op[o].pc = pc
Goto(o, pc) == op' = [op EXCEPT ![o].pc = pc]
Noted == UNCHANGED <<timedOut, overlapped>>

Begin(o, kind, p, from, to, q) ==
    /\ op[o].pc = "idle"
    /\ op' = [op EXCEPT ![o] = [kind |-> kind, p |-> p, from |-> from, to |-> to,
                                pc |-> "asked"]]
    /\ lockq' = q
    /\ overlapped' = (overlapped \/ \E u \in Op : InFlight(u))
    /\ UNCHANGED <<tree, where, timedOut>>

\* index(project): the target is the root cell of the project's coordinate.
CallIndex(o, p, r) == Begin(o, "index", p, NoPath, <<r>>, Ask(lockq, o, 1, <<r>>))

\* remove(id): the path is read before the lock is awaited.
CallRemove(o, p) ==
    /\ where[p] # NoPath
    /\ Begin(o, "remove", p, where[p], NoPath, Ask(lockq, o, 1, where[p]))

\* move(id, newPath): both locks are asked for at once, in this order.
CallMove(o, p, r) ==
    /\ where[p] # NoPath
    /\ Begin(o, "move", p, where[p], <<r>>,
             Ask(Ask(lockq, o, 1, where[p]), o, 2, <<r>>))

\* index() has its target: a project placed elsewhere must be taken from there.
IndexFindsOld(o) ==
    LET p == op[o].p IN
    /\ At(o, "index", "asked")
    /\ Owns(o, 1, op[o].to)
    /\ where[p] \notin {NoPath, op[o].to}
    /\ op' = [op EXCEPT ![o].from = where[p], ![o].pc = "askedOld"]
    /\ lockq' = Ask(lockq, o, 2, where[p])
    /\ UNCHANGED <<tree, where>> /\ Noted

IndexLeavesOld(o) ==
    /\ At(o, "index", "askedOld")
    /\ Owns(o, 2, op[o].from)
    /\ Apply(RemovedFrom(tree, where, op[o].p, op[o].from))
    /\ Goto(o, "left")
    /\ UNCHANGED lockq /\ Noted

\* The project is put in its place, at once if it had none.
IndexPlaces(o) ==
    /\ \/ /\ At(o, "index", "asked")
          /\ Owns(o, 1, op[o].to)
          /\ where[op[o].p] \in {NoPath, op[o].to}
          /\ UNCHANGED lockq
       \/ /\ At(o, "index", "left")
          /\ lockq' = Unlock(lockq, op[o].from)
    /\ Apply(Indexed(tree, where, op[o].p, op[o].to))
    /\ Goto(o, "placed")
    /\ Noted

RemoveRemoves(o) ==
    /\ At(o, "remove", "asked")
    /\ Owns(o, 1, op[o].from)
    /\ Apply(RemovedFrom(tree, where, op[o].p, op[o].from))
    /\ Goto(o, "placed")
    /\ UNCHANGED lockq /\ Noted

MoveLeaves(o) ==
    /\ At(o, "move", "asked")
    /\ Owns(o, 1, op[o].from)
    /\ Owns(o, 2, op[o].to)
    /\ Apply(RemovedFrom(tree, where, op[o].p, op[o].from))
    /\ Goto(o, "left")
    /\ UNCHANGED lockq /\ Noted

MovePlaces(o) ==
    /\ At(o, "move", "left")
    /\ Apply(Moved(tree, where, op[o].p, op[o].to))
    /\ Goto(o, "placed")
    /\ UNCHANGED lockq /\ Noted

\* Mutant: move gives back the lock of the old path only.
FinishHalf(o) ==
    /\ op[o].pc = "placed"
    /\ lockq' = IF op[o].kind = "index" THEN Unlock(lockq, op[o].to)
                ELSE Unlock(lockq, op[o].from)
    /\ Goto(o, "done")
    /\ UNCHANGED <<tree, where>> /\ Noted

\* The finally block: the call gives back its lock, move both of them.
Finish(o) ==
    /\ op[o].pc = "placed"
    /\ lockq' = CASE op[o].kind = "index"  -> Unlock(lockq, op[o].to)
                  [] op[o].kind = "remove" -> Unlock(lockq, op[o].from)
                  [] op[o].kind = "move"   -> Unlock(Unlock(lockq, op[o].from), op[o].to)
    /\ Goto(o, "done")
    /\ UNCHANGED <<tree, where>> /\ Noted

\* Mutant: no timer.
NeverTimesOut(o) == FALSE /\ UNCHANGED vars

\* A request that still waits for its lock times out and the call fails.  The
\* request stays in the queue.  index() gives its target back in a finally
\* block; move(), whose Promise.all has failed, gives back nothing.
TimesOut(o) ==
    \E i \in {1, 2}, x \in CubePath :
        /\ <<o, i>> \in {lockq[x][k] : k \in 2 .. Len(lockq[x])}
        /\ op[o].pc = IF op[o].kind = "index" /\ i = 2 THEN "askedOld" ELSE "asked"
        /\ Goto(o, IF op[o].pc = "askedOld" THEN "placed" ELSE "done")
        /\ timedOut' = TRUE
        /\ UNCHANGED <<tree, where, lockq, overlapped>>

Step(o) ==
    \/ IndexFindsOld(o) \/ IndexLeavesOld(o) \/ IndexPlaces(o)
    \/ RemoveRemoves(o) \/ MoveLeaves(o) \/ MovePlaces(o) \/ Finish(o)
    \/ TimesOut(o)

Call(o) ==
    \E p \in Project :
        \/ CallRemove(o, p)
        \/ \E r \in Root : CallIndex(o, p, r) \/ CallMove(o, p, r)

Next == \E o \in Op : Call(o) \/ Step(o)

Spec == Init /\ [][Next]_vars

-----------------------------------------------------------------------------
TypeOK ==
    /\ tree.exists \subseteq CubePath /\ tree.router \subseteq tree.exists
    /\ tree.ids \in [CubePath -> SUBSET Project]
    /\ where \in [Project -> CubePath \cup {NoPath}]
    /\ \A o \in Op : op[o].pc \in {"idle", "asked", "askedOld", "left", "placed", "done"}

\* However calls interleave, the registry never points to a place where the
\* project is not: the path of a registered project is a leaf of the tree that
\* holds it, through splits, merges and stale removals.
RegisteredIsPlaced ==
    \A p \in Project : where[p] # NoPath =>
        /\ where[p] \in tree.exists \ tree.router
        /\ p \in tree.ids[where[p]]

\* When calls never overlapped, nothing is in the tree that the registry does
\* not know: a project is in no node but the one it is registered at.
SerialCallsAgree ==
    ~overlapped /\ (\A o \in Op : ~InFlight(o)) =>
        \A p \in Project, x \in CubePath : p \in tree.ids[x] => where[p] = x

\* When all calls have ended and no request has timed out, no lock is held.
LocksComeBack ==
    ~timedOut /\ (\A o \in Op : ~InFlight(o)) => \A x \in CubePath : lockq[x] = <<>>

\* A split, a merge or the removal of a project never moves another project out
\* of the registry: only a call for a project itself takes it out.
OnlyOwnCallsUnregister ==
    [][\A p \in Project : where[p] # NoPath /\ where'[p] = NoPath =>
          \E o \in Op : op[o].p = p /\ op'[o].pc # op[o].pc]_vars

\* Every call ends: two moves in opposite directions, or one onto the path the
\* project already has, wait for each other until a timer fires.
CallsEnd == (\E o \in Op : InFlight(o)) ~> (\A o \in Op : ~InFlight(o))
=============================================================================
