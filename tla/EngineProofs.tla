--------------------------- MODULE EngineProofs -----------------------------
(***************************************************************************)
(* Theorems about the engines of one process: FractalCube here, CubeCells, *)
(* Pulse and EventBus below, under the names Flat, Ranks and Bus.          *)
(***************************************************************************)
EXTENDS FractalCube, FiniteSetTheorems, TLAPS

CONSTANTS Shelved, Cell, MaxPerCell, NoCell  \* of CubeCells
VARIABLES cells, projectIndex
Flat == INSTANCE CubeCells WITH Project <- Shelved

CONSTANTS Listed, Order, Merit, GapCap, CountCap, PenaltyWeight, BanPenalty, MaxEntries,
          MaxConsecutiveTop, DemoteSteps, MaxPulse, MaxTicks, NoRecord, NoProject  \* of Pulse
VARIABLES running, ticking, tickPulse, source, pulse, fairness, archived, shown, shownPulse,
          saved, ticks, streak
Ranks == INSTANCE Pulse WITH Project <- Listed

CONSTANTS Key, NoKey, MaxProcessedKeys, EvictBatch, MaxLogSize, MaxEvents  \* of EventBus
VARIABLES fifo, processing, current, keys, log, emitted, evicted, seen
Bus == INSTANCE EventBus

\* What the proofs ask of the constants: the two hashes give buckets, and the
\* registry answers undefined for a project it does not hold.
CubeAssumption ==
    /\ Hash \in [Project -> Bucket] /\ Suffix \in [Project -> Bucket]
    /\ HardDepthLimit \in Nat
    /\ NoPath \notin CubePath

-----------------------------------------------------------------------------
(* Paths.                                                                  *)

Part == Root \cup Bucket

LEMMA SequenceIsFunction ==
    ASSUME NEW S, NEW s \in Seq(S)
    PROVE  s \in [1 .. Len(s) -> S]
    OBVIOUS

Level(d) == {<<r>> \o s : r \in Root, s \in [1 .. d -> Bucket]}

LEMMA Levels ==
    ASSUME NEW x
    PROVE  /\ x \in CubePath <=> \E d \in 0 .. HardDepthLimit : x \in Level(d)
           /\ \A d : x \in Level(d) <=>
                 \E r \in Root : \E s \in [1 .. d -> Bucket] : x = <<r>> \o s
<1>1. CubePath = UNION {Level(d) : d \in 0 .. HardDepthLimit}
    BY DEF CubePath, Level
<1>2. x \in CubePath <=> \E d \in 0 .. HardDepthLimit : x \in Level(d)
    BY <1>1
<1>3. ASSUME NEW d
      PROVE  x \in Level(d) <=> \E r \in Root : \E s \in [1 .. d -> Bucket] : x = <<r>> \o s
    BY DEF Level
<1>. QED BY <1>2, <1>3

LEMMA PathShape ==
    ASSUME NEW x \in CubePath, CubeAssumption
    PROVE  x \in Seq(Part) /\ Len(x) \in 1 .. HardDepthLimit + 1
<1>1. PICK d \in 0 .. HardDepthLimit : x \in Level(d)
    BY Levels
<1>2. PICK r \in Root : \E s \in [1 .. d -> Bucket] : x = <<r>> \o s
    BY <1>1, Levels
<1>3. PICK s \in [1 .. d -> Bucket] : x = <<r>> \o s
    BY <1>2
<1>4. s \in Seq(Part) /\ Len(s) = d /\ d \in Nat
    BY DEF Part, CubeAssumption
<1>5. <<r>> \in Seq(Part) /\ Len(<<r>>) = 1
    BY DEF Part
<1>. QED BY <1>3, <1>4, <1>5 DEF CubeAssumption

LEMMA RootIsPath ==
    ASSUME NEW r \in Root, CubeAssumption
    PROVE  <<r>> \in CubePath
<1>1. << >> \in [1 .. 0 -> Bucket] /\ <<r>> = <<r>> \o << >>
    OBVIOUS
<1>2. <<r>> \in Level(0)
    BY <1>1, Levels
<1>. QED BY <1>2, Levels DEF CubeAssumption

LEMMA ChildIsPath ==
    ASSUME NEW x \in CubePath, NEW b \in Bucket, SplitAllowed(x), CubeAssumption
    PROVE  Append(x, b) \in CubePath
<1>1. PICK d \in 0 .. HardDepthLimit : x \in Level(d)
    BY Levels
<1>2. PICK r \in Root : \E s \in [1 .. d -> Bucket] : x = <<r>> \o s
    BY <1>1, Levels
<1>3. PICK s \in [1 .. d -> Bucket] : x = <<r>> \o s
    BY <1>2
<1>4. s \in Seq(Bucket) /\ Len(s) = d /\ d \in Nat
    BY DEF CubeAssumption
<1>5. Len(x) = d + 1
    BY <1>3, <1>4
<1>6. d + 1 \in 0 .. HardDepthLimit
    BY <1>4, <1>5 DEF SplitAllowed, Depth, CubeAssumption
<1>7. Append(s, b) \in [1 .. d + 1 -> Bucket]
  <2>1. Append(s, b) \in Seq(Bucket) /\ Len(Append(s, b)) = d + 1
      BY <1>4
  <2>. QED BY <2>1, SequenceIsFunction
<1>8. Append(x, b) = <<r>> \o Append(s, b)
    BY <1>3, <1>4
<1>9. Append(x, b) \in Level(d + 1)
    BY <1>7, <1>8, Levels
<1>. QED BY <1>6, <1>9, Levels

\* The prefixes of a child are its parent and the parent's.
LEMMA ChildPrefixes ==
    ASSUME NEW S, NEW x \in Seq(S), NEW b \in S
    PROVE  /\ Append(x, b) \in Seq(S) /\ Len(Append(x, b)) = Len(x) + 1
           /\ \A k \in 1 .. Len(x) : SubSeq(Append(x, b), 1, k) = SubSeq(x, 1, k)
           /\ SubSeq(Append(x, b), 1, Len(x) + 1) = Append(x, b)
           /\ SubSeq(x, 1, Len(x)) = x
    OBVIOUS

LEMMA PrefixOf ==
    ASSUME NEW S, NEW x \in Seq(S), NEW y \in Seq(S), IsPrefix(x, y)
    PROVE  /\ Len(x) <= Len(y) /\ SubSeq(y, 1, Len(x)) = x
           /\ Len(x) = Len(y) => x = y
    BY DEF IsPrefix

-----------------------------------------------------------------------------
(* What every operation of the tree keeps, of a tree t and a registry w.    *)

\* The nodes above a node are routers, and a router could be split.
Rooted(t) ==
    /\ t \in [exists : SUBSET CubePath, router : SUBSET CubePath,
              ids : [CubePath -> SUBSET Project]]
    /\ t.router \subseteq t.exists
    /\ \A x \in t.router : SplitAllowed(x)
    /\ \A y \in t.exists : \A k \in 1 .. Len(y) - 1 : SubSeq(y, 1, k) \in t.router

\* What is registered is in the leaf of its path.
WellPlaced(t, w) ==
    /\ Rooted(t)
    /\ w \in [Project -> CubePath \cup {NoPath}]
    /\ \A p \in Project : w[p] # NoPath =>
           w[p] \in t.exists \ t.router /\ p \in t.ids[w[p]]

\* What is in a node is registered there.
Agreed(t, w) == \A p \in Project, x \in CubePath : p \in t.ids[x] => w[p] = x

\* From q to u, both pairs: nothing of this is lost and nobody leaves the registry.
Kept(q, u) ==
    /\ WellPlaced(u[1], u[2])
    /\ Agreed(q[1], q[2]) => Agreed(u[1], u[2])
    /\ \A p \in Project : q[2][p] # NoPath => u[2][p] # NoPath

\* A node whose parent routers are there may be created.
LEMMA GrownKeeps ==
    ASSUME CubeAssumption, NEW t, NEW w, WellPlaced(t, w), NEW x \in CubePath,
           \A k \in 1 .. Len(x) - 1 : SubSeq(x, 1, k) \in t.router
    PROVE  /\ Kept(<<t, w>>, <<Grown(t, x), w>>)
           /\ x \in Grown(t, x).exists
           /\ Grown(t, x).router = t.router /\ Grown(t, x).ids = t.ids
<1> DEFINE g == Grown(t, x)
<1>1. x \in Seq(Part) /\ Len(x) \in Nat /\ Len(x) >= 1
    BY PathShape DEF CubeAssumption
<1>2. SubSeq(x, 1, Len(x)) = x
    BY <1>1
<1> DEFINE above == {SubSeq(x, 1, k) : k \in 1 .. Len(x)}
<1>3. above \subseteq t.router \cup {x}
  <2>1. ASSUME NEW k \in 1 .. Len(x) PROVE SubSeq(x, 1, k) \in t.router \cup {x}
    <3>1. k \in 1 .. Len(x) - 1 \/ k = Len(x)
        BY <1>1
    <3>. QED BY <1>2, <3>1
  <2>. QED BY <2>1
<1>4. x \in above
  <2>1. Len(x) \in 1 .. Len(x)
      BY <1>1
  <2>. QED BY <1>2, <2>1
<1>5. /\ g.exists = t.exists \cup {x} /\ g.router = t.router /\ g.ids = t.ids
      /\ g \in [exists : SUBSET CubePath, router : SUBSET CubePath,
                ids : [CubePath -> SUBSET Project]]
    BY <1>3, <1>4 DEF Grown, WellPlaced, Rooted
<1> HIDE DEF g
<1>6. Rooted(g)
    BY <1>5 DEF WellPlaced, Rooted
<1>7. WellPlaced(g, w) /\ (Agreed(t, w) => Agreed(g, w))
    BY <1>5, <1>6 DEF WellPlaced, Agreed
<1>. QED BY <1>5, <1>7 DEF Kept, g

\* A project put into a leaf is registered there; tree and registry still agree if
\* it was nowhere else.
LEMMA PutKeeps ==
    ASSUME CubeAssumption, NEW t, NEW w, WellPlaced(t, w), NEW p \in Project,
           NEW x \in t.exists \ t.router
    PROVE  LET q == Put(t, w, p, x) IN
           /\ WellPlaced(q[1], q[2])
           /\ Agreed(t, w) /\ w[p] \in {NoPath, x} => Agreed(q[1], q[2])
           /\ \A o \in Project : w[o] # NoPath \/ o = p => q[2][o] # NoPath
           /\ q[1].exists = t.exists /\ q[1].router = t.router
<1> DEFINE u == [t EXCEPT !.ids[x] = @ \cup {p}]
           v == [w EXCEPT ![p] = x]
<1>1. x \in CubePath /\ x # NoPath
    BY DEF WellPlaced, Rooted, CubeAssumption
<1>2. /\ u.exists = t.exists /\ u.router = t.router
      /\ u \in [exists : SUBSET CubePath, router : SUBSET CubePath,
                ids : [CubePath -> SUBSET Project]]
      /\ \A y \in CubePath : u.ids[y] = IF y = x THEN t.ids[x] \cup {p} ELSE t.ids[y]
    BY <1>1 DEF WellPlaced, Rooted
<1>3. /\ v \in [Project -> CubePath \cup {NoPath}]
      /\ \A o \in Project : v[o] = IF o = p THEN x ELSE w[o]
    BY <1>1 DEF WellPlaced
<1> HIDE DEF u, v
<1>4. Rooted(u)
    BY <1>2 DEF WellPlaced, Rooted
<1>5. WellPlaced(u, v)
    BY <1>1, <1>2, <1>3, <1>4 DEF WellPlaced, Rooted
<1>6. ASSUME Agreed(t, w), w[p] \in {NoPath, x} PROVE Agreed(u, v)
  <2> SUFFICES ASSUME NEW o \in Project, NEW y \in CubePath, o \in u.ids[y] PROVE v[o] = y
      BY DEF Agreed
  <2>1. CASE o = p
    <3>1. y # x => p \in t.ids[y]
        BY <1>2, <2>1
    <3>. QED BY <1>1, <1>3, <1>6, <2>1, <3>1 DEF Agreed, CubeAssumption
  <2>2. CASE o # p
      BY <1>2, <1>3, <1>6, <2>2 DEF Agreed
  <2>. QED BY <2>1, <2>2
<1>. QED BY <1>1, <1>2, <1>3, <1>5, <1>6 DEF Put, u, v

\* A split carries the projects of a leaf over to new leaves and registers them there.
LEMMA SplitKeeps ==
    ASSUME CubeAssumption, NEW t, NEW w, WellPlaced(t, w), NEW x \in t.exists \ t.router
    PROVE  Kept(<<t, w>>, Split(t, w, x))
<1> DEFINE moved == t.ids[x]
           kids  == {Append(x, Hash[p]) : p \in moved}
           ids   == [y \in CubePath |->
                       IF y = x THEN {}
                       ELSE IF y \in kids
                            THEN t.ids[y] \cup {p \in moved : Append(x, Hash[p]) = y}
                            ELSE t.ids[y]]
           Now(p) == {y \in kids : p \in ids[y]}
           u == [exists |-> t.exists \cup kids, router |-> t.router \cup {x}, ids |-> ids]
           v == [p \in Project |-> IF Now(p) # {} THEN CHOOSE y \in Now(p) : TRUE ELSE w[p]]
<1>1. CASE ~SplitAllowed(x) \/ moved = {}
  <2>1. Split(t, w, x) = <<t, w>>
      BY <1>1 DEF Split
  <2>. QED BY <2>1 DEF Kept
<1>2. CASE SplitAllowed(x) /\ moved # {}
  <2>1. Split(t, w, x) = <<u, v>>
      BY <1>2 DEF Split
  <2>2. /\ x \in CubePath /\ moved \subseteq Project
        /\ x \in Seq(Part) /\ Len(x) \in Nat /\ Len(x) >= 1
    <3>1. x \in CubePath /\ moved \subseteq Project
        BY DEF WellPlaced, Rooted
    <3>. QED BY <3>1, PathShape DEF CubeAssumption
  <2>3. \A b \in Bucket :
           /\ Append(x, b) \in CubePath /\ Append(x, b) # x
           /\ Len(Append(x, b)) = Len(x) + 1
           /\ \A k \in 1 .. Len(x) : SubSeq(Append(x, b), 1, k) = SubSeq(x, 1, k)
           /\ SubSeq(x, 1, Len(x)) = x
    <3> SUFFICES ASSUME NEW b \in Bucket
                 PROVE  /\ Append(x, b) \in CubePath /\ Append(x, b) # x
                        /\ Len(Append(x, b)) = Len(x) + 1
                        /\ \A k \in 1 .. Len(x) : SubSeq(Append(x, b), 1, k) = SubSeq(x, 1, k)
                        /\ SubSeq(x, 1, Len(x)) = x
        OBVIOUS
    <3>1. Append(x, b) \in CubePath
        BY <1>2, <2>2, ChildIsPath
    <3>2. b \in Part
        BY DEF Part
    <3>3. /\ Len(Append(x, b)) = Len(x) + 1
          /\ \A k \in 1 .. Len(x) : SubSeq(Append(x, b), 1, k) = SubSeq(x, 1, k)
          /\ SubSeq(x, 1, Len(x)) = x
        BY <2>2, <3>2, ChildPrefixes
    <3>4. Append(x, b) # x
      <4>1. Len(Append(x, b)) = Len(x) + 1
          BY <3>3
      <4>2. Len(x) + 1 # Len(x)
          BY <2>2
      <4>. QED BY <4>1, <4>2
    <3>. QED BY <3>1, <3>3, <3>4
  <2>4. \A p \in moved : Hash[p] \in Bucket
      BY <2>2 DEF CubeAssumption
  <2>5. /\ kids \subseteq CubePath /\ x \notin kids
        /\ \A y \in kids : /\ Len(y) = Len(x) + 1
                           /\ \A k \in 1 .. Len(x) : SubSeq(y, 1, k) = SubSeq(x, 1, k)
      BY <2>3, <2>4
  <2>6. SubSeq(x, 1, Len(x)) = x
      BY <2>2
  <2>7. kids \cap t.exists = {}
    <3> SUFFICES ASSUME NEW y \in kids, y \in t.exists PROVE FALSE
        OBVIOUS
    <3>0. Len(x) \in 1 .. Len(x) /\ Len(y) = Len(x) + 1
        BY <2>2, <2>5
    <3>1. SubSeq(y, 1, Len(x)) = x
        BY <2>5, <2>6, <3>0
    <3>2. Len(x) \in 1 .. Len(y) - 1
        BY <2>2, <3>0
    <3>. QED BY <3>1, <3>2 DEF WellPlaced, Rooted
  <2>8. ids \in [CubePath -> SUBSET Project]
      BY <2>2 DEF WellPlaced, Rooted
  <2> HIDE DEF kids
  <2>9. Rooted(u)
    <3>1. u \in [exists : SUBSET CubePath, router : SUBSET CubePath,
                 ids : [CubePath -> SUBSET Project]]
        BY <2>2, <2>5, <2>8 DEF WellPlaced, Rooted
    <3>2. /\ u.router \subseteq u.exists
          /\ \A y \in u.router : SplitAllowed(y)
        BY <1>2 DEF WellPlaced, Rooted
    <3>3. ASSUME NEW y \in u.exists, NEW k \in 1 .. Len(y) - 1
          PROVE  SubSeq(y, 1, k) \in u.router
      <4>1. CASE y \in t.exists
          BY <4>1 DEF WellPlaced, Rooted
      <4>2. CASE y \in kids
        <5>1. k \in 1 .. Len(x) /\ SubSeq(y, 1, k) = SubSeq(x, 1, k)
            BY <2>2, <2>5, <4>2
        <5>2. CASE k = Len(x)
            BY <2>6, <5>1, <5>2
        <5>3. CASE k # Len(x)
          <6>1. k \in 1 .. Len(x) - 1
              BY <2>2, <5>1, <5>3
          <6>. QED BY <5>1, <6>1 DEF WellPlaced, Rooted
        <5>. QED BY <5>2, <5>3
      <4>. QED BY <4>1, <4>2
    <3>. QED BY <3>1, <3>2, <3>3 DEF Rooted
  <2>10. \A p \in moved : Append(x, Hash[p]) \in Now(p)
    <3> SUFFICES ASSUME NEW p \in moved PROVE Append(x, Hash[p]) \in Now(p)
        OBVIOUS
    <3>1. Append(x, Hash[p]) \in kids
        BY DEF kids
    <3>. QED BY <2>5, <3>1
  <2>11. \A p \in Project : /\ Now(p) # {} => v[p] \in Now(p)
                            /\ Now(p) = {} => v[p] = w[p]
      OBVIOUS
  <2>12. \A p \in Project : Now(p) \subseteq kids /\ \A y \in Now(p) : p \in ids[y]
      OBVIOUS
  <2>13. \A y \in CubePath : /\ y \notin kids /\ y # x => ids[y] = t.ids[y]
                             /\ y = x => ids[y] = {}
                             /\ y \in kids => ids[y] =
                                  t.ids[y] \cup {p \in moved : Append(x, Hash[p]) = y}
      BY <2>5
  <2> HIDE DEF Now, v, ids, moved
  <2>14. WellPlaced(u, v)
    <3>1. v \in [Project -> CubePath \cup {NoPath}]
      <4>1. \A p \in Project : v[p] \in CubePath \cup {NoPath}
          BY <2>5, <2>11, <2>12 DEF WellPlaced
      <4>. QED BY <4>1 DEF v
    <3>2. ASSUME NEW p \in Project, v[p] # NoPath
          PROVE  v[p] \in u.exists \ u.router /\ p \in u.ids[v[p]]
      <4>1. CASE Now(p) # {}
          BY <2>5, <2>7, <2>11, <2>12, <4>1 DEF WellPlaced, Rooted
      <4>2. CASE Now(p) = {}
        <5>1. v[p] = w[p] /\ w[p] \in t.exists \ t.router /\ p \in t.ids[w[p]]
            BY <2>11, <3>2, <4>2 DEF WellPlaced
        <5>2. w[p] # x
            BY <2>10, <4>2, <5>1 DEF moved
        <5>3. w[p] \in CubePath /\ w[p] \notin kids
            BY <2>7, <5>1 DEF WellPlaced, Rooted
        <5>. QED BY <2>13, <5>1, <5>2, <5>3
      <4>. QED BY <4>1, <4>2
    <3>. QED BY <2>9, <3>1, <3>2 DEF WellPlaced
  <2>15. ASSUME Agreed(t, w) PROVE Agreed(u, v)
    <3>1. ASSUME NEW p \in Project, NEW y \in CubePath, p \in ids[y], y \in kids
          PROVE  p \in moved /\ y = Append(x, Hash[p])
      <4>1. y \notin t.exists
          BY <2>7, <3>1
      <4>2. p \notin t.ids[y]
          BY <2>15, <4>1 DEF Agreed, WellPlaced, CubeAssumption
      <4>. QED BY <2>13, <3>1, <4>2
    <3> SUFFICES ASSUME NEW p \in Project, NEW y \in CubePath, p \in ids[y] PROVE v[p] = y
        BY DEF Agreed
    <3>2. CASE y \in kids
      <4>1. Now(p) = {y}
        <5>1. y \in Now(p)
            BY <3>2 DEF Now
        <5>2. \A z \in Now(p) : z = y
            BY <2>5, <2>12, <3>1, <3>2
        <5>. QED BY <5>1, <5>2
      <4>. QED BY <2>11, <4>1
    <3>3. CASE y \notin kids
      <4>1. p \in t.ids[y] /\ y # x /\ w[p] = y
          BY <2>13, <2>15, <3>3 DEF Agreed
      <4>2. Now(p) = {}
        <5> SUFFICES ASSUME NEW z \in Now(p) PROVE FALSE
            OBVIOUS
        <5>1. p \in moved
            BY <2>5, <2>12, <3>1
        <5>2. w[p] = x
            BY <2>2, <2>15, <5>1 DEF Agreed, moved
        <5>. QED BY <4>1, <5>2
      <4>. QED BY <2>11, <4>1, <4>2
    <3>. QED BY <3>2, <3>3
  <2>16. \A p \in Project : w[p] # NoPath => v[p] # NoPath
      BY <2>5, <2>11, <2>12 DEF CubeAssumption
  <2>. QED BY <2>1, <2>14, <2>15, <2>16 DEF Kept
<1>. QED BY <1>1, <1>2

\* The children of a node, when none is a router, are all that is below it.
LEMMA LeavesBelow ==
    ASSUME CubeAssumption, NEW t, Rooted(t), NEW x \in t.router,
           Children(t, x) \cap t.router = {}
    PROVE  /\ {y \in t.exists : \E k \in Children(t, x) : IsPrefix(k, y)} = Children(t, x)
           /\ x \notin Children(t, x)
           /\ \A y \in t.exists \ Children(t, x) : \A k \in 1 .. Len(y) - 1 : SubSeq(y, 1, k) # x
<1> DEFINE kids == Children(t, x)
<1>1. /\ t.exists \subseteq CubePath /\ t.router \subseteq t.exists
      /\ \A y \in t.exists : \A k \in 1 .. Len(y) - 1 : SubSeq(y, 1, k) \in t.router
    BY DEF Rooted
<1>2. \A y \in t.exists : y \in Seq(Part) /\ Len(y) \in Nat /\ Len(y) >= 1
    BY <1>1, PathShape DEF CubeAssumption
<1>3. \A y : y \in kids <=> y \in t.exists /\ Len(y) = Len(x) + 1 /\ IsPrefix(x, y)
    BY DEF Children
<1>4. x \in t.exists /\ Len(x) \in Nat
    BY <1>1, <1>2
<1>5. x \notin kids
  <2>1. Len(x) # Len(x) + 1
      BY <1>4
  <2>. QED BY <1>3, <2>1
<1>6. ASSUME NEW y \in t.exists, NEW k \in kids, IsPrefix(k, y) PROVE y \in kids
  <2>1. k \in Seq(Part) /\ y \in Seq(Part) /\ Len(k) \in Nat /\ Len(y) \in Nat /\ Len(k) >= 1
      BY <1>2, <1>3
  <2>2. /\ Len(k) <= Len(y) /\ SubSeq(y, 1, Len(k)) = k
        /\ Len(k) = Len(y) => k = y
      BY <1>6, <2>1, PrefixOf
  <2>3. CASE Len(k) = Len(y)
      BY <2>2, <2>3
  <2>4. CASE Len(k) # Len(y)
    <3>1. Len(k) \in 1 .. Len(y) - 1
        BY <2>1, <2>2, <2>4
    <3>2. k \in t.router
        BY <1>1, <2>2, <3>1
    <3>. QED BY <3>2
  <2>. QED BY <2>3, <2>4
<1>7. ASSUME NEW k \in kids PROVE IsPrefix(k, k)
  <2>1. k \in Seq(Part)
      BY <1>2, <1>3
  <2>. QED BY <2>1 DEF IsPrefix
<1>8. ASSUME NEW y \in t.exists \ kids, NEW k \in 1 .. Len(y) - 1, SubSeq(y, 1, k) = x
      PROVE  FALSE
  <2>1. y \in Seq(Part) /\ Len(y) \in Nat
      BY <1>2
  <2>2. k \in 1 .. Len(y) /\ k + 1 \in 1 .. Len(y)
      BY <2>1
  <2>3. Len(x) = k
      BY <1>8, <2>1, <2>2
  <2> DEFINE z == SubSeq(y, 1, k + 1)
  <2>4. /\ z \in Seq(Part) /\ Len(z) = k + 1 /\ SubSeq(z, 1, k) = SubSeq(y, 1, k)
        /\ SubSeq(x, 1, k) = x
      BY <1>2, <1>4, <2>1, <2>2, <2>3
  <2>5. z \in t.router \/ z = y
    <3>1. CASE k + 1 \in 1 .. Len(y) - 1
        BY <1>1, <3>1
    <3>2. CASE k + 1 = Len(y)
      <4>1. SubSeq(y, 1, Len(y)) = y
          BY <2>1
      <4>. QED BY <3>2, <4>1
    <3>. QED BY <2>1, <2>2, <3>1, <3>2
  <2> HIDE DEF z
  <2>6. IsPrefix(x, z)
      BY <1>8, <2>1, <2>2, <2>3, <2>4 DEF IsPrefix
  <2>7. z \in kids
      BY <1>1, <1>3, <2>3, <2>4, <2>5, <2>6
  <2>. QED BY <2>5, <2>7
<1>. QED BY <1>3, <1>5, <1>6, <1>7, <1>8

\* A merge gives the projects of the children to their router, which becomes a leaf
\* they are registered at.
LEMMA MergeKeeps ==
    ASSUME CubeAssumption, NEW t, NEW w, WellPlaced(t, w), NEW x \in t.router
    PROVE  /\ Kept(<<t, w>>, Merge(t, w, x))
           /\ \A p \in Project : (\A y \in CubePath : p \notin t.ids[y]) =>
                  Merge(t, w, x)[2][p] = w[p]
<1> DEFINE kids == Children(t, x)
           all  == t.ids[x] \cup UNION {t.ids[y] : y \in kids}
           gone == {y \in t.exists : \E k \in kids : IsPrefix(k, y)}
           ids  == [y \in CubePath |-> IF y = x THEN all
                                       ELSE IF y \in gone THEN {} ELSE t.ids[y]]
           u == [exists |-> t.exists \ gone, router |-> t.router \ {x}, ids |-> ids]
           v == [p \in Project |-> IF p \in u.ids[x] THEN x ELSE w[p]]
<1>0. x \in CubePath /\ kids \subseteq CubePath /\ x # NoPath
    BY DEF WellPlaced, Rooted, Children, CubeAssumption
<1>1. CASE kids \cap t.router # {}
  <2>1. Merge(t, w, x) = <<t, w>>
      BY <1>1 DEF Merge, MergeSilently
  <2>. QED BY <2>1 DEF Kept
<1>2. CASE kids \cap t.router = {}
  <2>1. MergeSilently(t, w, x) = <<u, w>>
      BY <1>2 DEF MergeSilently
  <2>2. u # t
    <3>1. x \notin u.router
        OBVIOUS
    <3>. QED BY <3>1
  <2>3. Merge(t, w, x) = <<u, v>>
    <3>1. ASSUME NEW z, MergeSilently(t, w, x) = <<z, w>>, z # t
          PROVE  Merge(t, w, x) = <<z, [p \in Project |-> IF p \in z.ids[x] THEN x ELSE w[p]]>>
        BY <3>1 DEF Merge
    <3>. HIDE DEF u
    <3>. QED BY <2>1, <2>2, <3>1
  <2>4. /\ gone = kids /\ x \notin kids
        /\ \A y \in t.exists \ kids : \A k \in 1 .. Len(y) - 1 : SubSeq(y, 1, k) # x
      BY <1>2, LeavesBelow DEF WellPlaced
  <2>5. /\ all \subseteq Project
        /\ ids \in [CubePath -> SUBSET Project]
        /\ ids[x] = all
        /\ \A y \in kids : ids[y] = {} /\ t.ids[y] \subseteq all
        /\ \A y \in CubePath : y # x /\ y \notin kids => ids[y] = t.ids[y]
      BY <1>0, <2>4 DEF WellPlaced, Rooted
  <2>6. \A p \in all : \E y \in CubePath : p \in t.ids[y] /\ (y = x \/ y \in kids)
      BY <1>0
  <2>7. /\ u.exists = t.exists \ kids /\ u.router = t.router \ {x} /\ u.ids = ids
        /\ v = [p \in Project |-> IF p \in all THEN x ELSE w[p]]
      BY <2>4, <2>5
  <2>8. t.ids[x] \subseteq all
      OBVIOUS
  <2> HIDE DEF kids, all, gone, ids
  <2>9. Rooted(u)
    <3>1. u \in [exists : SUBSET CubePath, router : SUBSET CubePath,
                 ids : [CubePath -> SUBSET Project]]
        BY <2>5 DEF WellPlaced, Rooted
    <3>2. u.router \subseteq u.exists /\ \A y \in u.router : SplitAllowed(y)
        BY <1>2, <2>7 DEF WellPlaced, Rooted
    <3>3. \A y \in u.exists : \A k \in 1 .. Len(y) - 1 : SubSeq(y, 1, k) \in u.router
        BY <2>4, <2>7 DEF WellPlaced, Rooted
    <3>. QED BY <3>1, <3>2, <3>3 DEF Rooted
  <2> HIDE DEF u, v
  <2>10. ASSUME NEW p \in Project, p \notin all, w[p] # NoPath
         PROVE  w[p] \in CubePath /\ w[p] # x /\ w[p] \notin kids
                /\ w[p] \in t.exists \ t.router /\ p \in t.ids[w[p]]
    <3>1. w[p] \in t.exists \ t.router /\ p \in t.ids[w[p]]
        BY <2>10 DEF WellPlaced
    <3>. QED BY <2>5, <2>10, <3>1 DEF WellPlaced, Rooted
  <2>11. WellPlaced(u, v)
    <3>1. v \in [Project -> CubePath \cup {NoPath}]
        BY <1>0, <2>7 DEF WellPlaced
    <3>2. ASSUME NEW p \in Project, v[p] # NoPath
          PROVE  v[p] \in u.exists \ u.router /\ p \in u.ids[v[p]]
      <4>1. CASE p \in all
          BY <2>4, <2>5, <2>7, <4>1 DEF WellPlaced, Rooted
      <4>2. CASE p \notin all
          BY <2>5, <2>7, <2>10, <3>2, <4>2
      <4>. QED BY <4>1, <4>2
    <3>. QED BY <2>9, <3>1, <3>2 DEF WellPlaced
  <2>12. ASSUME Agreed(t, w) PROVE Agreed(u, v)
    <3> SUFFICES ASSUME NEW p \in Project, NEW y \in CubePath, p \in u.ids[y] PROVE v[p] = y
        BY DEF Agreed
    <3>1. CASE y = x
        BY <2>5, <2>7, <3>1
    <3>2. CASE y # x
      <4>1. y \notin kids /\ p \in t.ids[y] /\ w[p] = y
          BY <2>5, <2>7, <2>12, <3>2 DEF Agreed
      <4>2. p \notin all
          BY <2>6, <2>12, <3>2, <4>1 DEF Agreed
      <4>. QED BY <2>7, <4>1, <4>2
    <3>. QED BY <3>1, <3>2
  <2>13. \A p \in Project : /\ w[p] # NoPath => v[p] # NoPath
                            /\ (\A y \in CubePath : p \notin t.ids[y]) => v[p] = w[p]
      BY <1>0, <2>6, <2>7
  <2>. QED BY <2>3, <2>11, <2>12, <2>13 DEF Kept
<1>. QED BY <1>1, <1>2

\* _removeFromPath takes the project out of the node, and nobody else out of the registry.
LEMMA RemovedKeeps ==
    ASSUME CubeAssumption, NEW t, NEW w, WellPlaced(t, w), NEW p \in Project, NEW x \in CubePath
    PROVE  LET u == RemovedFrom(t, w, p, x) IN
           /\ WellPlaced(u[1], u[2])
           /\ \A o \in Project \ {p} : w[o] # NoPath => u[2][o] # NoPath
           /\ Agreed(t, w) /\ w[p] = x => Agreed(u[1], u[2]) /\ u[2][p] = NoPath
<1> DEFINE t1 == [t EXCEPT !.ids[x] = @ \ {p}]
           w1 == [w EXCEPT ![p] = NoPath]
           up == SubSeq(x, 1, Len(x) - 1)
           u  == RemovedFrom(t, w, p, x)
<1>1. CASE x \notin t.exists
  <2>1. u = <<t, w>>
      BY <1>1 DEF RemovedFrom
  <2>2. w[p] # x
      BY <1>1 DEF WellPlaced, CubeAssumption
  <2>. QED BY <2>1, <2>2
<1>2. CASE x \in t.exists
  <2>1. u = <<t1, w1>> \/ (up \in t.router /\ u = Merge(t1, w1, up))
    <3>1. u = IF x \notin t.exists THEN <<t, w>>
              ELSE IF Depth(x) > 0 /\ up \in t.router /\ HeldBelow(t1, up) < MergeThreshold
                   THEN Merge(t1, w1, up) ELSE <<t1, w1>>
        BY DEF RemovedFrom
    <3>. HIDE DEF u, t1, w1, up
    <3>. QED BY <1>2, <3>1
  <2>2. /\ t1.exists = t.exists /\ t1.router = t.router
        /\ t1 \in [exists : SUBSET CubePath, router : SUBSET CubePath,
                   ids : [CubePath -> SUBSET Project]]
        /\ \A y \in CubePath : t1.ids[y] = IF y = x THEN t.ids[x] \ {p} ELSE t.ids[y]
      BY DEF WellPlaced, Rooted
  <2>3. /\ w1 \in [Project -> CubePath \cup {NoPath}]
        /\ \A o \in Project : w1[o] = IF o = p THEN NoPath ELSE w[o]
      BY DEF WellPlaced
  <2> HIDE DEF t1, w1, u
  <2>4. Rooted(t1)
      BY <2>2 DEF WellPlaced, Rooted
  <2>5. WellPlaced(t1, w1)
      BY <2>2, <2>3, <2>4 DEF WellPlaced, Rooted
  <2>6. ASSUME Agreed(t, w), w[p] = x
        PROVE  Agreed(t1, w1) /\ \A y \in CubePath : p \notin t1.ids[y]
    <3>1. \A y \in CubePath : p \notin t1.ids[y]
        BY <2>2, <2>6 DEF Agreed
    <3>2. \A o \in Project, y \in CubePath : o \in t1.ids[y] => o # p /\ o \in t.ids[y]
        BY <2>2, <3>1
    <3>. QED BY <2>3, <2>6, <3>1, <3>2 DEF Agreed
  <2>7. CASE u = <<t1, w1>>
      BY <2>3, <2>5, <2>6, <2>7 DEF u
  <2>8. CASE up \in t.router /\ u = Merge(t1, w1, up)
    <3>1. /\ Kept(<<t1, w1>>, u)
          /\ \A o \in Project : (\A y \in CubePath : o \notin t1.ids[y]) => u[2][o] = w1[o]
        BY <2>2, <2>5, <2>8, MergeKeeps
    <3>2. /\ WellPlaced(u[1], u[2])
          /\ \A o \in Project \ {p} : w[o] # NoPath => u[2][o] # NoPath
        BY <2>3, <3>1 DEF Kept
    <3>3. ASSUME Agreed(t, w), w[p] = x PROVE Agreed(u[1], u[2]) /\ u[2][p] = NoPath
        BY <2>3, <2>6, <3>1, <3>3 DEF Kept
    <3>. QED BY <3>2, <3>3 DEF u
  <2>. QED BY <2>1, <2>7, <2>8
<1>. QED BY <1>1, <1>2

\* A project put into a leaf, which is then split or not.
LEMMA PutAndSplitKeeps ==
    ASSUME CubeAssumption, NEW t, NEW w, WellPlaced(t, w), NEW p \in Project,
           NEW x \in t.exists \ t.router, NEW u,
           \/ u = Put(t, w, p, x)
           \/ u = Split(Put(t, w, p, x)[1], Put(t, w, p, x)[2], x)
    PROVE  /\ WellPlaced(u[1], u[2])
           /\ \A o \in Project : w[o] # NoPath => u[2][o] # NoPath
           /\ Agreed(t, w) /\ w[p] \in {NoPath, x} => Agreed(u[1], u[2])
<1> DEFINE q == Put(t, w, p, x)
<1>1. /\ WellPlaced(q[1], q[2])
      /\ Agreed(t, w) /\ w[p] \in {NoPath, x} => Agreed(q[1], q[2])
      /\ \A o \in Project : w[o] # NoPath \/ o = p => q[2][o] # NoPath
      /\ q[1].exists = t.exists /\ q[1].router = t.router
    BY PutKeeps
<1> HIDE DEF q
<1>2. Kept(<<q[1], q[2]>>, Split(q[1], q[2], x))
    BY <1>1, SplitKeeps
<1>3. CASE u = q
    BY <1>1, <1>3
<1>4. CASE u = Split(q[1], q[2], x)
    BY <1>1, <1>2, <1>4 DEF Kept
<1>. QED BY <1>3, <1>4 DEF q

\* index() places the project below its root cell, moves nobody out of the registry and
\* leaves tree and registry in agreement if the project was nowhere else.
LEMMA IndexedKeeps ==
    ASSUME CubeAssumption, NEW t, NEW w, WellPlaced(t, w), NEW p \in Project, NEW r \in Root
    PROVE  LET u == Indexed(t, w, p, <<r>>) IN
           /\ WellPlaced(u[1], u[2])
           /\ \A o \in Project : w[o] # NoPath => u[2][o] # NoPath
           /\ Agreed(t, w) /\ w[p] \in {NoPath, <<r>>} => Agreed(u[1], u[2])
<1> DEFINE x == <<r>>
           y == Append(x, Suffix[p])
           u == Indexed(t, w, p, x)
<1>1. x \in CubePath /\ Len(x) = 1 /\ x \in Seq(Part) /\ Suffix[p] \in Bucket
    BY RootIsPath DEF CubeAssumption, Part
<1> HIDE DEF x, u
<1>2. CASE x \notin t.router
  <2> DEFINE g == Grown(t, x)
  <2>1. /\ WellPlaced(g, w) /\ x \in g.exists \ g.router
        /\ Agreed(t, w) => Agreed(g, w)
    <3>1. \A k \in 1 .. Len(x) - 1 : SubSeq(x, 1, k) \in t.router
        BY <1>1
    <3>. QED BY <1>1, <1>2, <3>1, GrownKeeps DEF Kept
  <2>2. u = Split(Put(g, w, p, x)[1], Put(g, w, p, x)[2], x)
      BY <1>2 DEF Indexed, u
  <2> HIDE DEF g
  <2>3. /\ WellPlaced(u[1], u[2])
        /\ \A o \in Project : w[o] # NoPath => u[2][o] # NoPath
        /\ Agreed(g, w) /\ w[p] \in {NoPath, x} => Agreed(u[1], u[2])
      BY <2>1, <2>2, PutAndSplitKeeps
  <2>. QED BY <2>1, <2>3 DEF x, u
<1>3. CASE x \in t.router /\ y \in t.router
  <2>1. u = <<t, w>>
      BY <1>3 DEF Indexed, IntoRouter, u
  <2>. QED BY <2>1 DEF x, u
<1>4. CASE x \in t.router /\ y \notin t.router
  <2> DEFINE g == Grown(t, y)
  <2>1. SplitAllowed(x) /\ x \in t.exists
      BY <1>4 DEF WellPlaced, Rooted
  <2>2. y \in CubePath
      BY <1>1, <2>1, ChildIsPath
  <2>3. \A k \in 1 .. Len(y) - 1 : SubSeq(y, 1, k) \in t.router
    <3>1. Suffix[p] \in Part
        BY <1>1 DEF Part
    <3>2. Len(y) = Len(x) + 1 /\ SubSeq(y, 1, 1) = SubSeq(x, 1, 1) /\ SubSeq(x, 1, 1) = x
        BY <1>1, <3>1, ChildPrefixes
    <3>3. \A k \in 1 .. Len(y) - 1 : k = 1
        BY <1>1, <3>2
    <3>4. SubSeq(y, 1, 1) = x
        BY <3>2
    <3>. HIDE DEF y
    <3>. QED BY <1>4, <3>3, <3>4
  <2> HIDE DEF y
  <2>4. /\ WellPlaced(g, w) /\ y \in g.exists \ g.router
        /\ Agreed(t, w) => Agreed(g, w)
      BY <1>4, <2>2, <2>3, GrownKeeps DEF Kept
  <2>5. \/ u = Put(g, w, p, y)
        \/ u = Split(Put(g, w, p, y)[1], Put(g, w, p, y)[2], y)
      BY <1>4 DEF Indexed, IntoRouter, u, y
  <2> HIDE DEF g
  <2>6. /\ WellPlaced(u[1], u[2])
        /\ \A o \in Project : w[o] # NoPath => u[2][o] # NoPath
        /\ Agreed(g, w) /\ w[p] \in {NoPath, y} => Agreed(u[1], u[2])
      BY <2>4, <2>5, PutAndSplitKeeps
  <2>7. w[p] # x
      BY <1>1, <1>4 DEF WellPlaced, CubeAssumption
  <2>. QED BY <2>4, <2>6, <2>7 DEF x, u
<1>. QED BY <1>2, <1>3, <1>4

\* So does the second half of move().
LEMMA MovedKeeps ==
    ASSUME CubeAssumption, NEW t, NEW w, WellPlaced(t, w), NEW p \in Project, NEW r \in Root
    PROVE  LET u == Moved(t, w, p, <<r>>) IN
           /\ WellPlaced(u[1], u[2])
           /\ \A o \in Project : w[o] # NoPath => u[2][o] # NoPath
           /\ Agreed(t, w) /\ w[p] \in {NoPath, <<r>>} => Agreed(u[1], u[2])
<1> DEFINE x == <<r>>
           u == Moved(t, w, p, x)
           g == Grown(t, x)
<1>1. x \in CubePath /\ Len(x) = 1
    BY RootIsPath
<1> HIDE DEF x, u
<1>2. /\ WellPlaced(g, w) /\ x \in g.exists /\ g.router = t.router
      /\ Agreed(t, w) => Agreed(g, w)
  <2>1. \A k \in 1 .. Len(x) - 1 : SubSeq(x, 1, k) \in t.router
      BY <1>1
  <2>. QED BY <1>1, <2>1, GrownKeeps DEF Kept
<1>3. CASE x \in t.router
  <2>1. u = <<g, w>>
      BY <1>3 DEF Moved, u
  <2>. QED BY <1>2, <2>1 DEF x, u
<1>4. CASE x \notin t.router
  <2>1. \/ u = Put(g, w, p, x)
        \/ u = Split(Put(g, w, p, x)[1], Put(g, w, p, x)[2], x)
      BY <1>4 DEF Moved, u
  <2> HIDE DEF g
  <2>2. /\ WellPlaced(u[1], u[2])
        /\ \A o \in Project : w[o] # NoPath => u[2][o] # NoPath
        /\ Agreed(g, w) /\ w[p] \in {NoPath, x} => Agreed(u[1], u[2])
      BY <1>2, <1>4, <2>1, PutAndSplitKeeps
  <2>. QED BY <1>2, <2>2 DEF x, u
<1>. QED BY <1>3, <1>4

-----------------------------------------------------------------------------
(* The calls.                                                              *)

\* What a call under way has been asked, and how far it can be.
CallsKnown ==
    /\ op \in [Op -> [kind : {"none", "index", "remove", "move"},
                      p    : Project \cup {CHOOSE p \in Project : TRUE},
                      from : CubePath \cup {NoPath}, to : CubePath \cup {NoPath},
                      pc   : {"idle", "asked", "askedOld", "left", "placed", "done"}]]
    /\ \A o \in Op : op[o].pc # "idle" =>
        /\ op[o].p \in Project
        /\ \/ /\ op[o].kind = "index"
              /\ \E r \in Root : op[o].to = <<r>>
              /\ op[o].pc \in {"askedOld", "left"} =>
                     op[o].from \in CubePath /\ op[o].from # op[o].to
           \/ /\ op[o].kind = "remove"
              /\ op[o].from \in CubePath
              /\ op[o].pc \in {"asked", "placed", "done"}
           \/ /\ op[o].kind = "move"
              /\ op[o].from \in CubePath
              /\ \E r \in Root : op[o].to = <<r>>
              /\ op[o].pc \in {"asked", "left", "placed", "done"}

\* As long as no two calls were under way at once, tree and registry agree, and a call
\* that is to take its project from a place finds it registered there.
Alone ==
    ~overlapped =>
        /\ \A o, u \in Op : InFlight(o) /\ InFlight(u) => o = u
        /\ Agreed(tree, where)
        /\ \A o \in Op :
               /\ \/ op[o].pc = "asked" /\ op[o].kind # "index"
                  \/ op[o].pc = "askedOld"
                  => where[op[o].p] = op[o].from
               /\ op[o].pc = "left" => where[op[o].p] = NoPath

\* Request i of call o has the lock of x.
Holds(o, i, x) ==
    \/ /\ op[o].kind = "index"
       /\ \/ i = 1 /\ x = op[o].to /\ op[o].pc \in {"askedOld", "left", "placed"}
          \/ i = 2 /\ x = op[o].from /\ op[o].pc = "left"
    \/ /\ op[o].kind = "remove"
       /\ i = 1 /\ x = op[o].from /\ op[o].pc = "placed"
    \/ /\ op[o].kind = "move"
       /\ \/ i = 1 /\ x = op[o].from
          \/ i = 2 /\ x = op[o].to
       /\ op[o].pc \in {"left", "placed"}

\* It waits for the lock, or has it without having run since.
Waits(o, i, x) ==
    \/ /\ op[o].kind = "index"
       /\ \/ i = 1 /\ x = op[o].to /\ op[o].pc = "asked"
          \/ i = 2 /\ x = op[o].from /\ op[o].pc = "askedOld"
    \/ op[o].kind = "remove" /\ i = 1 /\ x = op[o].from /\ op[o].pc = "asked"
    \/ /\ op[o].kind = "move"
       /\ \/ i = 1 /\ x = op[o].from
          \/ i = 2 /\ x = op[o].to
       /\ op[o].pc = "asked"

QueueType == [CubePath -> Seq(Op \X {1, 2})]
Stands(q, o, i, x) == \E k \in 1 .. Len(q[x]) : q[x][k] = <<o, i>>
First(q, o, i, x) == q[x] # <<>> /\ Head(q[x]) = <<o, i>>
Once(q) == \A x \in CubePath : \A j, k \in 1 .. Len(q[x]) : q[x][j] = q[x][k] => j = k

\* What a request that stands in a queue says of its call.
Meant(o, i, x) ==
    /\ op[o].pc # "idle"
    /\ ~(op[o].kind = "index" /\ op[o].pc = "asked" /\ i = 2)
    /\ ~timedOut => Waits(o, i, x) \/ Holds(o, i, x)

\* Queues hold each request once; who has a lock stands first; and while none has timed
\* out, nobody stands in a queue who neither waits for its lock nor has it.
Queues ==
    /\ lockq \in QueueType
    /\ Once(lockq)
    /\ \A o \in Op, i \in {1, 2}, x \in CubePath :
           /\ Stands(lockq, o, i, x) => Meant(o, i, x)
           /\ Holds(o, i, x) => First(lockq, o, i, x)

CubeInv == WellPlaced(tree, where) /\ CallsKnown /\ Alone /\ Queues

LEMMA CubeStarts == CubeAssumption /\ Init => CubeInv
<1> SUFFICES ASSUME CubeAssumption, Init PROVE CubeInv
    OBVIOUS
<1>1. WellPlaced(tree, where)
  <2>1. tree = [exists |-> {}, router |-> {}, ids |-> [x \in CubePath |-> {}]]
        /\ where = [p \in Project |-> NoPath]
      BY DEF Init
  <2>2. Rooted(tree)
      BY <2>1 DEF Rooted
  <2>. QED BY <2>1, <2>2 DEF WellPlaced
<1>2. CallsKnown /\ \A o \in Op : op[o].pc = "idle" /\ op[o].kind = "none"
    BY DEF Init, CallsKnown
<1>3. Alone
    BY <1>2 DEF Init, Alone, Agreed, InFlight
<1>4. Queues
  <2>1. \A x \in CubePath : lockq[x] = <<>> /\ Len(lockq[x]) = 0
      BY DEF Init
  <2>2. lockq \in [CubePath -> Seq(Op \X {1, 2})]
      BY DEF Init
  <2>3. \A o \in Op, i \in {1, 2}, x \in CubePath : ~Holds(o, i, x)
      BY <1>2 DEF Holds
  <2>. QED BY <2>1, <2>2, <2>3 DEF Queues, QueueType, Once, Stands
<1>. QED BY <1>1, <1>2, <1>3, <1>4 DEF CubeInv

\* A call goes on as its kind allows.
LEMMA CallsGoOn ==
    ASSUME CubeAssumption, CubeInv, NEW o \in Op, Call(o) \/ Step(o)
    PROVE  CallsKnown'
<1>1. /\ CallsKnown
      /\ where \in [Project -> CubePath \cup {NoPath}]
      /\ \A r \in Root : <<r>> \in CubePath
    BY RootIsPath DEF CubeInv, WellPlaced
<1>2. ASSUME NEW p \in Project, NEW r \in Root, CallIndex(o, p, r) PROVE CallsKnown'
    BY <1>1, <1>2 DEF CallIndex, Begin, CallsKnown
<1>3. ASSUME NEW p \in Project, CallRemove(o, p) PROVE CallsKnown'
    BY <1>1, <1>3 DEF CallRemove, Begin, CallsKnown
<1>4. ASSUME NEW p \in Project, NEW r \in Root, CallMove(o, p, r) PROVE CallsKnown'
    BY <1>1, <1>4 DEF CallMove, Begin, CallsKnown
<1>5. CASE IndexFindsOld(o)
  <2>1. /\ op[o].p \in Project /\ op[o].kind = "index" /\ op[o].pc = "asked"
        /\ \E r \in Root : op[o].to = <<r>>
        /\ where[op[o].p] \in CubePath /\ where[op[o].p] # op[o].to
      BY <1>1, <1>5 DEF IndexFindsOld, At, CallsKnown
  <2> DEFINE x == where[op[o].p]
             q == [op[o] EXCEPT !.from = x]
             v == [q EXCEPT !.pc = "askedOld"]
             Record == [kind : {"none", "index", "remove", "move"},
                        p    : Project \cup {CHOOSE p \in Project : TRUE},
                        from : CubePath \cup {NoPath}, to : CubePath \cup {NoPath},
                        pc   : {"idle", "asked", "askedOld", "left", "placed", "done"}]
  <2>2. op \in [Op -> Record] /\ op' = [op EXCEPT ![o] = v]
      BY <1>1, <1>5 DEF IndexFindsOld, CallsKnown
  <2>3. q \in Record /\ q.kind = "index" /\ q.p = op[o].p /\ q.to = op[o].to /\ q.from = x
      BY <2>1, <2>2
  <2>. HIDE DEF q
  <2>4. /\ v \in Record /\ v.kind = "index" /\ v.p = op[o].p /\ v.to = op[o].to
        /\ v.from = x /\ v.pc = "askedOld"
      BY <2>3
  <2>. HIDE DEF v, Record
  <2>5. /\ op' \in [Op -> Record] /\ op'[o] = v
        /\ \A u \in Op : u # o => op'[u] = op[u]
      BY <2>2, <2>4
  <2>. QED BY <1>1, <2>1, <2>4, <2>5 DEF CallsKnown, Record
<1>6. CASE IndexLeavesOld(o)
    BY <1>1, <1>6 DEF IndexLeavesOld, At, Goto, CallsKnown
<1>7. CASE IndexPlaces(o)
    BY <1>1, <1>7 DEF IndexPlaces, At, Goto, CallsKnown
<1>8. CASE RemoveRemoves(o)
    BY <1>1, <1>8 DEF RemoveRemoves, At, Goto, CallsKnown
<1>9. CASE MoveLeaves(o)
    BY <1>1, <1>9 DEF MoveLeaves, At, Goto, CallsKnown
<1>10. CASE MovePlaces(o)
    BY <1>1, <1>10 DEF MovePlaces, At, Goto, CallsKnown
<1>11. CASE Finish(o)
    BY <1>1, <1>11 DEF Finish, Goto, CallsKnown
<1>12. CASE TimesOut(o)
    BY <1>1, <1>12 DEF TimesOut, Goto, CallsKnown
<1>. QED BY <1>2, <1>3, <1>4, <1>5, <1>6, <1>7, <1>8, <1>9, <1>10, <1>11, <1>12
         DEF Call, Step

\* Where a call changes tree and registry, it does so by one of these: it takes its
\* project out, or it puts it in.
LEMMA TreeSteps ==
    ASSUME CubeAssumption, CubeInv, NEW o \in Op, Call(o) \/ Step(o)
    PROVE  \/ UNCHANGED <<tree, where>>
           \/ /\ IndexLeavesOld(o) \/ RemoveRemoves(o) \/ MoveLeaves(o)
              /\ op[o].p \in Project /\ op[o].from \in CubePath
              /\ Apply(RemovedFrom(tree, where, op[o].p, op[o].from))
           \/ /\ IndexPlaces(o)
              /\ op[o].p \in Project /\ \E r \in Root : op[o].to = <<r>>
              /\ Apply(Indexed(tree, where, op[o].p, op[o].to))
           \/ /\ MovePlaces(o)
              /\ op[o].p \in Project /\ \E r \in Root : op[o].to = <<r>>
              /\ Apply(Moved(tree, where, op[o].p, op[o].to))
<1>1. CASE Call(o)
    BY <1>1 DEF Call, CallIndex, CallRemove, CallMove, Begin
<1>2. CASE IndexFindsOld(o) \/ Finish(o) \/ TimesOut(o)
    BY <1>2 DEF IndexFindsOld, Finish, TimesOut
<1>3. CASE IndexLeavesOld(o) \/ RemoveRemoves(o) \/ MoveLeaves(o)
  <2>1. op[o].p \in Project /\ op[o].from \in CubePath
      BY <1>3 DEF CubeInv, CallsKnown, IndexLeavesOld, RemoveRemoves, MoveLeaves, At
  <2>. QED BY <1>3, <2>1 DEF IndexLeavesOld, RemoveRemoves, MoveLeaves
<1>4. CASE IndexPlaces(o)
  <2>1. op[o].p \in Project /\ \E r \in Root : op[o].to = <<r>>
      BY <1>4 DEF CubeInv, CallsKnown, IndexPlaces, At
  <2>. QED BY <1>4, <2>1 DEF IndexPlaces
<1>5. CASE MovePlaces(o)
  <2>1. op[o].p \in Project /\ \E r \in Root : op[o].to = <<r>>
      BY <1>5 DEF CubeInv, CallsKnown, MovePlaces, At
  <2>. QED BY <1>5, <2>1 DEF MovePlaces
<1>. QED BY <1>1, <1>2, <1>3, <1>4, <1>5 DEF Step

\* What is registered is placed, and only the project of the call leaves the registry.
LEMMA PlacedStays ==
    ASSUME CubeAssumption, CubeInv, NEW o \in Op, Call(o) \/ Step(o)
    PROVE  /\ WellPlaced(tree', where')
           /\ \A p \in Project : where[p] # NoPath /\ where'[p] = NoPath =>
                  op[o].p = p /\ op'[o].pc # op[o].pc
<1>0. WellPlaced(tree, where)
    BY DEF CubeInv
<1>1. CASE UNCHANGED <<tree, where>>
    BY <1>0, <1>1
<1>2. CASE /\ IndexLeavesOld(o) \/ RemoveRemoves(o) \/ MoveLeaves(o)
           /\ op[o].p \in Project /\ op[o].from \in CubePath
           /\ Apply(RemovedFrom(tree, where, op[o].p, op[o].from))
  <2>1. op'[o].pc # op[o].pc
      BY <1>2 DEF CubeInv, CallsKnown, IndexLeavesOld, RemoveRemoves, MoveLeaves, At, Goto
  <2>2. /\ WellPlaced(tree', where')
        /\ \A p \in Project \ {op[o].p} : where[p] # NoPath => where'[p] # NoPath
      BY <1>0, <1>2, RemovedKeeps DEF Apply
  <2>. QED BY <2>1, <2>2
<1>3. CASE /\ IndexPlaces(o)
           /\ op[o].p \in Project /\ \E r \in Root : op[o].to = <<r>>
           /\ Apply(Indexed(tree, where, op[o].p, op[o].to))
    BY <1>0, <1>3, IndexedKeeps DEF Apply
<1>4. CASE /\ MovePlaces(o)
           /\ op[o].p \in Project /\ \E r \in Root : op[o].to = <<r>>
           /\ Apply(Moved(tree, where, op[o].p, op[o].to))
    BY <1>0, <1>4, MovedKeeps DEF Apply
<1>. QED BY <1>1, <1>2, <1>3, <1>4, TreeSteps

\* Calls that come one after the other leave tree and registry in agreement.
LEMMA AloneStays ==
    ASSUME CubeAssumption, CubeInv, NEW o \in Op, Call(o) \/ Step(o)
    PROVE  Alone'
<1> SUFFICES ASSUME ~overlapped'
             PROVE  /\ \A u, v \in Op : InFlight(u)' /\ InFlight(v)' => u = v
                    /\ Agreed(tree', where')
                    /\ \A u \in Op :
                           /\ \/ op'[u].pc = "asked" /\ op'[u].kind # "index"
                              \/ op'[u].pc = "askedOld"
                              => where'[op'[u].p] = op'[u].from
                           /\ op'[u].pc = "left" => where'[op'[u].p] = NoPath
    BY DEF Alone, Agreed
<1>1. /\ WellPlaced(tree, where) /\ CallsKnown /\ CallsKnown'
      /\ ~overlapped
  <2>1. ~overlapped
      BY DEF Call, CallIndex, CallRemove, CallMove, Begin, Step, IndexFindsOld, IndexLeavesOld,
             IndexPlaces, RemoveRemoves, MoveLeaves, MovePlaces, Finish, TimesOut, Noted
  <2>. QED BY <2>1, CallsGoOn DEF CubeInv
<1>2. /\ \A u, v \in Op : InFlight(u) /\ InFlight(v) => u = v
      /\ Agreed(tree, where)
      /\ \A u \in Op :
             /\ \/ op[u].pc = "asked" /\ op[u].kind # "index"
                \/ op[u].pc = "askedOld"
                => where[op[u].p] = op[u].from
             /\ op[u].pc = "left" => where[op[u].p] = NoPath
    BY <1>1 DEF CubeInv, Alone
<1>3. \A u \in Op : u # o => op'[u] = op[u]
    BY <1>1 DEF CallsKnown, Call, CallIndex, CallRemove, CallMove, Begin, Step, IndexFindsOld,
                IndexLeavesOld, IndexPlaces, RemoveRemoves, MoveLeaves, MovePlaces, Finish,
                TimesOut, Goto
<1>4. \A u \in Op : u # o => ~InFlight(u) /\ op'[u].pc \in {"idle", "done"}
  <2>1. CASE Call(o)
      BY <1>1, <1>3, <2>1 DEF CallsKnown, Call, CallIndex, CallRemove, CallMove, Begin, InFlight
  <2>2. CASE Step(o)
    <3>1. InFlight(o)
        BY <1>1, <2>2 DEF CallsKnown, Step, IndexFindsOld, IndexLeavesOld, IndexPlaces,
                 RemoveRemoves, MoveLeaves, MovePlaces, Finish, TimesOut, InFlight, At
    <3>. QED BY <1>1, <1>2, <1>3, <3>1 DEF CallsKnown, InFlight
  <2>. QED BY <2>1, <2>2
<1>5. \A u, v \in Op : InFlight(u)' /\ InFlight(v)' => u = v
    BY <1>4 DEF InFlight
<1>6. SUFFICES /\ Agreed(tree', where')
               /\ \/ op'[o].pc = "asked" /\ op'[o].kind # "index"
                  \/ op'[o].pc = "askedOld"
                  => where'[op'[o].p] = op'[o].from
               /\ op'[o].pc = "left" => where'[op'[o].p] = NoPath
    BY <1>4, <1>5
<1>7. CASE Call(o)
  <2>1. UNCHANGED <<tree, where>>
      BY <1>7 DEF Call, CallIndex, CallRemove, CallMove, Begin
  <2>2. /\ op'[o].pc = "asked"
        /\ op'[o].kind # "index" => where[op'[o].p] = op'[o].from
    <3>1. ASSUME NEW p \in Project, NEW r \in Root, CallIndex(o, p, r)
          PROVE  op'[o].pc = "asked" /\ op'[o].kind = "index"
        BY <1>1, <3>1 DEF CallsKnown, CallIndex, Begin
    <3>2. ASSUME NEW p \in Project, CallRemove(o, p)
          PROVE  op'[o].pc = "asked" /\ op'[o].p = p /\ op'[o].from = where[p]
        BY <1>1, <3>2 DEF CallsKnown, CallRemove, Begin
    <3>3. ASSUME NEW p \in Project, NEW r \in Root, CallMove(o, p, r)
          PROVE  op'[o].pc = "asked" /\ op'[o].p = p /\ op'[o].from = where[p]
        BY <1>1, <3>3 DEF CallsKnown, CallMove, Begin
    <3>. QED BY <1>7, <3>1, <3>2, <3>3 DEF Call
  <2>. QED BY <1>2, <2>1, <2>2
<1>8. CASE IndexFindsOld(o)
  <2>1. UNCHANGED <<tree, where>>
      BY <1>8 DEF IndexFindsOld
  <2>2. op'[o].pc = "askedOld" /\ where[op'[o].p] = op'[o].from
    <3>1. op'[o] = [op[o] EXCEPT !.from = where[op[o].p], !.pc = "askedOld"]
        BY <1>1, <1>8 DEF CallsKnown, IndexFindsOld
    <3>2. op[o].p \in Project /\ op[o] = [kind |-> op[o].kind, p |-> op[o].p, from |-> op[o].from,
                                         to |-> op[o].to, pc |-> op[o].pc]
        BY <1>1, <1>8 DEF CallsKnown, IndexFindsOld, At
    <3>. QED BY <3>1, <3>2
  <2>. QED BY <1>2, <2>1, <2>2
<1>9. CASE Finish(o) \/ TimesOut(o)
    BY <1>1, <1>2, <1>9 DEF CallsKnown, Finish, TimesOut, Goto
<1>10. CASE IndexLeavesOld(o) \/ RemoveRemoves(o) \/ MoveLeaves(o)
  <2>1. /\ op[o].p \in Project /\ op[o].from \in CubePath
        /\ Apply(RemovedFrom(tree, where, op[o].p, op[o].from))
        /\ where[op[o].p] = op[o].from
        /\ op'[o].p = op[o].p /\ op'[o].pc \in {"left", "placed"}
      BY <1>1, <1>2, <1>10 DEF CallsKnown, IndexLeavesOld, RemoveRemoves, MoveLeaves, At, Goto
  <2>2. Agreed(tree', where') /\ where'[op[o].p] = NoPath
      BY <1>1, <1>2, <2>1, RemovedKeeps DEF Apply
  <2>. QED BY <2>1, <2>2
<1>11. CASE IndexPlaces(o) \/ MovePlaces(o)
  <2>1. /\ op[o].p \in Project /\ \E r \in Root : op[o].to = <<r>>
        /\ \/ Apply(Indexed(tree, where, op[o].p, op[o].to))
           \/ Apply(Moved(tree, where, op[o].p, op[o].to))
        /\ where[op[o].p] \in {NoPath, op[o].to}
        /\ op'[o].pc = "placed"
      BY <1>1, <1>2, <1>11 DEF CallsKnown, IndexPlaces, MovePlaces, At, Goto
  <2>2. Agreed(tree', where')
      BY <1>1, <1>2, <2>1, IndexedKeeps, MovedKeeps DEF Apply
  <2>. QED BY <2>1, <2>2
<1>. QED BY <1>7, <1>8, <1>9, <1>10, <1>11 DEF Step

\* A request goes to the end of a queue, and the first leaves it.
LEMMA Asked ==
    ASSUME NEW q \in QueueType, Once(q), NEW o \in Op, NEW i \in {1, 2}, NEW y \in CubePath,
           ~Stands(q, o, i, y)
    PROVE  LET u == Ask(q, o, i, y) IN
           /\ u \in QueueType /\ Once(u)
           /\ \A v \in Op, j \in {1, 2}, x \in CubePath :
                  /\ Stands(u, v, j, x) => Stands(q, v, j, x) \/ <<v, j, x>> = <<o, i, y>>
                  /\ First(q, v, j, x) => First(u, v, j, x)
<1> DEFINE s == q[y]
           e == <<o, i>>
           z == Append(s, e)
           u == Ask(q, o, i, y)
<1>1. /\ s \in Seq(Op \X {1, 2}) /\ e \in Op \X {1, 2} /\ Len(s) \in Nat
      /\ z \in Seq(Op \X {1, 2}) /\ Len(z) = Len(s) + 1
      /\ \A k \in 1 .. Len(s) : z[k] = s[k]
      /\ z[Len(s) + 1] = e
    BY DEF QueueType
<1>2. u \in QueueType /\ u[y] = z /\ \A x \in CubePath : x # y => u[x] = q[x]
    BY <1>1 DEF Ask, QueueType
<1>3. \A k \in 1 .. Len(s) : s[k] # e
    BY DEF Stands
<1>4. \A k \in 1 .. Len(z) : k \in 1 .. Len(s) \/ k = Len(s) + 1
    BY <1>1
<1>5. \A j, k \in 1 .. Len(z) : z[j] = z[k] => j = k
  <2>1. \A j, k \in 1 .. Len(s) : s[j] = s[k] => j = k
      BY DEF Once
  <2>. HIDE DEF s, e, z
  <2>. QED BY <1>1, <1>3, <1>4, <2>1
<1>6. s # << >> => z # << >> /\ Head(z) = Head(s)
    BY <1>1
<1>. HIDE DEF z, u, e
<1>7. Once(u)
    BY <1>2, <1>5 DEF Once
<1>8. ASSUME NEW v \in Op, NEW j \in {1, 2}, NEW x \in CubePath
      PROVE  /\ Stands(u, v, j, x) => Stands(q, v, j, x) \/ <<v, j, x>> = <<o, i, y>>
             /\ First(q, v, j, x) => First(u, v, j, x)
  <2>1. CASE x # y
      BY <1>2, <2>1 DEF Stands, First
  <2>2. CASE x = y
    <3>1. ASSUME NEW k \in 1 .. Len(z), z[k] = <<v, j>>
          PROVE  Stands(q, v, j, x) \/ <<v, j, x>> = <<o, i, y>>
      <4>1. CASE k \in 1 .. Len(s)
          BY <1>1, <2>2, <3>1, <4>1 DEF Stands
      <4>2. CASE k = Len(s) + 1
          BY <1>1, <2>2, <3>1, <4>2 DEF e
      <4>. QED BY <1>4, <4>1, <4>2
    <3>. QED BY <1>2, <1>6, <2>2, <3>1 DEF Stands, First
  <2>. QED BY <2>1, <2>2
<1>. QED BY <1>2, <1>7, <1>8 DEF u

LEMMA Unlocked ==
    ASSUME NEW q \in QueueType, Once(q), NEW o \in Op, NEW i \in {1, 2}, NEW y \in CubePath,
           First(q, o, i, y)
    PROVE  LET u == Unlock(q, y) IN
           /\ u \in QueueType /\ Once(u)
           /\ \A v \in Op, j \in {1, 2}, x \in CubePath :
                  /\ Stands(u, v, j, x) => Stands(q, v, j, x) /\ <<v, j, x>> # <<o, i, y>>
                  /\ First(q, v, j, x) /\ <<v, j>> # <<o, i>> => First(u, v, j, x)
                  /\ First(q, v, j, x) /\ x # y => First(u, v, j, x)
<1> DEFINE s == q[y]
           z == Tail(s)
           u == Unlock(q, y)
<1>1. /\ s \in Seq(Op \X {1, 2}) /\ s # << >> /\ Head(s) = <<o, i>>
      /\ Len(s) \in Nat /\ Len(s) >= 1
    BY DEF QueueType, First
<1>2. /\ z \in Seq(Op \X {1, 2}) /\ Len(z) = Len(s) - 1 /\ s[1] = <<o, i>>
      /\ \A k \in 1 .. Len(z) : z[k] = s[k + 1]
    BY <1>1
<1>3. u \in QueueType /\ u[y] = z /\ \A x \in CubePath : x # y => u[x] = q[x]
    BY <1>2 DEF Unlock, QueueType
<1>4. \A j, k \in 1 .. Len(s) : s[j] = s[k] => j = k
    BY DEF Once
<1>5. \A k \in 1 .. Len(z) : k + 1 \in 1 .. Len(s) /\ k + 1 # 1 /\ 1 \in 1 .. Len(s)
    BY <1>1, <1>2
<1>. HIDE DEF s, z, u
<1>6. \A j, k \in 1 .. Len(z) : z[j] = z[k] => j = k
  <2> SUFFICES ASSUME NEW j \in 1 .. Len(z), NEW k \in 1 .. Len(z), z[j] = z[k] PROVE j = k
      OBVIOUS
  <2>1. j + 1 = k + 1
      BY <1>2, <1>4, <1>5
  <2>. QED BY <2>1
<1>7. \A k \in 1 .. Len(z) : z[k] # <<o, i>>
    BY <1>2, <1>4, <1>5
<1>8. Once(u)
    BY <1>3, <1>6 DEF Once
<1>9. ASSUME NEW v \in Op, NEW j \in {1, 2}, NEW x \in CubePath
      PROVE  /\ Stands(u, v, j, x) => Stands(q, v, j, x) /\ <<v, j, x>> # <<o, i, y>>
             /\ First(q, v, j, x) /\ <<v, j>> # <<o, i>> => First(u, v, j, x)
             /\ First(q, v, j, x) /\ x # y => First(u, v, j, x)
  <2>1. CASE x # y
      BY <1>3, <2>1 DEF Stands, First
  <2>2. CASE x = y
    <3>1. First(q, v, j, x) => <<v, j>> = <<o, i>>
        BY <1>1, <2>2 DEF First, s
    <3>2. ASSUME NEW k \in 1 .. Len(z), z[k] = <<v, j>>
          PROVE  Stands(q, v, j, x) /\ <<v, j, x>> # <<o, i, y>>
      <4>1. q[x][k + 1] = <<v, j>> /\ k + 1 \in 1 .. Len(q[x])
          BY <1>2, <1>5, <2>2, <3>2 DEF s
      <4>2. <<v, j>> # <<o, i>>
          BY <1>7, <3>2
      <4>. QED BY <4>1, <4>2 DEF Stands
    <3>. QED BY <1>3, <2>2, <3>1, <3>2 DEF Stands
  <2>. QED BY <2>1, <2>2
<1>. QED BY <1>3, <1>8, <1>9 DEF u

\* The queues are kept if the other requests stand as they stood, and those of the call
\* mean what it is about now.
LEMMA OthersStand ==
    ASSUME CubeInv, NEW o \in Op, \A u \in Op : u # o => op'[u] = op[u],
           timedOut => timedOut', lockq' \in QueueType, Once(lockq'),
           \A v \in Op \ {o}, j \in {1, 2}, x \in CubePath :
               /\ Stands(lockq', v, j, x) => Stands(lockq, v, j, x)
               /\ Holds(v, j, x) => First(lockq', v, j, x),
           \A i \in {1, 2}, x \in CubePath :
               /\ Stands(lockq', o, i, x) => Meant(o, i, x)'
               /\ Holds(o, i, x)' => First(lockq', o, i, x)
    PROVE  Queues'
<1> SUFFICES ASSUME NEW v \in Op, NEW j \in {1, 2}, NEW x \in CubePath
             PROVE  /\ Stands(lockq', v, j, x) => Meant(v, j, x)'
                    /\ Holds(v, j, x)' => First(lockq', v, j, x)
    BY DEF Queues, Stands, First, Once, QueueType
<1>1. CASE v = o
    BY <1>1
<1>2. CASE v # o
  <2>1. op'[v] = op[v]
      BY <1>2
  <2>2. Stands(lockq, v, j, x) => Meant(v, j, x)
      BY DEF CubeInv, Queues
  <2>3. /\ Meant(v, j, x) => Meant(v, j, x)'
        /\ Holds(v, j, x)' => Holds(v, j, x)
      BY <2>1 DEF Meant, Waits, Holds
  <2>. QED BY <1>2, <2>2, <2>3
<1>. QED BY <1>1, <1>2

\* A call that has just begun stands in the queues it has asked for, and in no other.
LEMMA CallsQueue ==
    ASSUME CubeAssumption, CubeInv, NEW o \in Op, Call(o)
    PROVE  Queues'
<1>1. /\ CallsKnown /\ lockq \in QueueType /\ Once(lockq)
      /\ where \in [Project -> CubePath \cup {NoPath}]
      /\ \A v \in Op, j \in {1, 2}, x \in CubePath :
             /\ Stands(lockq, v, j, x) => Meant(v, j, x)
             /\ Holds(v, j, x) => First(lockq, v, j, x)
    BY DEF CubeInv, Queues, WellPlaced
<1>2. op[o].pc = "idle" /\ timedOut' = timedOut
    BY DEF Call, CallIndex, CallRemove, CallMove, Begin
<1>3. \A i \in {1, 2}, x \in CubePath : ~Stands(lockq, o, i, x)
    BY <1>1, <1>2 DEF Meant
<1>4. \A u \in Op : u # o => op'[u] = op[u]
    BY <1>1 DEF CallsKnown, Call, CallIndex, CallRemove, CallMove, Begin
<1>5. ASSUME NEW kind \in {"index", "remove"}, NEW x \in CubePath,
             lockq' = Ask(lockq, o, 1, x), op'[o].kind = kind, op'[o].pc = "asked",
             x = IF kind = "index" THEN op'[o].to ELSE op'[o].from
      PROVE  Queues'
  <2>1. /\ lockq' \in QueueType /\ Once(lockq')
        /\ \A v \in Op, j \in {1, 2}, y \in CubePath :
              /\ Stands(lockq', v, j, y) => Stands(lockq, v, j, y) \/ <<v, j, y>> = <<o, 1, x>>
              /\ First(lockq, v, j, y) => First(lockq', v, j, y)
      BY <1>1, <1>3, <1>5, Asked
  <2>2. ASSUME NEW i \in {1, 2}, NEW y \in CubePath
        PROVE  /\ Stands(lockq', o, i, y) => Meant(o, i, y)'
               /\ ~Holds(o, i, y)'
    <3>1. Stands(lockq', o, i, y) => i = 1 /\ y = x
        BY <1>3, <2>1
    <3>. QED BY <1>5, <3>1 DEF Meant, Waits, Holds
  <2>. QED BY <1>1, <1>2, <1>4, <2>1, <2>2, OthersStand
<1>6. ASSUME NEW x \in CubePath, NEW z \in CubePath,
             lockq' = Ask(Ask(lockq, o, 1, x), o, 2, z), op'[o].kind = "move",
             op'[o].pc = "asked", op'[o].from = x, op'[o].to = z
      PROVE  Queues'
  <2> DEFINE q == Ask(lockq, o, 1, x)
  <2>1. /\ q \in QueueType /\ Once(q)
        /\ \A v \in Op, j \in {1, 2}, y \in CubePath :
              /\ Stands(q, v, j, y) => Stands(lockq, v, j, y) \/ <<v, j, y>> = <<o, 1, x>>
              /\ First(lockq, v, j, y) => First(q, v, j, y)
      BY <1>1, <1>3, Asked
  <2>2. ~Stands(q, o, 2, z)
      BY <1>3, <2>1
  <2> HIDE DEF q
  <2>3. /\ lockq' \in QueueType /\ Once(lockq')
        /\ \A v \in Op, j \in {1, 2}, y \in CubePath :
              /\ Stands(lockq', v, j, y) => Stands(q, v, j, y) \/ <<v, j, y>> = <<o, 2, z>>
              /\ First(q, v, j, y) => First(lockq', v, j, y)
      BY <1>6, <2>1, <2>2, Asked DEF q
  <2>4. ASSUME NEW i \in {1, 2}, NEW y \in CubePath
        PROVE  /\ Stands(lockq', o, i, y) => Meant(o, i, y)'
               /\ ~Holds(o, i, y)'
    <3>1. Stands(lockq', o, i, y) => \/ i = 1 /\ y = x
                                     \/ i = 2 /\ y = z
        BY <1>3, <2>1, <2>3
    <3>. QED BY <1>6, <3>1 DEF Meant, Waits, Holds
  <2>. QED BY <1>1, <1>2, <1>4, <2>1, <2>3, <2>4, OthersStand
<1>7. ASSUME NEW p \in Project, NEW r \in Root, CallIndex(o, p, r) PROVE Queues'
  <2>1. <<r>> \in CubePath
      BY RootIsPath
  <2>2. lockq' = Ask(lockq, o, 1, <<r>>) /\ op'[o].kind = "index" /\ op'[o].pc = "asked"
        /\ op'[o].to = <<r>>
      BY <1>1, <1>7 DEF CallsKnown, CallIndex, Begin
  <2>. QED BY <1>5, <2>1, <2>2
<1>8. ASSUME NEW p \in Project, CallRemove(o, p) PROVE Queues'
  <2>1. where[p] \in CubePath
      BY <1>1, <1>8 DEF CallRemove
  <2>2. lockq' = Ask(lockq, o, 1, where[p]) /\ op'[o].kind = "remove" /\ op'[o].pc = "asked"
        /\ op'[o].from = where[p]
      BY <1>1, <1>8 DEF CallsKnown, CallRemove, Begin
  <2>. QED BY <1>5, <2>1, <2>2
<1>9. ASSUME NEW p \in Project, NEW r \in Root, CallMove(o, p, r) PROVE Queues'
  <2>1. where[p] \in CubePath /\ <<r>> \in CubePath
      BY <1>1, <1>9, RootIsPath DEF CallMove
  <2>2. lockq' = Ask(Ask(lockq, o, 1, where[p]), o, 2, <<r>>) /\ op'[o].kind = "move"
        /\ op'[o].pc = "asked" /\ op'[o].from = where[p] /\ op'[o].to = <<r>>
      BY <1>1, <1>9 DEF CallsKnown, CallMove, Begin
  <2>. QED BY <1>6, <2>1, <2>2
<1>. QED BY <1>7, <1>8, <1>9 DEF Call

\* A step of a call leaves each queue as it is, lengthens one, or takes the call's own
\* request from the front.
LEMMA StepsQueue ==
    ASSUME CubeAssumption, CubeInv, NEW o \in Op, Step(o)
    PROVE  Queues'
<1>1. /\ CallsKnown /\ lockq \in QueueType /\ Once(lockq)
      /\ where \in [Project -> CubePath \cup {NoPath}]
      /\ \A v \in Op, j \in {1, 2}, x \in CubePath :
             /\ Stands(lockq, v, j, x) => Meant(v, j, x)
             /\ Holds(v, j, x) => First(lockq, v, j, x)
    BY DEF CubeInv, Queues, WellPlaced
<1>2. \A r \in Root : <<r>> \in CubePath
    BY RootIsPath
<1>3. /\ timedOut => timedOut'
      /\ \A u \in Op : u # o => op'[u] = op[u]
    BY <1>1 DEF CallsKnown, Step, IndexFindsOld, IndexLeavesOld, IndexPlaces, RemoveRemoves,
                MoveLeaves, MovePlaces, Finish, TimesOut, Goto, Noted
<1>4. ASSUME lockq' = lockq,
             \A i \in {1, 2}, x \in CubePath :
                 /\ Stands(lockq, o, i, x) => Meant(o, i, x)'
                 /\ Holds(o, i, x)' => First(lockq, o, i, x)
      PROVE  Queues'
    BY <1>1, <1>3, <1>4, OthersStand
<1>5. CASE IndexFindsOld(o)
  <2> DEFINE x == where[op[o].p]
  <2>1. /\ op[o].kind = "index" /\ op[o].pc = "asked" /\ First(lockq, o, 1, op[o].to)
        /\ x \in CubePath /\ lockq' = Ask(lockq, o, 2, x)
        /\ op'[o].kind = "index" /\ op'[o].pc = "askedOld" /\ op'[o].to = op[o].to
        /\ op'[o].from = x /\ timedOut' = timedOut
      BY <1>1, <1>5 DEF CallsKnown, IndexFindsOld, At, Noted, Owns, First
  <2>2. \A y \in CubePath : ~Stands(lockq, o, 2, y)
      BY <1>1, <2>1 DEF Meant
  <2> HIDE DEF x
  <2>3. /\ lockq' \in QueueType /\ Once(lockq')
        /\ \A v \in Op, j \in {1, 2}, y \in CubePath :
              /\ Stands(lockq', v, j, y) => Stands(lockq, v, j, y) \/ <<v, j, y>> = <<o, 2, x>>
              /\ First(lockq, v, j, y) => First(lockq', v, j, y)
      BY <1>1, <2>1, <2>2, Asked
  <2>4. ASSUME NEW i \in {1, 2}, NEW y \in CubePath
        PROVE  /\ Stands(lockq', o, i, y) => Meant(o, i, y)'
               /\ Holds(o, i, y)' => First(lockq', o, i, y)
    <3>1. Stands(lockq', o, i, y) => \/ i = 1 /\ Stands(lockq, o, 1, y)
                                     \/ i = 2 /\ y = x
        BY <2>2, <2>3
    <3>2. Stands(lockq, o, 1, y) => timedOut \/ y = op[o].to
        BY <1>1, <2>1 DEF Meant, Waits, Holds
    <3>3. Stands(lockq', o, i, y) => Meant(o, i, y)'
        BY <2>1, <3>1, <3>2 DEF Meant, Waits, Holds
    <3>4. Holds(o, i, y)' => First(lockq', o, i, y)
        BY <2>1, <2>3 DEF Holds
    <3>. QED BY <3>3, <3>4
  <2>. QED BY <1>1, <1>3, <2>3, <2>4, OthersStand
<1>6. CASE IndexLeavesOld(o) \/ RemoveRemoves(o) \/ MoveLeaves(o) \/ MovePlaces(o)
  <2>1. /\ lockq' = lockq /\ timedOut' = timedOut
        /\ op'[o].kind = op[o].kind /\ op'[o].from = op[o].from /\ op'[o].to = op[o].to
        /\ \/ /\ op[o].kind = "index" /\ op[o].pc = "askedOld" /\ op'[o].pc = "left"
              /\ First(lockq, o, 2, op[o].from)
           \/ /\ op[o].kind = "remove" /\ op[o].pc = "asked" /\ op'[o].pc = "placed"
              /\ First(lockq, o, 1, op[o].from)
           \/ /\ op[o].kind = "move" /\ op[o].pc = "asked" /\ op'[o].pc = "left"
              /\ First(lockq, o, 1, op[o].from) /\ First(lockq, o, 2, op[o].to)
           \/ op[o].kind = "move" /\ op[o].pc = "left" /\ op'[o].pc = "placed"
    <3>1. ASSUME NEW pc, Goto(o, pc)
          PROVE  /\ op'[o].kind = op[o].kind /\ op'[o].from = op[o].from
                 /\ op'[o].to = op[o].to /\ op'[o].pc = pc
        BY <1>1, <3>1 DEF CallsKnown, Goto
    <3>2. CASE IndexLeavesOld(o)
        BY <3>1, <3>2 DEF IndexLeavesOld, At, Noted, Owns, First
    <3>3. CASE RemoveRemoves(o)
        BY <3>1, <3>3 DEF RemoveRemoves, At, Noted, Owns, First
    <3>4. CASE MoveLeaves(o)
        BY <3>1, <3>4 DEF MoveLeaves, At, Noted, Owns, First
    <3>5. CASE MovePlaces(o)
        BY <3>1, <3>5 DEF MovePlaces, At, Noted
    <3>. QED BY <1>6, <3>2, <3>3, <3>4, <3>5
  <2>2. ASSUME NEW i \in {1, 2}, NEW x \in CubePath
        PROVE  /\ Stands(lockq, o, i, x) => Meant(o, i, x)'
               /\ Holds(o, i, x)' => First(lockq, o, i, x)
    <3>1. Waits(o, i, x) \/ Holds(o, i, x) => Holds(o, i, x)'
        BY <2>1 DEF Waits, Holds
    <3>2. op'[o].pc \notin {"idle", "asked"}
        BY <2>1
    <3>3. Stands(lockq, o, i, x) => Meant(o, i, x)'
        BY <1>1, <2>1, <3>1, <3>2 DEF Meant
    <3>4. Holds(o, i, x)' => First(lockq, o, i, x)
        BY <1>1, <2>1 DEF Holds
    <3>. QED BY <3>3, <3>4
  <2>. QED BY <1>4, <2>1, <2>2
<1>7. CASE IndexPlaces(o)
  <2>1. /\ op[o].kind = "index" /\ timedOut' = timedOut /\ op'[o].pc = "placed"
        /\ op'[o].kind = "index" /\ op'[o].to = op[o].to
        /\ \/ op[o].pc = "asked" /\ lockq' = lockq /\ First(lockq, o, 1, op[o].to)
           \/ op[o].pc = "left" /\ lockq' = Unlock(lockq, op[o].from)
      BY <1>1, <1>7 DEF CallsKnown, IndexPlaces, At, Goto, Noted, Owns, First
  <2>2. CASE op[o].pc = "asked"
    <3>1. ASSUME NEW i \in {1, 2}, NEW x \in CubePath
          PROVE  /\ Stands(lockq, o, i, x) => Meant(o, i, x)'
                 /\ Holds(o, i, x)' => First(lockq, o, i, x)
      <4>1. Waits(o, i, x) \/ Holds(o, i, x) => Holds(o, i, x)'
          BY <2>1, <2>2 DEF Waits, Holds
      <4>. QED BY <1>1, <2>1, <2>2, <4>1 DEF Meant, Holds
    <3>. QED BY <1>4, <2>1, <2>2, <3>1
  <2>3. CASE op[o].pc = "left"
    <3> DEFINE x == op[o].from
    <3>1. x \in CubePath /\ x # op[o].to /\ op[o].to \in CubePath
        BY <1>1, <1>2, <2>1, <2>3 DEF CallsKnown
    <3>2. First(lockq, o, 2, x) /\ First(lockq, o, 1, op[o].to)
        BY <1>1, <2>1, <2>3, <3>1 DEF Holds
    <3>3. /\ lockq' \in QueueType /\ Once(lockq')
          /\ \A v \in Op, j \in {1, 2}, y \in CubePath :
                /\ Stands(lockq', v, j, y) => Stands(lockq, v, j, y) /\ <<v, j, y>> # <<o, 2, x>>
                /\ First(lockq, v, j, y) /\ <<v, j>> # <<o, 2>> => First(lockq', v, j, y)
                /\ First(lockq, v, j, y) /\ y # x => First(lockq', v, j, y)
        BY <1>1, <2>1, <2>3, <3>1, <3>2, Unlocked
    <3>4. ASSUME NEW i \in {1, 2}, NEW y \in CubePath
          PROVE  /\ Stands(lockq', o, i, y) => Meant(o, i, y)'
                 /\ Holds(o, i, y)' => First(lockq', o, i, y)
      <4>1. /\ ~Waits(o, i, y)
            /\ Holds(o, i, y) => \/ i = 2 /\ y = x
                                 \/ Holds(o, i, y)'
          BY <2>1, <2>3 DEF Waits, Holds
      <4>2. Holds(o, i, y)' => i = 1 /\ y = op[o].to
          BY <2>1 DEF Holds
      <4>3. Stands(lockq', o, i, y) => Stands(lockq, o, i, y) /\ ~(i = 2 /\ y = x)
          BY <3>3
      <4>4. Stands(lockq', o, i, y) => Meant(o, i, y)'
          BY <1>1, <2>1, <4>1, <4>3 DEF Meant
      <4>. QED BY <3>1, <3>2, <3>3, <4>2, <4>4
    <3>. QED BY <1>1, <1>3, <3>3, <3>4, OthersStand
  <2>. QED BY <2>1, <2>2, <2>3
<1>8. CASE Finish(o)
  <2>1. /\ op[o].pc = "placed" /\ op'[o].pc = "done" /\ timedOut' = timedOut
        /\ \A i \in {1, 2}, x \in CubePath : ~Holds(o, i, x)'
      BY <1>1, <1>8 DEF CallsKnown, Finish, Goto, Noted, Holds
  <2>2. ASSUME lockq' \in QueueType, Once(lockq'),
               \A v \in Op \ {o}, j \in {1, 2}, y \in CubePath :
                   /\ Stands(lockq', v, j, y) => Stands(lockq, v, j, y)
                   /\ First(lockq, v, j, y) => First(lockq', v, j, y),
               \A i \in {1, 2}, y \in CubePath : Stands(lockq', o, i, y) =>
                   Stands(lockq, o, i, y) /\ ~Holds(o, i, y)
        PROVE  Queues'
    <3>1. ASSUME NEW i \in {1, 2}, NEW y \in CubePath
          PROVE  Stands(lockq', o, i, y) => Meant(o, i, y)'
      <4>1. ~Waits(o, i, y)
          BY <2>1 DEF Waits
      <4>. QED BY <1>1, <2>1, <2>2, <4>1 DEF Meant
    <3>. QED BY <1>1, <1>3, <2>1, <2>2, <3>1, OthersStand
  <2>3. ASSUME op[o].kind \in {"index", "remove"} PROVE Queues'
    <3> DEFINE x == IF op[o].kind = "index" THEN op[o].to ELSE op[o].from
    <3>1. x \in CubePath /\ lockq' = Unlock(lockq, x)
        BY <1>1, <1>2, <1>8, <2>1, <2>3 DEF CallsKnown, Finish
    <3>2. \A i \in {1, 2}, y \in CubePath : Holds(o, i, y) <=> i = 1 /\ y = x
        BY <2>1, <2>3 DEF Holds
    <3> HIDE DEF x
    <3>3. /\ lockq' \in QueueType /\ Once(lockq')
          /\ \A v \in Op, j \in {1, 2}, y \in CubePath :
                /\ Stands(lockq', v, j, y) => Stands(lockq, v, j, y) /\ <<v, j, y>> # <<o, 1, x>>
                /\ First(lockq, v, j, y) /\ <<v, j>> # <<o, 1>> => First(lockq', v, j, y)
        BY <1>1, <3>1, <3>2, Unlocked
    <3>. QED BY <2>2, <3>2, <3>3
  <2>4. ASSUME op[o].kind = "move" PROVE Queues'
    <3> DEFINE x == op[o].from
               z == op[o].to
               q == Unlock(lockq, x)
    <3>1. x \in CubePath /\ z \in CubePath /\ lockq' = Unlock(q, z)
        BY <1>1, <1>2, <1>8, <2>1, <2>4 DEF CallsKnown, Finish
    <3>2. \A i \in {1, 2}, y \in CubePath :
              Holds(o, i, y) <=> (i = 1 /\ y = x) \/ (i = 2 /\ y = z)
        BY <2>1, <2>4 DEF Holds
    <3> HIDE DEF x, z
    <3>3. First(lockq, o, 1, x) /\ First(lockq, o, 2, z)
        BY <1>1, <3>1, <3>2
    <3>4. x # z
        BY <3>3 DEF First
    <3>5. /\ q \in QueueType /\ Once(q)
          /\ \A v \in Op, j \in {1, 2}, y \in CubePath :
                /\ Stands(q, v, j, y) => Stands(lockq, v, j, y) /\ <<v, j, y>> # <<o, 1, x>>
                /\ First(lockq, v, j, y) /\ <<v, j>> # <<o, 1>> => First(q, v, j, y)
        BY <1>1, <3>1, <3>3, Unlocked
    <3>6. First(q, o, 2, z)
        BY <3>1, <3>3, <3>5
    <3> HIDE DEF q
    <3>7. /\ lockq' \in QueueType /\ Once(lockq')
          /\ \A v \in Op, j \in {1, 2}, y \in CubePath :
                /\ Stands(lockq', v, j, y) => Stands(q, v, j, y) /\ <<v, j, y>> # <<o, 2, z>>
                /\ First(q, v, j, y) /\ <<v, j>> # <<o, 2>> => First(lockq', v, j, y)
        BY <3>1, <3>5, <3>6, Unlocked
    <3>. QED BY <2>2, <3>2, <3>5, <3>7
  <2>. QED BY <1>1, <2>1, <2>3, <2>4 DEF CallsKnown
<1>9. CASE TimesOut(o)
  <2>1. /\ lockq' = lockq /\ timedOut' = TRUE
        /\ op'[o].kind = op[o].kind /\ op'[o].to = op[o].to
        /\ \/ op'[o].pc = "done"
           \/ op'[o].pc = "placed" /\ op[o].kind = "index" /\ op[o].pc = "askedOld"
      BY <1>1, <1>9 DEF CallsKnown, TimesOut, Goto
  <2>2. ASSUME NEW i \in {1, 2}, NEW x \in CubePath
        PROVE  /\ Stands(lockq, o, i, x) => Meant(o, i, x)'
               /\ Holds(o, i, x)' => First(lockq, o, i, x)
    <3>1. Holds(o, i, x)' => Holds(o, i, x)
        BY <2>1 DEF Holds
    <3>. QED BY <1>1, <2>1, <3>1 DEF Meant
  <2>. QED BY <1>4, <2>1, <2>2
<1>. QED BY <1>5, <1>6, <1>7, <1>8, <1>9 DEF Step

\* The invariant holds in every state of the engine.
THEOREM CubeInvariant ==
    ASSUME CubeAssumption
    PROVE  Spec => []CubeInv
<1>1. Init => CubeInv
    BY CubeStarts
<1>2. CubeInv /\ [Next]_vars => CubeInv'
  <2> SUFFICES ASSUME CubeInv, [Next]_vars PROVE CubeInv'
      OBVIOUS
  <2>1. CASE UNCHANGED vars
      BY <2>1 DEF vars, CubeInv, CallsKnown, Alone, Agreed, InFlight, Queues, Once, QueueType,
                  Stands, First, Meant, Waits, Holds
  <2>2. ASSUME NEW o \in Op, Call(o) \/ Step(o) PROVE CubeInv'
    <3>1. WellPlaced(tree', where')
        BY <2>2, PlacedStays
    <3>2. CallsKnown' /\ Alone'
        BY <2>2, CallsGoOn, AloneStays
    <3>3. Queues'
        BY <2>2, CallsQueue, StepsQueue
    <3>. QED BY <3>1, <3>2, <3>3 DEF CubeInv, WellPlaced, Rooted
  <2>. QED BY <2>1, <2>2 DEF Next
<1>. QED BY <1>1, <1>2, PTL DEF Spec

\* FractalCubeEngine, for any projects, cells, hashes, limits and calls: the registry
\* points to places where the project is, through overlapping calls, splits, merges and
\* stale removals.
THEOREM RegisteredStaysPlaced ==
    ASSUME CubeAssumption
    PROVE  Spec => [](TypeOK /\ RegisteredIsPlaced)
<1>1. CubeInv => TypeOK /\ RegisteredIsPlaced
    BY DEF CubeInv, CallsKnown, WellPlaced, Rooted, TypeOK, RegisteredIsPlaced
<1>. QED BY <1>1, CubeInvariant, PTL

\* Calls made one after the other leave a project in no node but the one it is
\* registered at.
THEOREM SerialCallsKeepAgreement ==
    ASSUME CubeAssumption
    PROVE  Spec => []SerialCallsAgree
<1>1. CubeInv => SerialCallsAgree
    BY DEF CubeInv, Alone, Agreed, SerialCallsAgree
<1>. QED BY <1>1, CubeInvariant, PTL

\* A call that ends gives back the locks it has: once all have ended and none has timed
\* out, every lock is free.
THEOREM LocksReturned ==
    ASSUME CubeAssumption
    PROVE  Spec => []LocksComeBack
<1>1. CubeInv => LocksComeBack
  <2> SUFFICES ASSUME CubeInv, ~timedOut, \A o \in Op : ~InFlight(o), NEW x \in CubePath
               PROVE  lockq[x] = << >>
      BY DEF LocksComeBack
  <2>1. \A o \in Op, i \in {1, 2} : ~Waits(o, i, x) /\ ~Holds(o, i, x)
      BY DEF CubeInv, CallsKnown, InFlight, Waits, Holds
  <2>2. \A o \in Op, i \in {1, 2} : ~Stands(lockq, o, i, x)
      BY <2>1 DEF CubeInv, Queues, Meant
  <2>3. lockq[x] \in Seq(Op \X {1, 2})
      BY DEF CubeInv, Queues, QueueType
  <2> SUFFICES ASSUME lockq[x] # << >> PROVE FALSE
      OBVIOUS
  <2>4. 1 \in 1 .. Len(lockq[x]) /\ lockq[x][1] \in Op \X {1, 2}
      BY <2>3
  <2>5. PICK o \in Op, i \in {1, 2} : lockq[x][1] = <<o, i>>
      BY <2>4
  <2>. QED BY <2>2, <2>4, <2>5 DEF Stands
<1>. QED BY <1>1, CubeInvariant, PTL

\* A split, a merge or the removal of a project takes no other project out of the
\* registry, in any engine.
THEOREM OthersStayRegistered ==
    ASSUME CubeAssumption
    PROVE  Spec => OnlyOwnCallsUnregister
<1>1. CubeInv /\ [Next]_vars =>
        [\A p \in Project : where[p] # NoPath /\ where'[p] = NoPath =>
             \E o \in Op : op[o].p = p /\ op'[o].pc # op[o].pc]_vars
    BY PlacedStays DEF Next, vars
<1>. QED BY <1>1, CubeInvariant, PTL DEF Spec, OnlyOwnCallsUnregister

-----------------------------------------------------------------------------
(* CubeEngine, the flat engine.                                            *)

\* What the proof asks of the constants; the engine's capacity is a number and
\* its index answers undefined for a project it does not hold.
CellsAssumption == IsFiniteSet(Shelved) /\ MaxPerCell \in Nat /\ NoCell \notin Cell

LEMMA SameNumber == \A S : Flat!Cardinality(S) = Cardinality(S)
    BY DEF Flat!Cardinality, Cardinality

\* A cell is below its capacity and gets one project more, or loses some.
LEMMA RoomForOne ==
    ASSUME CellsAssumption, NEW S \in SUBSET Shelved, NEW T \in SUBSET Shelved,
           NEW p \in Shelved, T \subseteq S \cup {p}, Cardinality(S) < MaxPerCell
    PROVE  Cardinality(T) <= MaxPerCell
<1>1. IsFiniteSet(S) BY FS_Subset DEF CellsAssumption
<1>2. /\ IsFiniteSet(S \cup {p})
      /\ Cardinality(S \cup {p}) \in {Cardinality(S), Cardinality(S) + 1}
      BY <1>1, FS_AddElement
<1>3. Cardinality(T) <= Cardinality(S \cup {p}) /\ IsFiniteSet(T) BY <1>2, FS_Subset
<1>4. Cardinality(S) \in Nat /\ Cardinality(T) \in Nat BY <1>1, <1>3, FS_CardinalityType
<1>5. QED BY <1>2, <1>3, <1>4 DEF CellsAssumption

LEMMA FewerFit ==
    ASSUME CellsAssumption, NEW S \in SUBSET Shelved, NEW T \in SUBSET S,
           Cardinality(S) <= MaxPerCell
    PROVE  Cardinality(T) <= MaxPerCell
<1>1. IsFiniteSet(S) BY FS_Subset DEF CellsAssumption
<1>2. Cardinality(T) <= Cardinality(S) /\ IsFiniteSet(T) BY <1>1, FS_Subset
<1>3. Cardinality(S) \in Nat /\ Cardinality(T) \in Nat BY <1>1, <1>2, FS_CardinalityType
<1>4. QED BY <1>2, <1>3 DEF CellsAssumption

\* A project taken out of the cell it is in, if it is in one.
LEMMA WithoutProject ==
    ASSUME NEW f \in [Cell -> SUBSET Shelved], NEW i, NEW p
    PROVE  [f EXCEPT ![i] = @ \ {p}] = [d \in Cell |-> IF d = i THEN f[d] \ {p} ELSE f[d]]
    OBVIOUS

LEMMA EntersSound ==
    ASSUME CellsAssumption, Flat!CellsSound, NEW p \in Shelved, NEW c \in Cell,
           Flat!Index(p, c) \/ Flat!Move(p, c)
    PROVE  Flat!CellsSound'
<1> DEFINE rest == [d \in Cell |-> IF d = projectIndex[p] THEN cells[d] \ {p} ELSE cells[d]]
<1> USE DEF Flat!CellsSound, Flat!TypeOK
<1>1. /\ cells' = [d \in Cell |-> IF d = c THEN rest[d] \cup {p} ELSE rest[d]]
      /\ projectIndex' = [projectIndex EXCEPT ![p] = c]
  <2>1. CASE Flat!Index(p, c)
    <3>1. cells[c] \cup {p} = rest[c] \cup {p} OBVIOUS
    <3>2. QED BY <2>1, <3>1 DEF Flat!Index
  <2>2. CASE Flat!Move(p, c)
    <3>1. [cells EXCEPT ![projectIndex[p]] = @ \ {p}] = rest
      <4>1. cells \in [Cell -> SUBSET Shelved]
          OBVIOUS
      <4>. QED BY ONLY <4>1, WithoutProject DEF rest
    <3>2. QED BY <2>2, <3>1 DEF Flat!Move
  <2>3. QED BY <2>1, <2>2
<1>2. rest \in [Cell -> SUBSET Shelved] /\ \A d \in Cell : rest[d] \subseteq cells[d] OBVIOUS
<1>3. \A d \in Cell : p \notin rest[d] BY DEF Flat!CellsMatchIndex
<1>4. Flat!TypeOK' BY <1>1, <1>2
<1>5. Flat!CellsMatchIndex' BY <1>1, <1>2, <1>3 DEF Flat!CellsMatchIndex
<1>6. ASSUME NEW d \in Cell PROVE Cardinality(cells'[d]) <= MaxPerCell
  <2>1. CASE d # c
    <3>1. cells'[d] \in SUBSET cells[d] BY <1>1, <1>2, <2>1
    <3>2. QED BY <3>1, FewerFit, SameNumber DEF Flat!WithinCapacity
  <2>2. CASE d = c /\ Flat!Index(p, c)
    <3>1. ~(Cardinality(cells[c]) >= MaxPerCell) BY <2>2, SameNumber DEF Flat!Index, Flat!Full
    <3>2. Cardinality(cells[c]) \in Nat BY FS_Subset, FS_CardinalityType DEF CellsAssumption
    <3>3. Cardinality(cells[c]) < MaxPerCell BY <3>1, <3>2 DEF CellsAssumption
    <3>4. cells'[c] \subseteq cells[c] \cup {p} /\ cells'[c] \in SUBSET Shelved BY <1>1, <1>2
    <3>5. QED BY <2>2, <3>3, <3>4, RoomForOne
  <2>3. CASE d = c /\ Flat!Move(p, c)
    <3>1. [cells EXCEPT ![projectIndex[p]] = @ \ {p}] = rest
      <4>1. cells \in [Cell -> SUBSET Shelved]
          OBVIOUS
      <4>. QED BY ONLY <4>1, WithoutProject DEF rest
    <3>2. ~(Cardinality(rest[c]) >= MaxPerCell) BY <2>3, <3>1, SameNumber DEF Flat!Move, Flat!Full
    <3>3. rest[c] \in SUBSET Shelved /\ Cardinality(rest[c]) \in Nat
          BY <1>2, FS_Subset, FS_CardinalityType DEF CellsAssumption
    <3>4. Cardinality(rest[c]) < MaxPerCell BY <3>2, <3>3 DEF CellsAssumption
    <3>5. cells'[c] \subseteq rest[c] \cup {p} /\ cells'[c] \in SUBSET Shelved BY <1>1, <1>2
    <3>6. QED BY <2>3, <3>3, <3>4, <3>5, RoomForOne
  <2>4. QED BY <2>1, <2>2, <2>3
<1>7. QED BY <1>4, <1>5, <1>6, SameNumber DEF Flat!WithinCapacity

LEMMA RemoveSound ==
    ASSUME CellsAssumption, Flat!CellsSound, NEW p \in Shelved, Flat!Remove(p)
    PROVE  Flat!CellsSound'
<1> USE DEF Flat!CellsSound, Flat!TypeOK
<1>1. Flat!TypeOK' BY DEF Flat!Remove
<1>2. Flat!CellsMatchIndex' BY DEF Flat!Remove, Flat!CellsMatchIndex, CellsAssumption
<1>3. ASSUME NEW d \in Cell PROVE Cardinality(cells'[d]) <= MaxPerCell
  <2>1. cells'[d] \in SUBSET cells[d] BY DEF Flat!Remove
  <2>2. QED BY <2>1, FewerFit, SameNumber DEF Flat!WithinCapacity
<1>4. QED BY <1>1, <1>2, <1>3, SameNumber DEF Flat!WithinCapacity

\* CubeEngine, for any projects, cells and capacity: whatever sequence of index,
\* remove and move calls, cells and index say the same and no cell is overfull.
THEOREM CellsStaySound ==
    ASSUME CellsAssumption
    PROVE  Flat!Spec => []Flat!CellsSound
<1>1. Flat!Init => Flat!CellsSound
  <2>1. Flat!Init => Flat!TypeOK /\ Flat!CellsMatchIndex
        BY DEF Flat!Init, Flat!TypeOK, Flat!CellsMatchIndex, CellsAssumption
  <2>2. Cardinality({}) = 0 BY FS_EmptySet
  <2>3. Flat!Init => Flat!WithinCapacity
        BY <2>2, SameNumber DEF Flat!Init, Flat!WithinCapacity, CellsAssumption
  <2>4. QED BY <2>1, <2>3 DEF Flat!CellsSound
<1>2. Flat!CellsSound /\ [Flat!Next]_Flat!vars => Flat!CellsSound'
  <2> SUFFICES ASSUME Flat!CellsSound, [Flat!Next]_Flat!vars PROVE Flat!CellsSound' OBVIOUS
  <2>1. CASE UNCHANGED Flat!vars
        BY <2>1 DEF Flat!vars, Flat!CellsSound, Flat!TypeOK, Flat!CellsMatchIndex,
                    Flat!WithinCapacity
  <2>2. ASSUME NEW p \in Shelved, Flat!Remove(p) PROVE Flat!CellsSound' BY <2>2, RemoveSound
  <2>3. ASSUME NEW p \in Shelved, NEW c \in Cell, Flat!Index(p, c) \/ Flat!Move(p, c)
        PROVE  Flat!CellsSound'
        BY <2>3, EntersSound
  <2>4. ASSUME NEW p \in Shelved, NEW c \in Cell, Flat!MoveRefused(p, c) PROVE Flat!CellsSound'
        BY <2>1, <2>4 DEF Flat!MoveRefused, Flat!vars
  <2>5. QED BY <2>1, <2>2, <2>3, <2>4 DEF Flat!Next
<1>3. QED BY <1>1, <1>2, PTL DEF Flat!Spec

-----------------------------------------------------------------------------
(* Pulse: ranking, rotation and restart.                                   *)

\* What the proofs ask of the constants: the source lists a project once, scores are
\* numbers, a project may be on top for one pulse at least, and the Map of records
\* answers undefined, which is no record, for a project without one.
PulseAssumption ==
    /\ Order \in Seq(Listed) /\ Ranks!IsInjective(Order)
    /\ Merit \in [Listed -> Int]
    /\ GapCap \in Int /\ CountCap \in Int /\ PenaltyWeight \in Int
    /\ BanPenalty \in Nat /\ DemoteSteps \in Nat /\ MaxConsecutiveTop \in Nat \ {0}
    /\ MaxPulse \in Nat \ {0} /\ MaxTicks \in Nat
    /\ NoRecord \notin [lastTop : Int, topCount : Int, first : Int, penalty : Int]

StrictOrder(S, R) ==
    /\ \A p \in S, q \in S : p # q => <<p, q>> \in R \/ <<q, p>> \in R
    /\ \A p \in S : <<p, p>> \notin R
    /\ \A p \in S, q \in S, r \in S : <<p, q>> \in R /\ <<q, r>> \in R => <<p, r>> \in R

SortedBy(s, S, R) ==
    /\ s \in [1 .. Cardinality(S) -> S]
    /\ \A i, j \in DOMAIN s : s[i] = s[j] => i = j
    /\ \A i, j \in DOMAIN s : i < j => <<s[i], s[j]>> \in R

\* The elements of a finite set can be put in the order of a strict linear order on it.
LEMMA Sorting ==
    ASSUME NEW S, IsFiniteSet(S), NEW R, StrictOrder(S, R)
    PROVE  \E s : SortedBy(s, S, R)
<1> USE DEF StrictOrder
<1> DEFINE n == Cardinality(S)
           below(p) == {q \in S : <<q, p>> \in R}
           rank == [p \in S |-> Cardinality(below(p)) + 1]
<1>1. n \in Nat
    BY FS_CardinalityType
<1>2. ASSUME NEW p \in S
      PROVE  IsFiniteSet(below(p)) /\ Cardinality(below(p)) \in 0 .. n - 1
  <2>1. below(p) \in SUBSET S /\ below(p) # S
      OBVIOUS
  <2>2. IsFiniteSet(below(p)) /\ Cardinality(below(p)) <= n /\ Cardinality(below(p)) # n
      BY <2>1, FS_Subset
  <2>. QED BY <1>1, <2>2, FS_CardinalityType
<1>3. ASSUME NEW p \in S, NEW q \in S, <<p, q>> \in R
      PROVE  rank[p] < rank[q]
  <2>1. below(p) \in SUBSET below(q) /\ p \in below(q) \ below(p)
      BY <1>3
  <2>2. Cardinality(below(p)) <= Cardinality(below(q)) /\ Cardinality(below(p)) # Cardinality(below(q))
      BY <1>2, <2>1, FS_Subset
  <2>3. Cardinality(below(p)) \in Int /\ Cardinality(below(q)) \in Int
      BY <1>2, <1>1
  <2>4. rank[p] = Cardinality(below(p)) + 1 /\ rank[q] = Cardinality(below(q)) + 1
      OBVIOUS
  <2>. HIDE DEF rank, below
  <2>. QED BY <2>2, <2>3, <2>4
<1>4. rank \in [S -> 1 .. n]
  <2>1. ASSUME NEW p \in S PROVE Cardinality(below(p)) + 1 \in 1 .. n
    <3>1. Cardinality(below(p)) \in 0 .. n - 1
        BY <1>2
    <3>. HIDE DEF below
    <3>. QED BY <1>1, <3>1
  <2>. QED BY <2>1
<1>. HIDE DEF rank, below
<1>5. ASSUME NEW p \in S, NEW q \in S, rank[p] = rank[q]
      PROVE  p = q
  <2>1. rank[p] \in Int /\ rank[q] \in Int
      BY <1>1, <1>4
  <2>2. ~(rank[p] < rank[q]) /\ ~(rank[q] < rank[p])
      BY <1>5, <2>1
  <2>. QED BY <1>3, <2>2
<1>6. rank \in Injection(S, 1 .. n)
    BY <1>4, <1>5 DEF Injection, IsInjective
<1>7. IsFiniteSet(1 .. n) /\ Cardinality(1 .. n) = n
    BY <1>1, FS_Interval
<1>8. rank \in Surjection(S, 1 .. n)
    BY <1>6, <1>7, FS_Injection
<1>9. \A i \in 1 .. n : \E p \in S : rank[p] = i
    BY <1>8 DEF Surjection
<1> DEFINE s == [i \in 1 .. n |-> CHOOSE p \in S : rank[p] = i]
<1>10. \A i \in 1 .. n : s[i] \in S /\ rank[s[i]] = i
    BY <1>9
<1>11. s \in [1 .. n -> S] /\ DOMAIN s = 1 .. n
    BY <1>10
<1>. HIDE DEF s
<1>12. \A i, j \in DOMAIN s : s[i] = s[j] => i = j
    BY <1>10, <1>11
<1>13. ASSUME NEW i \in DOMAIN s, NEW j \in DOMAIN s, i < j
       PROVE  <<s[i], s[j]>> \in R
  <2>1. s[i] \in S /\ s[j] \in S /\ rank[s[i]] = i /\ rank[s[j]] = j
      BY <1>10, <1>11
  <2>2. i \in Int /\ j \in Int /\ ~(rank[s[j]] < rank[s[i]]) /\ rank[s[i]] # rank[s[j]]
      BY <1>1, <1>11, <1>13, <2>1
  <2>. QED BY <1>3, <2>1, <2>2
<1>. QED BY <1>11, <1>12, <1>13 DEF SortedBy

\* The records of the pulses up to now, when ticks have come to an end.
Record(now, ended) == [lastTop : 0 .. now, topCount : 0 .. ended, first : 1 .. MaxPulse,
                       penalty : 0 .. BanPenalty]
Ended == IF ticking THEN ticks - 1 ELSE ticks

\* What a project that is on top without having been promoted has been booked, and so
\* how long it may stay.
TopBooked ==
    ~streak.promoted /\ streak.n # 0 =>
        /\ streak.top \in Listed /\ fairness[streak.top] # NoRecord
        /\ fairness[streak.top].lastTop = shownPulse /\ shownPulse # 0
        /\ fairness[streak.top].topCount >= streak.n
        /\ streak.n <= MaxConsecutiveTop

\* The clocks agree, the records are of the past, and the latest saved state has the
\* keys of all records there are.
PulseInv ==
    /\ running \in BOOLEAN /\ ticking \in BOOLEAN
    /\ ticks \in 0 .. MaxTicks /\ (ticking => ticks # 0)
    /\ pulse \in 1 .. MaxPulse /\ tickPulse \in 1 .. pulse /\ shownPulse \in 0 .. tickPulse
    /\ fairness \in [Listed -> Record(shownPulse, Ended) \cup {NoRecord}]
    /\ shown \in Seq(Listed) /\ Ranks!IsInjective(shown)
    /\ saved # << >> => saved[1].ids = Ranks!Keys(fairness)
    /\ streak \in [top : Listed \cup {NoProject}, promoted : BOOLEAN, n : Nat]
    /\ TopBooked

LEMMA RecordIsRecord ==
    ASSUME PulseAssumption, NEW now \in Nat, NEW ended \in Nat,
           NEW r \in Record(now, ended)
    PROVE  /\ r # NoRecord
           /\ r.lastTop \in 0 .. now /\ r.topCount \in 0 .. ended
           /\ r.first \in 1 .. MaxPulse /\ r.penalty \in 0 .. BanPenalty
<1>1. r \in [lastTop : Int, topCount : Int, first : Int, penalty : Int]
    BY DEF Record, PulseAssumption
<1>. QED BY <1>1 DEF Record, PulseAssumption

LEMMA ScoreIsNumber ==
    ASSUME PulseAssumption, PulseInv, NEW p \in Listed, NEW now \in Int
    PROVE  Ranks!Score(p, now) \in Int
<1>1. shownPulse \in Nat /\ Ended \in Nat
    BY DEF PulseInv, Ended, PulseAssumption
<1>2. fairness[p] # NoRecord =>
        /\ fairness[p].lastTop \in Int /\ fairness[p].topCount \in Int
        /\ fairness[p].first \in Int /\ fairness[p].penalty \in Int
  <2>1. SUFFICES ASSUME fairness[p] # NoRecord
                 PROVE  /\ fairness[p].lastTop \in Int /\ fairness[p].topCount \in Int
                        /\ fairness[p].first \in Int /\ fairness[p].penalty \in Int
      OBVIOUS
  <2>2. fairness[p] \in Record(shownPulse, Ended)
      BY <2>1 DEF PulseInv
  <2>. QED BY <1>1, <2>2, RecordIsRecord
<1> DEFINE r == fairness[p]
           gap == IF r = NoRecord THEN 1
                  ELSE IF r.lastTop # 0 THEN now - r.lastTop ELSE now - r.first + 1
           count == IF r = NoRecord THEN 0 ELSE r.topCount
           penalty == IF r = NoRecord THEN 0 ELSE r.penalty
<1>3. gap \in Int /\ count \in Int /\ penalty \in Int
    BY <1>2
<1>4. Ranks!Score(p, now) = Ranks!Larger(0, Merit[p] + Ranks!Smaller(GapCap, gap)
              + Ranks!Larger(0, CountCap - count) - PenaltyWeight * penalty)
    BY DEF Ranks!Score
<1>. HIDE DEF gap, count, penalty
<1>5. /\ Merit[p] \in Int /\ Ranks!Smaller(GapCap, gap) \in Int
      /\ Ranks!Larger(0, CountCap - count) \in Int /\ PenaltyWeight * penalty \in Int
    BY <1>3 DEF PulseAssumption, Ranks!Smaller, Ranks!Larger
<1>. QED BY <1>4, <1>5 DEF Ranks!Larger

\* The source's order of its projects.
LEMMA EarlierOrders ==
    ASSUME PulseAssumption
    PROVE  /\ \A p, q \in Ranks!ToSet(Order) :
                 p # q => Ranks!Earlier(p, q) \/ Ranks!Earlier(q, p)
           /\ \A p \in Ranks!ToSet(Order) : ~Ranks!Earlier(p, p)
           /\ \A p, q, r \in Ranks!ToSet(Order) :
                 Ranks!Earlier(p, q) /\ Ranks!Earlier(q, r) => Ranks!Earlier(p, r)
           /\ Ranks!ToSet(Order) \subseteq Listed /\ IsFiniteSet(Ranks!ToSet(Order))
<1> DEFINE place(p) == CHOOSE i \in DOMAIN Order : Order[i] = p
<1>1. Order \in [1 .. Len(Order) -> Listed] /\ Len(Order) \in Nat
    BY DEF PulseAssumption
<1>2. \A i, j \in DOMAIN Order : Order[i] = Order[j] => i = j
    BY DEF PulseAssumption, Ranks!IsInjective
<1>3. Ranks!ToSet(Order) = {Order[i] : i \in DOMAIN Order}
    BY DEF Ranks!ToSet
<1>4. \A p \in Ranks!ToSet(Order) : place(p) \in DOMAIN Order /\ Order[place(p)] = p
    BY <1>3
<1>5. \A p, q \in Ranks!ToSet(Order) : Ranks!Earlier(p, q) <=> place(p) < place(q)
    BY <1>2, <1>4 DEF Ranks!Earlier
<1>. HIDE DEF place
<1>6. \A p \in Ranks!ToSet(Order) : place(p) \in Int
    BY <1>1, <1>4
<1>7. Order \in Surjection(1 .. Len(Order), Ranks!ToSet(Order))
    BY <1>1, <1>3 DEF Surjection
<1>8. IsFiniteSet(1 .. Len(Order))
    BY <1>1, FS_Interval
<1>9. IsFiniteSet(Ranks!ToSet(Order))
    BY <1>7, <1>8, FS_Surjection
<1>10. \A p, q \in Ranks!ToSet(Order) : p # q => place(p) # place(q)
    BY <1>4
<1>11. ASSUME NEW p \in Ranks!ToSet(Order), NEW q \in Ranks!ToSet(Order), p # q
       PROVE  Ranks!Earlier(p, q) \/ Ranks!Earlier(q, p)
    BY <1>5, <1>6, <1>10, <1>11
<1>12. ASSUME NEW p \in Ranks!ToSet(Order), NEW q \in Ranks!ToSet(Order),
              NEW r \in Ranks!ToSet(Order), Ranks!Earlier(p, q), Ranks!Earlier(q, r)
       PROVE  Ranks!Earlier(p, r)
  <2>1. place(p) < place(q) /\ place(q) < place(r)
      BY <1>5, <1>12
  <2>2. place(p) < place(r)
      BY <1>6, <2>1
  <2>. QED BY <1>5, <2>2
<1>13. \A p \in Ranks!ToSet(Order) : ~Ranks!Earlier(p, p)
    BY <1>5, <1>6
<1>14. Ranks!ToSet(Order) \subseteq Listed
    BY <1>1, <1>3
<1>. QED BY <1>9, <1>11, <1>12, <1>13, <1>14

\* rank() gives every eligible project among the first maxEntries one place.
LEMMA RankedIs ==
    ASSUME PulseAssumption, PulseInv, NEW now \in Int
    PROVE  LET q == Ranks!Ranked(now)
           IN  q \in Seq(Listed) /\ Ranks!IsInjective(q)
<1> DEFINE E == Ranks!Entries
           R == {x \in E \X E : Ranks!Before(x[1], x[2], now)}
           Good(s) == /\ Ranks!IsInjective(s)
                      /\ \A i, j \in DOMAIN s : i < j => Ranks!Before(s[i], s[j], now)
<1>1. E \subseteq Ranks!ToSet(Order)
    BY DEF Ranks!Entries
<1>2. IsFiniteSet(E) /\ E \subseteq Listed
    BY <1>1, EarlierOrders, FS_Subset
<1>3. Cardinality(E) \in Nat
    BY <1>2, FS_CardinalityType
<1>4. \A p \in E : Ranks!Score(p, now) \in Int
    BY <1>2, ScoreIsNumber
<1>5. \A p, q \in E : <<p, q>> \in R <=>
          \/ Ranks!Score(p, now) > Ranks!Score(q, now)
          \/ Ranks!Score(p, now) = Ranks!Score(q, now) /\ Ranks!Earlier(p, q)
    BY DEF Ranks!Before
<1>. HIDE DEF E, R
<1>6. ASSUME NEW p \in E, NEW q \in E, p # q
      PROVE  <<p, q>> \in R \/ <<q, p>> \in R
  <2>1. Ranks!Earlier(p, q) \/ Ranks!Earlier(q, p)
      BY <1>1, <1>6, EarlierOrders
  <2>. QED BY <1>4, <1>5, <2>1
<1>7. ASSUME NEW p \in E
      PROVE  <<p, p>> \notin R
  <2>1. ~Ranks!Earlier(p, p)
      BY <1>1, EarlierOrders
  <2>. QED BY <1>4, <1>5, <2>1
<1>8. ASSUME NEW p \in E, NEW q \in E, NEW r \in E, <<p, q>> \in R, <<q, r>> \in R
      PROVE  <<p, r>> \in R
  <2>1. Ranks!Earlier(p, q) /\ Ranks!Earlier(q, r) => Ranks!Earlier(p, r)
      BY <1>1, EarlierOrders
  <2>. QED BY <1>4, <1>5, <1>8, <2>1
<1>14. StrictOrder(E, R)
    BY <1>6, <1>7, <1>8 DEF StrictOrder
<1>9. PICK s : SortedBy(s, E, R)
    BY <1>2, <1>14, Sorting
<1>10. s \in [1 .. Cardinality(E) -> E] /\ Good(s)
    BY <1>9 DEF SortedBy, R, Ranks!IsInjective
<1>11. Ranks!Cardinality(E) = Cardinality(E)
    BY DEF Ranks!Cardinality, Cardinality
<1>12. Ranks!Ranked(now) = CHOOSE t \in [1 .. Cardinality(E) -> E] : Good(t)
    BY <1>11 DEF Ranks!Ranked, E
<1>. HIDE DEF Good
<1>13. Ranks!Ranked(now) \in [1 .. Cardinality(E) -> E] /\ Good(Ranks!Ranked(now))
    BY <1>10, <1>12
<1>15. Ranks!Ranked(now) \in Seq(Listed)
    BY <1>2, <1>3, <1>13
<1>. QED BY <1>13, <1>15 DEF Good

\* Rotation keeps what is listed, once, and moves the first only if it is to go down.
LEMMA RotatedIs ==
    ASSUME PulseAssumption, NEW q \in Seq(Listed), q # << >>, Ranks!IsInjective(q),
           NEW now \in Int
    PROVE  LET u == Ranks!Rotated(q, now)
           IN  /\ u \in Seq(Listed) /\ Ranks!IsInjective(u) /\ Len(u) = Len(q)
               /\ ~Ranks!Demotes(q, now) => u = q
<1> DEFINE u == Ranks!Rotated(q, now)
           to == Ranks!Smaller(DemoteSteps, Len(q) - 1)
           a == SubSeq(q, 2, to + 1)
           b == SubSeq(q, to + 2, Len(q))
<1>1. CASE ~Ranks!Demotes(q, now)
    BY <1>1 DEF Ranks!Rotated
<1>2. CASE Ranks!Demotes(q, now)
  <2>1. Len(q) \in Nat /\ Len(q) >= 1 /\ q[1] \in Listed /\ Head(q) = q[1]
      OBVIOUS
  <2>2. to \in 0 .. Len(q) - 1
      BY <2>1 DEF PulseAssumption, Ranks!Smaller
  <2>3. u = a \o <<Head(q)>> \o b
      BY <1>2 DEF Ranks!Rotated
  <2>. HIDE DEF to, u
  <2>4. a \in Seq(Listed) /\ Len(a) = to /\ \A i \in 1 .. to : a[i] = q[i + 1]
      BY <2>1, <2>2
  <2>5. b \in Seq(Listed) /\ Len(b) = Len(q) - to - 1 /\ \A i \in 1 .. Len(q) - to - 1 : b[i] = q[i + to + 1]
      BY <2>1, <2>2
  <2>. HIDE DEF a, b
  <2> DEFINE c == a \o <<Head(q)>>
  <2>12. c \in Seq(Listed) /\ Len(c) = to + 1
         /\ \A i \in 1 .. to + 1 : c[i] = IF i <= to THEN q[i + 1] ELSE q[1]
    <3>1. <<Head(q)>> \in Seq(Listed) /\ Len(<<Head(q)>>) = 1 /\ <<Head(q)>>[1] = q[1]
        BY <2>1
    <3>2. \A i \in 1 .. to + 1 : c[i] = IF i <= to THEN a[i] ELSE <<Head(q)>>[i - to]
        BY <2>2, <2>4, <3>1
    <3>. QED BY <2>2, <2>4, <3>1, <3>2
  <2>13. u = c \o b
      BY <2>3
  <2>. HIDE DEF c
  <2>6. u \in Seq(Listed) /\ Len(u) = Len(q)
    <3>1. Len(c \o b) = Len(c) + Len(b) /\ c \o b \in Seq(Listed)
        BY <2>5, <2>12
    <3>. QED BY <2>1, <2>2, <2>5, <2>12, <2>13, <3>1
  <2>7. \A i \in 1 .. Len(q) :
            u[i] = IF i <= to THEN q[i + 1] ELSE IF i = to + 1 THEN q[1] ELSE q[i]
    <3>1. \A i \in 1 .. Len(q) : u[i] = IF i <= to + 1 THEN c[i] ELSE b[i - (to + 1)]
        BY <2>1, <2>2, <2>5, <2>12, <2>13
    <3>2. \A i \in 1 .. Len(q) : i > to + 1 => b[i - (to + 1)] = q[i]
        BY <2>1, <2>2, <2>5
    <3>. QED BY <2>1, <2>2, <2>12, <3>1, <3>2
  <2> DEFINE from(i) == IF i <= to THEN i + 1 ELSE IF i = to + 1 THEN 1 ELSE i
  <2>8. \A i \in 1 .. Len(q) : from(i) \in 1 .. Len(q) /\ u[i] = q[from(i)]
      BY <2>1, <2>2, <2>7
  <2>9. \A i, j \in 1 .. Len(q) : from(i) = from(j) => i = j
      BY <2>1, <2>2
  <2>10. \A i, j \in 1 .. Len(q) : q[i] = q[j] => i = j
      BY DEF Ranks!IsInjective
  <2>. HIDE DEF from
  <2>11. \A i, j \in 1 .. Len(q) : u[i] = u[j] => i = j
      BY <2>8, <2>9, <2>10
  <2>. QED BY <1>2, <2>6, <2>11 DEF Ranks!IsInjective, u
<1>. QED BY <1>1, <1>2

\* apply() keeps every record one of the past and books the pulse to the first.
LEMMA BookedIs ==
    ASSUME PulseAssumption, PulseInv, ticking, NEW q \in Seq(Listed), q # << >>
    PROVE  LET f == Ranks!Booked(q, tickPulse)
               r == IF fairness[q[1]] = NoRecord THEN 0 ELSE fairness[q[1]].topCount
           IN  /\ f \in [Listed -> Record(tickPulse, ticks) \cup {NoRecord}]
               /\ q[1] \in Listed /\ f[q[1]] # NoRecord
               /\ f[q[1]].lastTop = tickPulse /\ f[q[1]].topCount = r + 1 /\ r \in Nat
<1> DEFINE f == Ranks!Booked(q, tickPulse)
           r(p) == Ranks!RecordOf(p, tickPulse)
           now == tickPulse
<1>1. /\ shownPulse \in 0 .. now /\ now \in 1 .. MaxPulse /\ Ended \in 0 .. ticks - 1
      /\ MaxPulse \in Nat /\ ticks \in Nat
    BY DEF PulseInv, Ended, PulseAssumption
<1>2. q[1] \in Listed /\ q[1] \in Ranks!ToSet(q) /\ Head(q) = q[1]
    BY DEF Ranks!ToSet
<1>3. ASSUME NEW p \in Listed
      PROVE  /\ r(p).lastTop \in 0 .. now /\ r(p).topCount \in 0 .. ticks - 1
             /\ r(p).first \in 1 .. MaxPulse /\ r(p).penalty \in 0 .. BanPenalty
             /\ r(p) = [lastTop |-> r(p).lastTop, topCount |-> r(p).topCount,
                        first |-> r(p).first, penalty |-> r(p).penalty]
             /\ r(p).topCount = IF fairness[p] = NoRecord THEN 0 ELSE fairness[p].topCount
  <2>1. CASE fairness[p] = NoRecord
    <3>1. r(p) = [lastTop |-> 0, topCount |-> 0, first |-> now, penalty |-> 0]
        BY <2>1 DEF Ranks!RecordOf, Ranks!Known, Ranks!Fresh
    <3>2. 0 \in 0 .. now /\ 0 \in 0 .. ticks - 1 /\ 0 \in 0 .. BanPenalty
        BY <1>1 DEF PulseAssumption
    <3>. HIDE DEF r
    <3>. QED BY <1>1, <2>1, <3>1, <3>2
  <2>2. CASE fairness[p] # NoRecord
    <3>1. r(p) = fairness[p]
        BY <2>2 DEF Ranks!RecordOf, Ranks!Known
    <3>2. r(p) \in Record(shownPulse, Ended)
        BY <2>2, <3>1 DEF PulseInv
    <3>. QED BY <1>1, <2>2, <3>1, <3>2 DEF Record
  <2>. QED BY <2>1, <2>2
<1>4. \A p \in Listed :
          f[p] = IF p \notin Ranks!ToSet(q) THEN fairness[p]
                 ELSE IF p = q[1] THEN [r(p) EXCEPT !.lastTop = now, !.topCount = @ + 1]
                 ELSE r(p)
    BY <1>2 DEF Ranks!Booked
<1>5. f = [p \in Listed |-> f[p]]
    BY DEF Ranks!Booked
<1>. HIDE DEF r, f
<1>6. \A p \in Listed : r(p) \in Record(now, ticks)
  <2> SUFFICES ASSUME NEW p \in Listed PROVE r(p) \in Record(now, ticks)
      OBVIOUS
  <2>1. r(p).topCount \in 0 .. ticks
      BY <1>1, <1>3
  <2>. QED BY <1>3, <2>1 DEF Record
<1>7. f[q[1]] = [lastTop |-> now, topCount |-> r(q[1]).topCount + 1,
                 first |-> r(q[1]).first, penalty |-> r(q[1]).penalty]
  <2> DEFINE a == r(q[1])
  <2>1. a = [lastTop |-> a.lastTop, topCount |-> a.topCount, first |-> a.first, penalty |-> a.penalty]
      BY <1>2, <1>3
  <2>2. f[q[1]] = [a EXCEPT !.lastTop = now, !.topCount = @ + 1]
      BY <1>2, <1>4
  <2>. HIDE DEF a
  <2>3. f[q[1]] = [lastTop |-> now, topCount |-> a.topCount + 1, first |-> a.first,
                   penalty |-> a.penalty]
      BY <2>1, <2>2
  <2>. QED BY <2>3 DEF a
<1>8. r(q[1]).topCount + 1 \in 0 .. ticks /\ now \in 0 .. now
  <2> DEFINE k == r(q[1]).topCount
  <2>1. k \in 0 .. ticks - 1
      BY <1>2, <1>3
  <2>. HIDE DEF k
  <2>2. k + 1 \in 0 .. ticks /\ now \in 0 .. now
      BY <1>1, <2>1
  <2>. QED BY <2>2 DEF k
<1>9. f[q[1]] \in Record(now, ticks)
    BY <1>2, <1>3, <1>7, <1>8 DEF Record
<1>10. f[q[1]] # NoRecord
    BY <1>1, <1>9, RecordIsRecord
<1>11. ASSUME NEW p \in Listed
       PROVE  f[p] \in Record(now, ticks) \cup {NoRecord}
  <2>1. fairness[p] \in Record(now, ticks) \cup {NoRecord}
    <3>1. fairness[p] \in Record(shownPulse, Ended) \cup {NoRecord}
        BY DEF PulseInv
    <3>2. 0 .. shownPulse \subseteq 0 .. now /\ 0 .. Ended \subseteq 0 .. ticks
        BY <1>1
    <3>. QED BY <3>1, <3>2 DEF Record
  <2>. QED BY <1>4, <1>6, <1>9, <2>1
<1>12. f \in [Listed -> Record(now, ticks) \cup {NoRecord}]
    BY <1>5, <1>11
<1>13. r(q[1]).topCount \in Nat
    BY <1>1, <1>2, <1>3
<1>. QED BY <1>2, <1>3, <1>7, <1>10, <1>12, <1>13 DEF f

\* What start() restores is what was there.
LEMMA RestoredIs ==
    ASSUME PulseInv
    PROVE  Ranks!Restored = fairness
<1>1. CASE saved = << >>
    BY <1>1 DEF Ranks!Restored
<1>2. CASE saved # << >>
  <2>1. saved[1].ids = {p \in Listed : fairness[p] # NoRecord}
      BY <1>2 DEF PulseInv, Ranks!Keys
  <2>2. fairness = [p \in Listed |-> fairness[p]]
      BY DEF PulseInv
  <2>3. [p \in Listed |-> IF p \in saved[1].ids THEN fairness[p] ELSE NoRecord] = fairness
      BY <2>1, <2>2
  <2>. QED BY <2>3 DEF Ranks!Restored
<1>. QED BY <1>1, <1>2

\* _tick after the await.
LEMMA ProjectsKeeps ==
    ASSUME PulseAssumption, PulseInv, Ranks!Projects
    PROVE  PulseInv'
<1> DEFINE now == tickPulse
           q == Ranks!Ranked(now)
           list == IF q = << >> THEN << >> ELSE Ranks!Rotated(q, now)
           f == IF q = << >> THEN fairness ELSE Ranks!Booked(q, now)
<1>1. /\ ticking /\ ticking' = FALSE /\ fairness' = f
      /\ shown' = list /\ shownPulse' = now /\ streak' = Ranks!Spell(q, list)
      /\ saved' = <<[ids |-> Ranks!Keys(fairness'), sum |-> fairness']>>
      /\ UNCHANGED <<running, tickPulse, source, pulse, archived, ticks>>
    BY DEF Ranks!Projects
<1>2. now \in Int /\ now \in 1 .. pulse /\ pulse \in 1 .. MaxPulse /\ MaxPulse \in Nat
      /\ shownPulse \in 0 .. now /\ ticks \in 0 .. MaxTicks /\ Ended = ticks - 1 /\ ticks # 0
    BY <1>1 DEF PulseInv, Ended, PulseAssumption
<1>3. q \in Seq(Listed) /\ Ranks!IsInjective(q)
    BY <1>2, RankedIs
<1>4. Ended' = ticks /\ ticks' = ticks /\ tickPulse' = now /\ pulse' = pulse
    BY <1>1 DEF Ended
<1>. HIDE DEF q
<1>5. list \in Seq(Listed) /\ Ranks!IsInjective(list)
  <2>1. CASE q = << >>
      BY <1>3, <2>1
  <2>2. CASE q # << >>
      BY <1>2, <1>3, <2>2, RotatedIs
  <2>. QED BY <2>1, <2>2
<1>6. f \in [Listed -> Record(now, ticks) \cup {NoRecord}]
  <2>1. CASE q = << >>
    <3>1. 0 .. shownPulse \subseteq 0 .. now /\ 0 .. Ended \subseteq 0 .. ticks
        BY <1>2 DEF PulseAssumption
    <3>2. fairness \in [Listed -> Record(shownPulse, Ended) \cup {NoRecord}]
        BY DEF PulseInv
    <3>. QED BY <2>1, <3>1, <3>2 DEF Record
  <2>2. CASE q # << >>
      BY <1>1, <1>3, <2>2, BookedIs
  <2>. QED BY <2>1, <2>2
<1>7. streak' \in [top : Listed \cup {NoProject}, promoted : BOOLEAN, n : Nat] /\ TopBooked'
  <2> DEFINE top == IF list = << >> THEN NoProject ELSE Head(list)
             promoted == list # << >> /\ Ranks!Demotes(q, now)
  <2>1. streak' = IF Len(list) > 1 /\ streak.top = top /\ streak.promoted = promoted
                  THEN [streak EXCEPT !.n = IF now > shownPulse THEN @ + 1 ELSE @]
                  ELSE [top |-> top, promoted |-> promoted, n |-> IF Len(list) > 1 THEN 1 ELSE 0]
      BY <1>1 DEF Ranks!Spell
  <2>2. top \in Listed \cup {NoProject} /\ promoted \in BOOLEAN
      BY <1>5 DEF Ranks!Demotes
  <2>3. streak \in [top : Listed \cup {NoProject}, promoted : BOOLEAN, n : Nat]
      BY DEF PulseInv
  <2>. HIDE DEF top, promoted, list, f
  <2>4. /\ streak'.top = top /\ streak'.promoted = promoted
        /\ \/ streak'.n \in {0, 1}
           \/ /\ Len(list) > 1 /\ streak.top = top /\ streak.promoted = promoted
              /\ streak'.n = IF now > shownPulse THEN streak.n + 1 ELSE streak.n
        /\ Len(list) > 1 \/ streak'.n = 0
        /\ streak' \in [top : Listed \cup {NoProject}, promoted : BOOLEAN, n : Nat]
    <3>1. CASE Len(list) > 1 /\ streak.top = top /\ streak.promoted = promoted
      <4> DEFINE m == IF now > shownPulse THEN streak.n + 1 ELSE streak.n
      <4>1. m \in Nat
          BY <1>2, <2>3
      <4>2. streak' = [streak EXCEPT !.n = m]
          BY <2>1, <3>1
      <4>3. streak' = [top |-> streak.top, promoted |-> streak.promoted, n |-> m]
          BY <2>3, <4>2
      <4>. QED BY <2>2, <3>1, <4>1, <4>3
    <3>2. CASE ~(Len(list) > 1 /\ streak.top = top /\ streak.promoted = promoted)
      <4> DEFINE m == IF Len(list) > 1 THEN 1 ELSE 0
      <4>1. streak' = [top |-> top, promoted |-> promoted, n |-> m]
          BY <2>1, <3>2
      <4>2. m \in {0, 1} /\ m \in Nat /\ (Len(list) > 1 \/ m = 0)
          OBVIOUS
      <4>. HIDE DEF m
      <4>3. streak' \in [top : Listed \cup {NoProject}, promoted : BOOLEAN, n : Nat]
          BY <2>2, <4>1, <4>2
      <4>4. streak'.top = top /\ streak'.promoted = promoted /\ streak'.n = m
          BY <4>1, Zenon
      <4>5. streak'.n \in {0, 1} /\ (Len(list) > 1 \/ streak'.n = 0)
          BY <4>2, <4>4
      <4>. QED BY <4>3, <4>4, <4>5, Zenon
    <3>. QED BY <3>1, <3>2
  <2>5. ASSUME ~promoted, streak'.n # 0
        PROVE  /\ top \in Listed /\ f[top] # NoRecord
               /\ f[top].lastTop = now /\ now # 0
               /\ f[top].topCount >= streak'.n /\ streak'.n <= MaxConsecutiveTop
    <3>1. Len(list) > 1
        BY <2>4, <2>5
    <3>2. list # << >> /\ q # << >> /\ ~Ranks!Demotes(q, now)
        BY <2>5, <3>1 DEF list, promoted
    <3>3. list = q /\ top = q[1] /\ f = Ranks!Booked(q, now) /\ Head(q) = q[1]
        BY <1>2, <1>3, <3>2, RotatedIs DEF list, top, f
    <3> DEFINE r == IF fairness[top] = NoRecord THEN 0 ELSE fairness[top].topCount
    <3>4. /\ top \in Listed /\ f[top] # NoRecord /\ f[top].lastTop = now
          /\ f[top].topCount = r + 1 /\ r \in Nat
        BY <1>1, <1>3, <3>2, <3>3, BookedIs
    <3>5. streak'.n <= r + 1 /\ streak'.n <= MaxConsecutiveTop
      <4>1. CASE streak'.n \in {0, 1}
          BY <3>4, <4>1 DEF PulseAssumption
      <4>2. CASE /\ streak.top = top /\ streak.promoted = promoted /\ streak.n # 0
                 /\ streak'.n = IF now > shownPulse THEN streak.n + 1 ELSE streak.n
        <5>1. /\ fairness[top] # NoRecord /\ fairness[top].lastTop = shownPulse /\ shownPulse # 0
              /\ fairness[top].topCount >= streak.n /\ streak.n <= MaxConsecutiveTop
            BY <2>5, <4>2 DEF PulseInv, TopBooked
        <5>2. ~(Ranks!Consecutive(top, now) >= MaxConsecutiveTop)
            BY <3>1, <3>2, <3>3 DEF Ranks!Demotes
        <5>3. Ranks!Consecutive(top, now) = now - (shownPulse - (r - 1))
            BY <3>4, <5>1 DEF Ranks!Consecutive, Ranks!Known
        <5>4. r >= streak.n /\ streak.n \in Nat
            BY <2>3, <5>1
        <5>. HIDE DEF r
        <5>. QED BY <1>2, <2>3, <3>4, <4>2, <5>1, <5>2, <5>3, <5>4 DEF PulseAssumption
      <4>3. CASE streak.n = 0 /\ streak'.n = IF now > shownPulse THEN streak.n + 1 ELSE streak.n
          BY <3>4, <4>3 DEF PulseAssumption
      <4>. QED BY <2>4, <4>1, <4>2, <4>3
    <3>. HIDE DEF r
    <3>6. f[top].topCount >= streak'.n
        BY <2>4, <3>4, <3>5
    <3>. QED BY <1>2, <3>4, <3>5, <3>6
  <2>6. TopBooked'
      BY <1>1, <2>4, <2>5 DEF TopBooked, f
  <2>. QED BY <2>4, <2>6
<1>8. saved' # << >> => saved'[1].ids = Ranks!Keys(fairness)'
    BY <1>1 DEF Ranks!Keys
<1>. HIDE DEF list, f
<1>9. now \in 0 .. now
    BY <1>2
<1>. QED BY <1>1, <1>2, <1>4, <1>5, <1>6, <1>7, <1>8, <1>9 DEF PulseInv, Record

\* What a step may do that leaves the records and the list alone.
LEMMA ClocksKeep ==
    ASSUME PulseAssumption, PulseInv,
           UNCHANGED <<fairness, shown, shownPulse, saved, streak>>,
           running' \in BOOLEAN, ticking' \in BOOLEAN,
           ticks' \in 0 .. MaxTicks, ticking' => ticks' # 0, Ended' \in {Ended, Ended + 1},
           pulse' \in 1 .. MaxPulse, tickPulse' \in tickPulse .. pulse'
    PROVE  PulseInv'
<1>1. shownPulse' \in 0 .. tickPulse' /\ tickPulse' \in 1 .. pulse'
    BY DEF PulseInv, PulseAssumption
<1>2. TopBooked'
    BY DEF PulseInv, TopBooked
<1>3. fairness' \in [Listed -> Record(shownPulse, Ended)' \cup {NoRecord}]
  <2>1. Ended \in Nat
      BY DEF PulseInv, Ended, PulseAssumption
  <2>2. 0 .. Ended \subseteq 0 .. Ended'
      BY <2>1
  <2>. QED BY <2>2 DEF PulseInv, Record
<1>. QED BY <1>1, <1>2, <1>3 DEF PulseInv, Ranks!Keys

LEMMA TickingIs ==
    ASSUME PulseAssumption, PulseInv, Ranks!Ticking, pulse' = pulse
    PROVE  /\ ticking' \in BOOLEAN /\ ticks' \in 0 .. MaxTicks /\ (ticking' => ticks' # 0)
           /\ Ended' = Ended /\ pulse' \in 1 .. MaxPulse /\ tickPulse' \in tickPulse .. pulse'
<1>1. /\ ticking \in BOOLEAN /\ ticks \in 0 .. MaxTicks /\ (ticking => ticks # 0)
      /\ pulse \in 1 .. MaxPulse /\ tickPulse \in 1 .. pulse
    BY DEF PulseInv
<1>2. CASE ticking
    BY <1>1, <1>2 DEF Ranks!Ticking, Ended
<1>3. CASE ~ticking
    BY <1>1, <1>3 DEF Ranks!Ticking, Ended, PulseAssumption
<1>. QED BY <1>2, <1>3

\* applyPenalty, clearPenalty.
LEMMA PenaltyKeeps ==
    ASSUME PulseAssumption, PulseInv, NEW p \in Listed, NEW a \in 0 .. BanPenalty,
           Ranks!Penalty(p, a)
    PROVE  PulseInv'
<1>1. /\ fairness[p] # NoRecord /\ a <= BanPenalty
      /\ fairness' = [fairness EXCEPT ![p].penalty = a]
      /\ UNCHANGED <<running, ticking, tickPulse, source, pulse, archived, shown, shownPulse,
                     saved, ticks, streak>>
    BY DEF Ranks!Penalty, Ranks!Known
<1>2. shownPulse \in Nat /\ Ended \in Nat /\ Ended' = Ended
  <2>1. shownPulse \in Nat /\ ticks \in Nat /\ (ticking => ticks # 0)
      BY DEF PulseInv, PulseAssumption
  <2>. QED BY <1>1, <2>1 DEF Ended
<1>3. fairness[p] \in Record(shownPulse, Ended)
    BY <1>1 DEF PulseInv
<1>4. /\ fairness'[p] \in Record(shownPulse, Ended)
      /\ fairness'[p].lastTop = fairness[p].lastTop /\ fairness'[p].topCount = fairness[p].topCount
  <2>1. fairness'[p] = [fairness[p] EXCEPT !.penalty = a]
      BY <1>1 DEF PulseInv
  <2>. QED BY <1>3, <2>1 DEF Record
<1>5. fairness'[p] # NoRecord
    BY <1>2, <1>4, RecordIsRecord
<1>6. \A r \in Listed : r # p => fairness'[r] = fairness[r]
    BY <1>1 DEF PulseInv
<1>7. DOMAIN fairness' = Listed /\ fairness' = [r \in Listed |-> fairness'[r]]
    BY <1>1 DEF PulseInv
<1>8. fairness' \in [Listed -> Record(shownPulse, Ended) \cup {NoRecord}]
    BY <1>4, <1>6, <1>7 DEF PulseInv
<1>9. Ranks!Keys(fairness)' = Ranks!Keys(fairness)
    BY <1>1, <1>5, <1>6 DEF Ranks!Keys
<1>10. TopBooked'
    BY <1>1, <1>4, <1>5, <1>6 DEF PulseInv, TopBooked
<1>. QED BY <1>1, <1>2, <1>8, <1>9, <1>10 DEF PulseInv, Record

THEOREM PulseInvariant ==
    ASSUME PulseAssumption
    PROVE  Ranks!Spec => []PulseInv
<1>1. Ranks!Init => PulseInv
  <2> SUFFICES ASSUME Ranks!Init PROVE PulseInv
      OBVIOUS
  <2>1. << >> \in Seq(Listed) /\ Ranks!IsInjective(<< >>)
      BY DEF Ranks!IsInjective
  <2>2. fairness \in [Listed -> Record(shownPulse, Ended) \cup {NoRecord}]
      BY DEF Ranks!Init
  <2>3. /\ running \in BOOLEAN /\ ticking \in BOOLEAN
        /\ ticks \in 0 .. MaxTicks /\ (ticking => ticks # 0)
        /\ pulse \in 1 .. MaxPulse /\ tickPulse \in 1 .. pulse /\ shownPulse \in 0 .. tickPulse
    <3>1. /\ running = FALSE /\ ticking = FALSE /\ ticks = 0
          /\ pulse = 1 /\ tickPulse = 1 /\ shownPulse = 0
        BY DEF Ranks!Init
    <3>2. MaxPulse \in Nat \ {0} /\ MaxTicks \in Nat
        BY DEF PulseAssumption
    <3>3. /\ ticks \in 0 .. MaxTicks /\ pulse \in 1 .. MaxPulse
          /\ tickPulse \in 1 .. pulse /\ shownPulse \in 0 .. tickPulse
        BY <3>1, <3>2
    <3>. QED BY <3>1, <3>3, Zenon
  <2>4. streak \in [top : Listed \cup {NoProject}, promoted : BOOLEAN, n : Nat] /\ TopBooked
      BY DEF Ranks!Init, TopBooked
  <2>5. shown = << >> /\ saved = << >>
      BY DEF Ranks!Init
  <2>. QED BY <2>1, <2>2, <2>3, <2>4, <2>5 DEF PulseInv
<1>2. PulseInv /\ [Ranks!Next]_Ranks!vars => PulseInv'
  <2> SUFFICES ASSUME PulseInv, [Ranks!Next]_Ranks!vars PROVE PulseInv'
      OBVIOUS
  <2> DEFINE same == UNCHANGED <<fairness, shown, shownPulse, saved, streak>>
  <2>0. /\ running \in BOOLEAN /\ ticking \in BOOLEAN /\ ticks \in 0 .. MaxTicks
        /\ (ticking => ticks # 0) /\ pulse \in 1 .. MaxPulse /\ tickPulse \in 1 .. pulse
        /\ tickPulse \in tickPulse .. pulse
      BY DEF PulseInv
  <2>1. CASE UNCHANGED Ranks!vars
      BY <2>0, <2>1, ClocksKeep DEF Ranks!vars, Ended
  <2>2. CASE Ranks!Start
    <3>1. fairness' = fairness
        BY <2>2, RestoredIs DEF Ranks!Start
    <3>2. Ranks!Ticking /\ running' = TRUE /\ UNCHANGED <<pulse, shown, shownPulse, saved, streak>>
        BY <2>2 DEF Ranks!Start
    <3>. QED BY <3>1, <3>2, TickingIs, ClocksKeep
  <2>3. CASE Ranks!Stop
      BY <2>0, <2>3, ClocksKeep DEF Ranks!Stop, Ended
  <2>4. CASE Ranks!Tick
    <3>1. Ranks!Ticking /\ same /\ UNCHANGED <<running, pulse>>
        BY <2>4 DEF Ranks!Tick
    <3>. QED BY <2>0, <3>1, TickingIs, ClocksKeep
  <2>5. CASE Ranks!SourceFails
    <3>1. same /\ UNCHANGED <<running, tickPulse, pulse, ticks>> /\ ticking /\ ticking' = FALSE
        BY <2>5 DEF Ranks!SourceFails
    <3>2. Ended' \in {Ended, Ended + 1}
        BY <2>0, <3>1 DEF Ended
    <3>. QED BY <2>0, <3>1, <3>2, ClocksKeep
  <2>6. CASE Ranks!Projects
      BY <2>6, ProjectsKeeps
  <2>7. CASE Ranks!ClockTicks
    <3>1. same /\ UNCHANGED <<running, ticking, tickPulse, ticks>>
          /\ pulse < MaxPulse /\ pulse' = pulse + 1
        BY <2>7 DEF Ranks!ClockTicks
    <3>2. pulse' \in 1 .. MaxPulse /\ tickPulse' \in tickPulse .. pulse' /\ Ended' = Ended
        BY <2>0, <3>1 DEF PulseAssumption, Ended
    <3>. QED BY <2>0, <3>1, <3>2, ClocksKeep
  <2>8. ASSUME NEW p \in Listed, Ranks!Archive(p) PROVE PulseInv'
      BY <2>0, <2>8, ClocksKeep DEF Ranks!Archive, Ended
  <2>9. ASSUME NEW p \in Listed, NEW a \in 0 .. BanPenalty, Ranks!Penalty(p, a) PROVE PulseInv'
      BY <2>9, PenaltyKeeps
  <2>. QED BY <2>1, <2>2, <2>3, <2>4, <2>5, <2>6, <2>7, <2>8, <2>9 DEF Ranks!Next
<1>. QED BY <1>1, <1>2, PTL DEF Ranks!Spec

\* PulseScheduler, for any projects, merits, weights and limits: whatever ticks, stops,
\* restarts and penalties, a project that ranks first leaves the top in time, and no
\* project is shown twice.
THEOREM TopRotates ==
    ASSUME PulseAssumption
    PROVE  Ranks!Spec => [](Ranks!TypeOK /\ Ranks!RankedTopRotates /\ Ranks!ShownOnce)
<1>1. ASSUME PulseInv PROVE Ranks!TypeOK
  <2>1. /\ shownPulse \in 0 .. MaxPulse /\ Ended \in 0 .. MaxTicks
        /\ MaxPulse \in Nat /\ MaxTicks \in Nat
      BY <1>1 DEF PulseInv, Ended, PulseAssumption
  <2>2. ASSUME NEW p \in Listed, fairness[p] # NoRecord
        PROVE  fairness[p] \in [lastTop : 0 .. MaxPulse, topCount : 0 .. MaxTicks,
                                first : 1 .. MaxPulse, penalty : 0 .. BanPenalty]
    <3>1. fairness[p] \in Record(shownPulse, Ended)
        BY <1>1, <2>2 DEF PulseInv
    <3>. QED BY <2>1, <3>1 DEF Record
  <2>. QED BY <1>1, <2>1, <2>2 DEF PulseInv, Ranks!TypeOK, Ranks!Known
<1>2. ASSUME PulseInv PROVE Ranks!RankedTopRotates
  <2>1. CASE streak.n = 0
      BY <2>1 DEF Ranks!RankedTopRotates, PulseAssumption
  <2>2. CASE streak.n # 0
      BY <1>2, <2>2 DEF PulseInv, TopBooked, Ranks!RankedTopRotates
  <2>. QED BY <2>1, <2>2
<1>3. PulseInv => Ranks!ShownOnce
    BY DEF PulseInv, Ranks!ShownOnce
<1>4. PulseInv => Ranks!TypeOK /\ Ranks!RankedTopRotates /\ Ranks!ShownOnce
    BY <1>1, <1>2, <1>3
<1>. QED BY <1>4, PulseInvariant, PTL

\* stop() and start() of any scheduler neither forget nor revive anything about a project.
THEOREM RestartsKeepRecords ==
    ASSUME PulseAssumption
    PROVE  Ranks!Spec => Ranks!RestartKeepsFairness
<1>1. PulseInv /\ [Ranks!Next]_Ranks!vars => [running' /\ ~running => fairness' = fairness]_Ranks!vars
  <2> SUFFICES ASSUME PulseInv, Ranks!Next, running', ~running PROVE fairness' = fairness
      OBVIOUS
  <2>1. CASE Ranks!Start
      BY <2>1, RestoredIs DEF Ranks!Start
  <2>2. CASE ~Ranks!Start
    <3>1. running' = running
        BY <2>2 DEF Ranks!Next, Ranks!Stop, Ranks!Tick, Ranks!SourceFails, Ranks!Projects,
                    Ranks!ClockTicks, Ranks!Archive, Ranks!Penalty
    <3>. QED BY <3>1
  <2>. QED BY <2>1, <2>2
<1>. QED BY <1>1, PulseInvariant, PTL DEF Ranks!Spec, Ranks!RestartKeepsFairness

-----------------------------------------------------------------------------
\* What the proof asks of the constants: an eviction drops some keys, not all.
BusAssumption ==
    /\ NoKey \notin Key
    /\ MaxProcessedKeys \in Nat \ {0} /\ EvictBatch \in 1 .. MaxProcessedKeys
    /\ MaxLogSize \in Nat \ {0} /\ MaxEvents \in Nat

Event == [scope : Bus!Scope, key : Key \cup {NoKey}, attempt : Nat, n : Nat,
          from : Bus!Scope \cup {"none"}]

\* A sequence of events, numbered in the order of their emission, in which no
\* INDEX handler has raised a CORE event.
Ordered(s) ==
    /\ s \in Seq(Event)
    /\ \A i \in DOMAIN s, j \in DOMAIN s : i < j => s[i].n < s[j].n
    /\ \A i \in DOMAIN s : s[i].from = "index" => s[i].scope = "index"

Precedes(s, t) == \A i \in DOMAIN s, j \in DOMAIN t : s[i].n < t[j].n
UpTo(s, m) == \A i \in DOMAIN s : s[i].n <= m

LEMMA Numbers ==
    ASSUME NEW s, Ordered(s)
    PROVE  /\ Len(s) \in Nat /\ DOMAIN s = 1 .. Len(s)
           /\ \A i \in DOMAIN s : s[i] \in Event /\ s[i].n \in Nat
<1>1. s \in Seq(Event) BY DEF Ordered
<1>2. Len(s) \in Nat /\ DOMAIN s = 1 .. Len(s) BY <1>1
<1>3. \A i \in 1 .. Len(s) : s[i] \in Event BY <1>1
<1>4. \A x \in Event : x.n \in Nat BY DEF Event
<1>5. QED BY <1>2, <1>3, <1>4

\* One ordered sequence after another is ordered if its numbers are greater.
LEMMA Joined ==
    ASSUME NEW s, NEW t, Ordered(s), Ordered(t), Precedes(s, t)
    PROVE  /\ Ordered(s \o t)
           /\ \A m \in Nat : UpTo(s, m) /\ UpTo(t, m) => UpTo(s \o t, m)
           /\ \A r : Precedes(r, s) /\ Precedes(r, t) => Precedes(r, s \o t)
<1>1. s \in Seq(Event) /\ t \in Seq(Event) BY DEF Ordered
<1>2. /\ s \o t \in Seq(Event) /\ DOMAIN (s \o t) = 1 .. Len(s) + Len(t)
      /\ \A i \in 1 .. Len(s) + Len(t) :
             (s \o t)[i] = IF i <= Len(s) THEN s[i] ELSE t[i - Len(s)]
      BY <1>1
<1> DEFINE st == s \o t
<1> HIDE DEF st
<1>3. /\ st \in Seq(Event) /\ DOMAIN st = 1 .. Len(s) + Len(t)
      /\ \A i \in DOMAIN s : i \in DOMAIN st /\ st[i] = s[i]
      /\ \A i \in DOMAIN st : i \notin DOMAIN s => i - Len(s) \in DOMAIN t /\ st[i] = t[i - Len(s)]
      BY <1>2, Numbers DEF st
<1>4. ASSUME NEW i \in DOMAIN st, NEW j \in DOMAIN st, i < j PROVE st[i].n < st[j].n
  <2>1. CASE j \in DOMAIN s
    <3>1. i \in DOMAIN s BY <1>3, <1>4, <2>1, Numbers
    <3>2. QED BY <1>3, <1>4, <2>1, <3>1 DEF Ordered
  <2>2. CASE i \in DOMAIN s /\ j \notin DOMAIN s BY <1>3, <2>2 DEF Precedes
  <2>3. CASE i \notin DOMAIN s /\ j \notin DOMAIN s
    <3>1. i - Len(s) < j - Len(s) BY <1>3, <1>4, Numbers
    <3>2. QED BY <1>3, <2>3, <3>1 DEF Ordered
  <2>4. CASE i \notin DOMAIN s /\ j \in DOMAIN s BY <1>3, <1>4, <2>4, Numbers
  <2>5. QED BY <2>1, <2>2, <2>3
<1>5. \A i \in DOMAIN st : st[i].from = "index" => st[i].scope = "index"
      BY <1>3 DEF Ordered
<1>6. Ordered(st) BY <1>3, <1>4, <1>5 DEF Ordered
<1>7. \A m \in Nat : UpTo(s, m) /\ UpTo(t, m) => UpTo(st, m) BY <1>3 DEF UpTo
<1>8. \A r : Precedes(r, s) /\ Precedes(r, t) => Precedes(r, st) BY <1>3 DEF Precedes
<1>9. QED BY <1>6, <1>7, <1>8 DEF st

\* Without its head an ordered sequence is ordered, and comes after the head.
LEMMA Beheaded ==
    ASSUME NEW s, Ordered(s), s # <<>>
    PROVE  /\ Ordered(Tail(s)) /\ Ordered(<<Head(s)>>) /\ Precedes(<<Head(s)>>, Tail(s))
           /\ \A m \in Nat : UpTo(s, m) => UpTo(Tail(s), m) /\ UpTo(<<Head(s)>>, m)
           /\ \A r : Precedes(r, s) => Precedes(r, Tail(s)) /\ Precedes(r, <<Head(s)>>)
           /\ \A r : Precedes(s, r) => Precedes(Tail(s), r)
<1>1. s \in Seq(Event) /\ s # <<>> BY DEF Ordered
<1>2. /\ Tail(s) \in Seq(Event) /\ DOMAIN Tail(s) = 1 .. Len(s) - 1
      /\ \A i \in 1 .. Len(s) - 1 : Tail(s)[i] = s[i + 1]
      /\ Head(s) = s[1] /\ Len(s) > 0 /\ Len(s) \in Nat /\ DOMAIN s = 1 .. Len(s)
      BY <1>1
<1> DEFINE t == Tail(s)
           h == <<Head(s)>>
<1>3. h \in Seq(Event) /\ DOMAIN h = {1} /\ h[1] = s[1] BY <1>1, <1>2
<1>4. t \in Seq(Event) /\ \A i \in DOMAIN t : i + 1 \in DOMAIN s /\ i + 1 > 1 /\ t[i] = s[i + 1]
      BY <1>2
<1>5. 1 \in DOMAIN s /\ DOMAIN s \subseteq Nat /\ DOMAIN t \subseteq Nat BY <1>2
<1> HIDE DEF t, h
<1>6. ASSUME NEW i \in DOMAIN t, NEW j \in DOMAIN t, i < j PROVE t[i].n < t[j].n
  <2>1. i + 1 < j + 1 BY <1>5, <1>6
  <2>2. QED BY <1>4, <2>1 DEF Ordered
<1>7. Ordered(t)
  <2>1. \A i \in DOMAIN t : t[i].from = "index" => t[i].scope = "index" BY <1>4 DEF Ordered
  <2>2. QED BY <1>4, <1>6, <2>1 DEF Ordered
<1>8. Ordered(h)
  <2>1. \A i \in DOMAIN h : h[i].from = "index" => h[i].scope = "index" BY <1>3, <1>5 DEF Ordered
  <2>2. \A i \in DOMAIN h, j \in DOMAIN h : ~(i < j) BY <1>3
  <2>3. QED BY <1>3, <2>1, <2>2 DEF Ordered
<1>9. Precedes(h, t) BY <1>3, <1>4, <1>5 DEF Precedes, Ordered
<1>10. \A m \in Nat : UpTo(s, m) => UpTo(t, m) /\ UpTo(h, m) BY <1>3, <1>4, <1>5 DEF UpTo
<1>11. \A r : Precedes(r, s) => Precedes(r, t) /\ Precedes(r, h) BY <1>3, <1>4, <1>5 DEF Precedes
<1>12. \A r : Precedes(s, r) => Precedes(t, r) BY <1>4 DEF Precedes
<1>13. QED BY <1>7, <1>8, <1>9, <1>10, <1>11, <1>12 DEF t, h

-----------------------------------------------------------------------------
\* The inductive invariant: all events dispatched are older than those queued ...
EventsQueued ==
    /\ processing \in BOOLEAN /\ emitted \in Nat
    /\ current \in Seq(Event) /\ Len(current) <= 1
    /\ Ordered(fifo) /\ Ordered(log) /\ Precedes(log, fifo)
    /\ UpTo(fifo, emitted) /\ UpTo(log, emitted)
    /\ Len(log) <= MaxLogSize

\* ... and a key that was dispatched is remembered or was evicted.
KeysKept ==
    /\ keys \in Seq(Key) /\ Len(keys) <= MaxProcessedKeys
    /\ seen \in [Key -> Nat]
    /\ \A k \in Key : seen[k] > 0 => k \in Bus!ToSet(keys) \/ k \in evicted
    /\ Bus!OnceUnlessEvicted

\* What emit and replay do: events with the next numbers join the queue.
LEMMA QueuedMore ==
    ASSUME EventsQueued, NEW t, Ordered(t), NEW m \in Nat,
           \A j \in DOMAIN t : emitted < t[j].n /\ t[j].n <= emitted + m,
           fifo' = fifo \o t, emitted' = emitted + m, processing' = TRUE,
           UNCHANGED <<current, log>>
    PROVE  EventsQueued'
<1>1. emitted \in Nat /\ emitted + m \in Nat BY DEF EventsQueued
<1>0. /\ \A i \in DOMAIN fifo : fifo[i].n \in Nat /\ fifo[i].n <= emitted
      /\ \A i \in DOMAIN log : log[i].n \in Nat /\ log[i].n <= emitted
      /\ \A i \in DOMAIN t : t[i].n \in Nat /\ emitted < t[i].n /\ t[i].n <= emitted + m
      BY Numbers DEF EventsQueued, UpTo
<1>2. Precedes(fifo, t) /\ Precedes(log, t) BY <1>1, <1>0 DEF Precedes
<1>3. UpTo(fifo, emitted + m) /\ UpTo(log, emitted + m) /\ UpTo(t, emitted + m)
      BY <1>1, <1>0 DEF UpTo
<1>4. Ordered(fifo \o t) /\ UpTo(fifo \o t, emitted + m) /\ Precedes(log, fifo \o t)
      BY <1>1, <1>2, <1>3, Joined DEF EventsQueued
<1>5. Ordered(fifo)' /\ Precedes(log, fifo)' /\ UpTo(fifo, emitted)' /\ UpTo(log, emitted)'
      BY <1>3, <1>4 DEF Ordered, Precedes, UpTo
<1>6. Ordered(log)' BY DEF EventsQueued, Ordered
<1>7. QED BY <1>1, <1>5, <1>6 DEF EventsQueued

LEMMA EmitKeeps ==
    ASSUME EventsQueued, NEW s \in Bus!Scope, NEW k \in Key \cup {NoKey}, Bus!Emit(s, k)
    PROVE  EventsQueued'
<1> DEFINE e == [scope |-> s, key |-> k, attempt |-> 1, n |-> emitted + 1,
                 from |-> Bus!CurrentScope]
<1>1. Bus!CurrentScope \in Bus!Scope \cup {"none"}
  <2>1. CASE current = <<>> BY <2>1 DEF Bus!CurrentScope
  <2>2. CASE current # <<>>
    <3>1. current[1] \in Event BY <2>2 DEF EventsQueued
    <3>2. \A x \in Event : x.scope \in Bus!Scope BY DEF Event
    <3>3. QED BY <2>2, <3>1, <3>2 DEF Bus!CurrentScope
  <2>3. QED BY <2>1, <2>2
<1>2. e \in Event BY <1>1 DEF Event, EventsQueued
<1>3. e.from = "index" => e.scope = "index" BY DEF Bus!Emit, Bus!Allowed
<1>4. Ordered(<<e>>) /\ DOMAIN <<e>> = {1} /\ <<e>>[1].n = emitted + 1
  <2>1. DOMAIN <<e>> = {1} /\ <<e>>[1] = e /\ e.n = emitted + 1 OBVIOUS
  <2>2. <<e>> \in Seq(Event) BY <1>2
  <2> HIDE DEF e
  <2>3. \A i, j \in {1} : ~(i < j) OBVIOUS
  <2>4. QED BY <1>3, <2>1, <2>2, <2>3 DEF Ordered
<1>5. Append(fifo, e) = fifo \o <<e>>
      BY <1>2 DEF EventsQueued, Ordered
<1>6. /\ fifo' = Append(fifo, e) /\ emitted' = emitted + 1 /\ processing' = TRUE
      /\ UNCHANGED <<current, log>>
      BY DEF Bus!Emit
<1> HIDE DEF e
<1>7. \A j \in DOMAIN <<e>> : emitted < <<e>>[j].n /\ <<e>>[j].n <= emitted + 1
      BY <1>4 DEF EventsQueued
<1>8. 1 \in Nat OBVIOUS
<1>9. QED BY <1>4, <1>5, <1>6, <1>7, <1>8, QueuedMore

LEMMA ReplayKeeps ==
    ASSUME BusAssumption, EventsQueued, NEW m \in 1 .. MaxLogSize, Bus!Replay(m)
    PROVE  EventsQueued'
<1> DEFINE again == [i \in 1 .. m |->
              [log[Len(log) - m + i] EXCEPT !.key = NoKey, !.attempt = @ + 1,
                                            !.n = emitted + i]]
<1>1. /\ m <= Len(log) /\ fifo' = fifo \o again /\ emitted' = emitted + m
      /\ processing' = TRUE /\ UNCHANGED <<current, log>>
      BY DEF Bus!Replay
<1>2. m \in Nat /\ emitted \in Nat BY DEF BusAssumption, EventsQueued
<1>3. ASSUME NEW i \in 1 .. m
      PROVE  /\ again[i] \in Event /\ again[i].n = emitted + i
             /\ again[i].from = "index" => again[i].scope = "index"
  <2>1. Len(log) \in Nat /\ DOMAIN log = 1 .. Len(log) BY Numbers DEF EventsQueued
  <2>2. Len(log) - m + i \in DOMAIN log
    <3>1. m <= Len(log) BY <1>1
    <3> HIDE DEF again
    <3>2. QED BY <1>2, <2>1, <3>1
  <2>3. PICK e \in Event : e = log[Len(log) - m + i] BY <2>2, Numbers DEF EventsQueued
  <2>4. again[i] = [scope |-> e.scope, key |-> NoKey, attempt |-> e.attempt + 1,
                    n |-> emitted + i, from |-> e.from]
    <3>1. again[i] = [e EXCEPT !.key = NoKey, !.attempt = @ + 1, !.n = emitted + i] BY <2>3
    <3> HIDE DEF again
    <3>2. QED BY <3>1 DEF Event
  <2>5. e.from = "index" => e.scope = "index" BY <2>2, <2>3 DEF EventsQueued, Ordered
  <2> HIDE DEF again
  <2>6. again[i].n = emitted + i /\ again[i].from = e.from /\ again[i].scope = e.scope
        BY <2>4
  <2>7. again[i] \in Event BY <1>2, <2>4 DEF Event
  <2>8. QED BY <2>5, <2>6, <2>7
<1>4. DOMAIN again = 1 .. m /\ again \in Seq(Event)
  <2>1. again = [i \in 1 .. m |-> again[i]] OBVIOUS
  <2> HIDE DEF again
  <2>2. again \in [1 .. m -> Event] BY <1>3, <2>1
  <2>3. QED BY <1>2, <2>2
<1> HIDE DEF again
<1>5. Ordered(again) BY <1>2, <1>3, <1>4 DEF Ordered
<1>6. \A j \in DOMAIN again : emitted < again[j].n /\ again[j].n <= emitted + m
      BY <1>2, <1>3, <1>4
<1>7. QED BY <1>1, <1>2, <1>5, <1>6, QueuedMore

\* A dispatched event passes from the queue to the log.
LEMMA DispatchKeepsQueues ==
    ASSUME BusAssumption, EventsQueued, Bus!Dispatch
    PROVE  EventsQueued'
<1> DEFINE e == Head(fifo)
           l == log \o <<e>>
<1>1. fifo # <<>> /\ fifo' = Tail(fifo) /\ UNCHANGED <<processing, emitted>>
      BY DEF Bus!Dispatch
<1>2. /\ Ordered(Tail(fifo)) /\ Ordered(<<e>>) /\ Precedes(<<e>>, Tail(fifo))
      /\ Precedes(log, Tail(fifo)) /\ Precedes(log, <<e>>)
      /\ UpTo(Tail(fifo), emitted) /\ UpTo(<<e>>, emitted)
      BY <1>1, Beheaded DEF EventsQueued
<1>3. e \in Event BY <1>1 DEF EventsQueued, Ordered
<1>4. Append(log, e) = l BY <1>3 DEF EventsQueued, Ordered
<1>5. \/ UNCHANGED <<log, current>>
      \/ log' = (IF Len(l) > MaxLogSize THEN Tail(l) ELSE l) /\ current' \in {<<e>>, <<>>}
      BY <1>4 DEF Bus!Dispatch, Bus!NextEvent
<1>6. current' \in Seq(Event) /\ Len(current') <= 1
  <2>1. <<e>> \in Seq(Event) /\ Len(<<e>>) <= 1 BY <1>3
  <2>2. <<>> \in Seq(Event) /\ Len(<<>>) <= 1 OBVIOUS
  <2>3. current \in Seq(Event) /\ Len(current) <= 1 BY DEF EventsQueued
  <2> HIDE DEF e, l
  <2>4. current' = current \/ current' = <<e>> \/ current' = <<>> BY <1>5
  <2>5. QED BY <2>1, <2>2, <2>3, <2>4, Zenon
<1>7. Ordered(l) /\ UpTo(l, emitted) /\ Precedes(l, Tail(fifo))
  <2>1. Ordered(l) /\ UpTo(l, emitted) BY <1>2, Joined DEF EventsQueued
  <2>2. \A i \in DOMAIN l : (i \in DOMAIN log /\ l[i] = log[i]) \/ l[i] = e
    <3>1. log \in Seq(Event) /\ <<e>> \in Seq(Event) BY <1>2 DEF EventsQueued, Ordered
    <3>2. QED BY <3>1
  <2>3. DOMAIN <<e>> = {1} /\ <<e>>[1] = e OBVIOUS
  <2>4. QED BY <1>2, <2>1, <2>2, <2>3 DEF Precedes
<1>8. Len(l) = Len(log) + 1 /\ Len(log) \in Nat
  <2>1. log \in Seq(Event) BY DEF EventsQueued, Ordered
  <2>2. QED BY <2>1
<1> HIDE DEF e, l
<1>9. Ordered(log') /\ UpTo(log', emitted) /\ Precedes(log', Tail(fifo)) /\ Len(log') <= MaxLogSize
  <2>1. CASE UNCHANGED log BY <1>2, <2>1 DEF EventsQueued
  <2>2. CASE log' = l /\ Len(l) <= MaxLogSize BY <1>7, <2>2
  <2>3. CASE log' = Tail(l) /\ Len(l) > MaxLogSize
    <3>1. l # <<>> /\ l \in Seq(Event) BY <1>7, <1>8 DEF Ordered
    <3>2. Len(Tail(l)) = Len(l) - 1 BY <3>1
    <3>3. Len(Tail(l)) <= MaxLogSize BY <3>2, <1>8 DEF EventsQueued, BusAssumption
    <3>4. QED BY <1>7, <2>3, <3>1, <3>3, Beheaded DEF EventsQueued
  <2>4. Len(l) \in Nat /\ MaxLogSize \in Nat BY <1>8 DEF BusAssumption
  <2>5. QED BY <1>5, <2>1, <2>2, <2>3, <2>4
<1>10. Ordered(fifo)' /\ Ordered(log)' /\ Precedes(log, fifo)' /\ UpTo(fifo, emitted)'
       /\ UpTo(log, emitted)'
       BY <1>1, <1>2, <1>9 DEF Ordered, Precedes, UpTo
<1>11. QED BY <1>1, <1>6, <1>9, <1>10 DEF EventsQueued

\* A key enters when its event is dispatched, and leaves for the evicted ones.
LEMMA DispatchKeepsKeys ==
    ASSUME BusAssumption, EventsQueued, KeysKept, Bus!Dispatch
    PROVE  KeysKept'
<1> DEFINE k == Head(fifo).key
           ks == Append(keys, k)
<1>1. k \in Key \cup {NoKey}
  <2>1. Head(fifo) \in Event BY DEF Bus!Dispatch, EventsQueued, Ordered
  <2>2. \A x \in Event : x.key \in Key \cup {NoKey} BY DEF Event
  <2>3. QED BY <2>1, <2>2
<1>2. CASE UNCHANGED <<keys, evicted, seen>>
      BY <1>2 DEF KeysKept, Bus!OnceUnlessEvicted, Bus!ToSet
<1>3. CASE /\ k = NoKey /\ keys' = keys /\ seen' = seen
           /\ evicted' = evicted \cup (Bus!ToSet(keys) \ Bus!ToSet(keys'))
      BY <1>3 DEF KeysKept, Bus!OnceUnlessEvicted, Bus!ToSet
<1>4. CASE /\ k # NoKey /\ ~Bus!Contains(keys, k)
           /\ keys' = Bus!Remembered(k) /\ seen' = [seen EXCEPT ![k] = @ + 1]
           /\ evicted' = evicted \cup (Bus!ToSet(keys) \ Bus!ToSet(keys'))
  <2>1. k \in Key BY <1>1, <1>4
  <2> HIDE DEF k
  <2>2. /\ ks \in Seq(Key) /\ Len(ks) = Len(keys) + 1 /\ Len(keys) \in Nat
        /\ ks[Len(ks)] = k /\ keys \in Seq(Key) /\ Len(keys) <= MaxProcessedKeys
        BY <2>1 DEF KeysKept
  <2>3. keys' = IF Len(ks) > MaxProcessedKeys THEN SubSeq(ks, EvictBatch + 1, Len(ks)) ELSE ks
        BY <1>4 DEF Bus!Remembered
  <2> HIDE DEF ks
  <2>4. keys' \in Seq(Key) /\ Len(keys') <= MaxProcessedKeys /\ k \in Bus!ToSet(keys')
    <3>1. CASE Len(ks) <= MaxProcessedKeys
      <4>1. keys' = ks BY <2>2, <2>3, <3>1 DEF BusAssumption
      <4>2. Len(ks) \in DOMAIN ks BY <2>2
      <4>3. QED BY <2>2, <3>1, <4>1, <4>2 DEF Bus!ToSet
    <3>2. CASE Len(ks) > MaxProcessedKeys
      <4>1. keys' = SubSeq(ks, EvictBatch + 1, Len(ks)) BY <2>3, <3>2
      <4>2. Len(ks) = MaxProcessedKeys + 1 BY <2>2, <3>2 DEF BusAssumption
      <4>3. /\ keys' \in Seq(Key) /\ Len(keys') = Len(ks) - EvictBatch
            /\ keys'[Len(ks) - EvictBatch] = ks[Len(ks)]
            BY <2>2, <4>1, <4>2 DEF BusAssumption
      <4>4. Len(ks) - EvictBatch \in DOMAIN keys' BY <4>2, <4>3 DEF BusAssumption
      <4>5. QED BY <2>2, <4>2, <4>3, <4>4 DEF Bus!ToSet, BusAssumption
    <3>3. QED BY <2>2, <3>1, <3>2 DEF BusAssumption
  <2>5. k \notin Bus!ToSet(keys) BY <1>4, <2>2 DEF Bus!Contains, Bus!ToSet
  <2>6. seen' \in [Key -> Nat] BY <1>4, <2>1 DEF KeysKept
  <2>7. \A x \in Key : seen'[x] > 0 => x \in Bus!ToSet(keys') \/ x \in evicted'
        BY <1>4, <2>1, <2>4 DEF KeysKept
  <2>8. \A x \in Key : seen'[x] > 1 => x \in evicted'
        BY <1>4, <2>1, <2>5 DEF KeysKept, Bus!OnceUnlessEvicted
  <2>9. QED BY <2>4, <2>6, <2>7, <2>8 DEF KeysKept, Bus!OnceUnlessEvicted, Bus!ToSet
<1>5. QED BY <1>2, <1>3, <1>4 DEF Bus!Dispatch, Bus!NextEvent, Bus!Known, Bus!Remembered

\* EventBus, for any keys, capacities and numbers of events: whatever handlers emit
\* while the queue drains, a key is dispatched once unless it was evicted, INDEX
\* handlers raise no CORE event, and events are dispatched in the order of emission.
THEOREM BusStaysSound ==
    ASSUME BusAssumption
    PROVE  Bus!Spec => []Bus!BusSound
<1> DEFINE Inv == EventsQueued /\ KeysKept
<1>1. Bus!Init => Inv
  <2>1. Bus!Init => EventsQueued
    <3>1. <<>> \in Seq(Event) /\ DOMAIN <<>> = {} OBVIOUS
    <3>2. Ordered(<<>>) /\ Precedes(<<>>, <<>>) /\ UpTo(<<>>, 0)
          BY <3>1, Zenon DEF Ordered, Precedes, UpTo
    <3>3. Len(<<>>) <= 1 /\ Len(<<>>) <= MaxLogSize BY DEF BusAssumption
    <3>4. 0 \in Nat OBVIOUS
    <3>5. QED BY <3>1, <3>2, <3>3, <3>4, Zenon DEF Bus!Init, EventsQueued
  <2>2. Bus!Init => KeysKept BY DEF Bus!Init, KeysKept, Bus!OnceUnlessEvicted, BusAssumption
  <2>3. QED BY <2>1, <2>2
<1>2. Inv /\ [Bus!Next]_Bus!vars => Inv'
  <2> SUFFICES ASSUME Inv, [Bus!Next]_Bus!vars PROVE Inv' OBVIOUS
  <2>1. ASSUME UNCHANGED <<keys, evicted, seen>> PROVE KeysKept'
        BY <2>1 DEF KeysKept, Bus!OnceUnlessEvicted, Bus!ToSet
  <2>2. ASSUME UNCHANGED <<fifo, log, emitted>>, processing' \in BOOLEAN,
               current' = current \/ current' = <<>>
        PROVE  EventsQueued'
    <3>1. <<>> \in Seq(Event) /\ Len(<<>>) <= 1 OBVIOUS
    <3>2. current' \in Seq(Event) /\ Len(current') <= 1 BY <2>2, <3>1, Zenon DEF EventsQueued
    <3>3. /\ Ordered(fifo)' = Ordered(fifo) /\ Ordered(log)' = Ordered(log)
          /\ Precedes(log, fifo)' = Precedes(log, fifo)
          /\ UpTo(fifo, emitted)' = UpTo(fifo, emitted) /\ UpTo(log, emitted)' = UpTo(log, emitted)
          BY <2>2 DEF Ordered, Precedes, UpTo
    <3>4. QED BY <2>2, <3>2, <3>3 DEF EventsQueued
  <2>3. CASE UNCHANGED Bus!vars BY <2>1, <2>2, <2>3 DEF Bus!vars, EventsQueued
  <2>4. ASSUME NEW s \in Bus!Scope, NEW k \in Key \cup {NoKey}, Bus!Emit(s, k) PROVE Inv'
        BY <2>1, <2>4, EmitKeeps DEF Bus!Emit
  <2>5. ASSUME NEW n \in 1 .. MaxLogSize, Bus!Replay(n) PROVE Inv'
        BY <2>1, <2>5, ReplayKeeps DEF Bus!Replay
  <2>6. CASE Bus!Dispatch BY <2>6, DispatchKeepsQueues, DispatchKeepsKeys
  <2>7. CASE Bus!HandlersDone BY <2>1, <2>2, <2>7 DEF Bus!HandlersDone, EventsQueued
  <2>8. CASE Bus!Drained BY <2>1, <2>2, <2>8 DEF Bus!Drained
  <2>9. QED BY <2>3, <2>4, <2>5, <2>6, <2>7, <2>8 DEF Bus!Next
<1>3. Inv => Bus!BusSound
  <2> SUFFICES ASSUME Inv PROVE Bus!BusSound OBVIOUS
  <2>1. Bus!TypeOK BY DEF Bus!TypeOK, EventsQueued, KeysKept
  <2>2. Bus!IndexRaisesNoCore BY DEF EventsQueued, Ordered, Bus!IndexRaisesNoCore
  <2>3. Bus!FirstInFirstOut BY DEF EventsQueued, Ordered, Bus!FirstInFirstOut
  <2>4. QED BY <2>1, <2>2, <2>3 DEF Bus!BusSound, KeysKept
<1>4. QED BY <1>1, <1>2, <1>3, PTL DEF Bus!Spec
=============================================================================
