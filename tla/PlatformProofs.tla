--------------------------- MODULE PlatformProofs ---------------------------
(***************************************************************************)
(* Theorems about one process: about NodeLock, ProjectService,             *)
(* ChannelService, the search, main.ts and its pages, for every set of     *)
(* requests, projects, channels, words, peers and clients, and, at the     *)
(* end, about the composition of MCPlatform, by these and by what          *)
(* EngineProofs shows of the engines.                                      *)
(***************************************************************************)
EXTENDS MCPlatform, FiniteSetTheorems, TLAPS

\* Every reachable state has the declared types.
THEOREM TypeCorrect == Spec => []TypeOK
<1>1. Init => TypeOK
  BY DEF Init, TypeOK, Status
<1>2. TypeOK /\ [Next]_vars => TypeOK'
  <2> SUFFICES ASSUME TypeOK, [Next]_vars PROVE TypeOK'
    OBVIOUS
  <2> USE DEF TypeOK, Status
  <2>1. ASSUME NEW r \in Req, AcquireFree(r) PROVE TypeOK'
    BY <2>1 DEF AcquireFree, Waiting
  <2>2. ASSUME NEW r \in Req, AcquireBusy(r) PROVE TypeOK'
    BY <2>2 DEF AcquireBusy, Enqueue, Waiting
  <2>3. ASSUME NEW r \in Req, TimeoutFires(r) PROVE TypeOK'
    BY <2>3 DEF TimeoutFires
  <2>4. ASSUME NEW S \in SUBSET Path, DoRelease(S)
        PROVE  /\ locked' \in [Path -> BOOLEAN]
               /\ queue' \in [Path -> Seq(Req)]
               /\ aged' \in [Path -> BOOLEAN]
               /\ granted' \in [Path -> Req \cup {NoReq}]
    <3>1. locked' \in [Path -> BOOLEAN] /\ aged' \in [Path -> BOOLEAN]
      BY <2>4, Zenon DEF DoRelease
    <3>2. \A p \in Path : queue[p] \in Seq(Req)
      OBVIOUS
    <3>3. \A p \in Path : queue[p] # <<>> =>
             Head(queue[p]) \in Req /\ Tail(queue[p]) \in Seq(Req)
      BY <3>2
    <3>4. queue' \in [Path -> Seq(Req)]
      BY <2>4, <3>2, <3>3 DEF DoRelease
    <3>5. granted' \in [Path -> Req \cup {NoReq}]
      BY <2>4, <3>3 DEF DoRelease
    <3>. QED  BY <3>1, <3>4, <3>5
  <2>5. ASSUME NEW r \in Req, Release(r) PROVE TypeOK'
    BY <2>4, <2>5 DEF Release, Wake
  <2>6. ASSUME NEW p \in Path, Age(p) PROVE TypeOK'
    BY <2>6 DEF Age
  <2>7. ASSUME ReleaseStale PROVE TypeOK'
    BY <2>4, <2>7 DEF ReleaseStale, Wake
  <2>8. CASE UNCHANGED vars
    BY <2>8 DEF vars
  <2>. QED  BY <2>1, <2>2, <2>3, <2>5, <2>6, <2>7, <2>8 DEF Next
<1>. QED  BY <1>1, <1>2, PTL DEF Spec

-----------------------------------------------------------------------------
\* Handing on or freeing the locks of any set of paths keeps the queues sound:
\* the head of a queue leaves it exactly when its request stops waiting.
LEMMA ReleaseKeepsQueueSound ==
    ASSUME TypeOK, QueueSound, NEW S \in SUBSET Path,
           NEW st \in [Req -> Status],
           \A r \in Req : st[r] # status[r] =>
               status[r] = "holding" /\ st[r] = "released",
           DoRelease(S), status' = Wake(S, st), UNCHANGED target
    PROVE  QueueSound'
<1>1. \A p \in Path : queue'[p] = IF p \in S /\ queue[p] # <<>>
                                  THEN Tail(queue[p]) ELSE queue[p]
  BY DEF DoRelease, TypeOK
<1>0. \A p \in Path : queue[p] \in Seq(Req) /\ queue'[p] \in Seq(Req)
  <2>1. \A p \in Path : queue[p] \in Seq(Req)
    BY DEF TypeOK
  <2>2. \A p \in Path : queue[p] # <<>> => Tail(queue[p]) \in Seq(Req)
    BY <2>1
  <2>. QED  BY <1>1, <2>1, <2>2
<1>2. ASSUME NEW p \in Path
      PROVE  queue'[p] # <<>> => locked'[p]
  BY <1>1 DEF DoRelease, TypeOK, QueueSound
<1>3. ASSUME NEW p \in Path, NEW i \in DOMAIN queue'[p]
      PROVE  \E k \in DOMAIN queue[p] :
                /\ queue'[p][i] = queue[p][k]
                /\ k = IF p \in S THEN i + 1 ELSE i
  <2>1. CASE p \in S /\ queue[p] # <<>>
    <3>1. queue'[p] = Tail(queue[p]) /\ queue[p] \in Seq(Req)
      BY <1>0, <1>1, <2>1
    <3>2. i \in 1..Len(Tail(queue[p]))
      BY <3>1, <1>0
    <3>3. i + 1 \in DOMAIN queue[p] /\ Tail(queue[p])[i] = queue[p][i + 1]
      BY <2>1, <3>1, <3>2
    <3>. QED  BY <2>1, <3>1, <3>3
  <2>2. CASE p \in S /\ queue[p] = <<>>
    BY <1>1, <2>2
  <2>3. CASE p \notin S
    BY <1>1, <2>3 DEF TypeOK
  <2>. QED  BY <2>1, <2>2, <2>3
<1>4. ASSUME NEW p \in Path, NEW i \in DOMAIN queue'[p]
      PROVE  /\ target'[queue'[p][i]] = p
             /\ status'[queue'[p][i]] \in {"waiting", "failed"}
  <2>1. PICK k \in DOMAIN queue[p] :
           queue'[p][i] = queue[p][k] /\ k = IF p \in S THEN i + 1 ELSE i
    BY <1>3
  <2> DEFINE r == queue[p][k]
  <2>2. r \in Req /\ target[r] = p /\ status[r] \in {"waiting", "failed"}
    BY DEF TypeOK, QueueSound
  <2>3. st[r] = status[r]
    BY <2>2
  <2>4. r \notin Woken(S)
    <3>1. SUFFICES ASSUME NEW q \in S, queue[q] # <<>>, r = Head(queue[q])
                   PROVE  FALSE
      BY DEF Woken
    <3>2. 1 \in DOMAIN queue[q] /\ Head(queue[q]) = queue[q][1]
      BY <3>1 DEF TypeOK
    <3>3. q = p
      BY <2>2, <3>1, <3>2 DEF QueueSound
    <3>4. k = 1
      BY <3>1, <3>2, <3>3 DEF QueueSound
    <3>5. i \in Nat \ {0}
      BY <1>0
    <3>. QED  BY <2>1, <3>3, <3>4, <3>5
  <2>. QED  BY <2>1, <2>2, <2>3, <2>4 DEF Wake
<1>5. ASSUME NEW p \in Path, NEW i \in DOMAIN queue'[p], NEW j \in DOMAIN queue'[p],
             queue'[p][i] = queue'[p][j]
      PROVE  i = j
  <2>1. i \in Nat /\ j \in Nat
    BY <1>0
  <2>2. PICK k \in DOMAIN queue[p] :
           queue'[p][i] = queue[p][k] /\ k = IF p \in S THEN i + 1 ELSE i
    BY <1>3
  <2>3. PICK l \in DOMAIN queue[p] :
           queue'[p][j] = queue[p][l] /\ l = IF p \in S THEN j + 1 ELSE j
    BY <1>3
  <2>4. k = l
    <3>1. queue[p][k] = queue[p][l]
      BY <1>5, <2>2, <2>3
    <3>. QED  BY <3>1 DEF QueueSound
  <2>. QED  BY <2>1, <2>2, <2>3, <2>4
<1>6. ASSUME NEW r \in Req, status'[r] = "waiting"
      PROVE  \E i \in DOMAIN queue'[target'[r]] : queue'[target'[r]][i] = r
  <2> DEFINE p == target[r]
  <2>1. p \in Path
    BY DEF TypeOK
  <2>2. st[r] = "waiting" /\ r \notin Woken(S)
    BY <1>6 DEF Wake
  <2>3. status[r] = "waiting"
    BY <2>2
  <2>4. PICK k \in DOMAIN queue[p] : queue[p][k] = r
    BY <2>3 DEF QueueSound
  <2>5. CASE p \in S
    <3>1. queue[p] # <<>> /\ k \in 1..Len(queue[p]) /\ queue[p] \in Seq(Req)
      BY <2>1, <2>4 DEF TypeOK
    <3>2. k # 1
      BY <2>2, <2>4, <2>5, <3>1 DEF Woken
    <3>3. queue'[p] = Tail(queue[p])
      BY <1>1, <2>1, <2>5, <3>1
    <3>4. k - 1 \in DOMAIN Tail(queue[p]) /\ Tail(queue[p])[k - 1] = r
      BY <2>4, <3>1, <3>2
    <3>. QED  BY <3>3, <3>4
  <2>6. CASE p \notin S
    BY <1>1, <2>1, <2>4, <2>6
  <2>. QED  BY <2>5, <2>6
<1>. QED  BY <1>2, <1>4, <1>5, <1>6 DEF QueueSound

\* The queues stay sound through every interleaving, with or without watchdog.
THEOREM QueueAlwaysSound == Spec => []QueueSound
<1>1. Init => QueueSound
  BY DEF Init, QueueSound
<1>2. TypeOK /\ QueueSound /\ [Next]_vars => QueueSound'
  <2> SUFFICES ASSUME TypeOK, QueueSound, [Next]_vars PROVE QueueSound'
    OBVIOUS
  <2>1. ASSUME NEW r \in Req, AcquireFree(r) PROVE QueueSound'
    BY <2>1 DEF AcquireFree, QueueSound, TypeOK
  <2>2. ASSUME NEW r \in Req, AcquireBusy(r) PROVE QueueSound'
    <3> DEFINE p == target[r]
    <3>1. p \in Path /\ queue[p] \in Seq(Req) /\ status[r] = "idle" /\ locked[p]
      BY <2>2 DEF AcquireBusy, Enqueue, TypeOK
    <3>2. /\ queue' = [queue EXCEPT ![p] = Append(queue[p], r)]
          /\ status' = [status EXCEPT ![r] = "waiting"]
          /\ UNCHANGED <<target, locked>>
      BY <2>2 DEF AcquireBusy, Enqueue
    <3>3. \A q \in Path : \A i \in DOMAIN queue[q] : queue[q][i] # r
      <4>1. \A q \in Path : \A i \in DOMAIN queue[q] :
               status[queue[q][i]] \in {"waiting", "failed"}
        BY DEF QueueSound
      <4>. QED  BY <3>1, <4>1
    <3>4. /\ DOMAIN queue'[p] = DOMAIN queue[p] \cup {Len(queue[p]) + 1}
          /\ \A i \in DOMAIN queue[p] : queue'[p][i] = queue[p][i]
          /\ queue'[p][Len(queue[p]) + 1] = r
      BY <3>1, <3>2 DEF TypeOK
    <3>5. \A q \in Path : q # p => queue'[q] = queue[q]
      BY <3>2 DEF TypeOK
    <3>6. \A q \in Path : queue'[q] # <<>> => locked'[q]
      BY <3>1, <3>2, <3>5 DEF QueueSound
    <3>7. ASSUME NEW q \in Path, NEW i \in DOMAIN queue'[q]
          PROVE  /\ target'[queue'[q][i]] = q
                 /\ status'[queue'[q][i]] \in {"waiting", "failed"}
      <4>1. CASE q = p /\ i = Len(queue[p]) + 1
        BY <3>2, <3>4, <4>1 DEF TypeOK
      <4>2. CASE ~(q = p /\ i = Len(queue[p]) + 1)
        <5>1. i \in DOMAIN queue[q] /\ queue'[q][i] = queue[q][i]
          BY <3>4, <3>5, <4>2
        <5>2. queue[q][i] \in Req
          BY <5>1 DEF TypeOK
        <5>. QED  BY <3>2, <3>3, <5>1, <5>2 DEF QueueSound, TypeOK
      <4>. QED  BY <4>1, <4>2
    <3>8. ASSUME NEW q \in Path, NEW i \in DOMAIN queue'[q], NEW j \in DOMAIN queue'[q],
                 queue'[q][i] = queue'[q][j]
          PROVE  i = j
      BY <3>1, <3>3, <3>4, <3>5, <3>8 DEF QueueSound
    <3>9. ASSUME NEW s \in Req, status'[s] = "waiting"
          PROVE  \E i \in DOMAIN queue'[target'[s]] : queue'[target'[s]][i] = s
      <4>1. CASE s = r
        BY <3>2, <3>4, <4>1
      <4>2. CASE s # r
        <5>1. status[s] = "waiting" /\ target[s] \in Path /\ target' = target
          BY <3>2, <3>9, <4>2 DEF TypeOK
        <5>2. PICK i \in DOMAIN queue[target[s]] : queue[target[s]][i] = s
          BY <5>1 DEF QueueSound
        <5>. QED  BY <3>4, <3>5, <5>1, <5>2
      <4>. QED  BY <4>1, <4>2
    <3>. QED  BY <3>6, <3>7, <3>8, <3>9 DEF QueueSound
  <2>3. ASSUME NEW r \in Req, TimeoutFires(r) PROVE QueueSound'
    BY <2>3 DEF TimeoutFires, QueueSound, TypeOK
  <2>4. ASSUME NEW r \in Req, Release(r) PROVE QueueSound'
    <3>1. [status EXCEPT ![r] = "released"] \in [Req -> Status]
      BY DEF TypeOK, Status
    <3>2. \A q \in Req : [status EXCEPT ![r] = "released"][q] # status[q] =>
             status[q] = "holding" /\ [status EXCEPT ![r] = "released"][q] = "released"
      BY <2>4 DEF Release, TypeOK
    <3>3. target[r] \in Path
      BY DEF TypeOK
    <3>. QED  BY <2>4, <3>1, <3>2, <3>3, ReleaseKeepsQueueSound DEF Release
  <2>5. ASSUME NEW p \in Path, Age(p) PROVE QueueSound'
    BY <2>5 DEF Age, QueueSound
  <2>6. ASSUME ReleaseStale PROVE QueueSound'
    <3> DEFINE stale == {p \in Path : locked[p] /\ aged[p]}
    <3>1. stale \in SUBSET Path /\ status \in [Req -> Status]
      BY DEF TypeOK
    <3>. QED  BY <2>6, <3>1, ReleaseKeepsQueueSound DEF ReleaseStale
  <2>7. CASE UNCHANGED vars
    BY <2>7 DEF vars, QueueSound
  <2>. QED  BY <2>1, <2>2, <2>3, <2>4, <2>5, <2>6, <2>7 DEF Next
<1>. QED  BY <1>1, <1>2, TypeCorrect, PTL DEF Spec

\* No interleaving of acquires, timeouts, releases and watchdog sweeps loses a
\* waiting request: it stays, once, in the queue of a locked path.
THEOREM NoWaiterLost == Spec => []NoLostWaiter
<1>1. TypeOK /\ QueueSound => NoLostWaiter
  <2> SUFFICES ASSUME TypeOK, QueueSound, NEW r \in Req, status[r] = "waiting"
               PROVE  /\ locked[target[r]]
                      /\ \E i \in DOMAIN queue[target[r]] :
                            \A p \in Path : \A j \in DOMAIN queue[p] :
                                queue[p][j] = r <=> (p = target[r] /\ j = i)
    BY DEF NoLostWaiter
  <2>1. PICK i \in DOMAIN queue[target[r]] : queue[target[r]][i] = r
    BY DEF QueueSound
  <2>2. target[r] \in Path /\ queue[target[r]] # <<>>
    BY <2>1 DEF TypeOK
  <2>3. locked[target[r]]
    BY <2>2 DEF QueueSound
  <2>4. ASSUME NEW p \in Path, NEW j \in DOMAIN queue[p]
        PROVE  queue[p][j] = r <=> (p = target[r] /\ j = i)
    BY <2>1, <2>2 DEF QueueSound
  <2>. QED  BY <2>1, <2>3, <2>4
<1>. QED  BY <1>1, TypeCorrect, QueueAlwaysSound, PTL

-----------------------------------------------------------------------------
\* Without the watchdog the holder of a path is always the last one granted.
THEOREM HolderAlwaysOwns ==
    ASSUME Watchdog = FALSE
    PROVE  Spec => []HolderOwns
<1>1. Init => HolderOwns
  BY DEF Init, HolderOwns
<1>2. TypeOK /\ QueueSound /\ HolderOwns /\ [Next]_vars => HolderOwns'
  <2> SUFFICES ASSUME TypeOK, QueueSound, HolderOwns, [Next]_vars
               PROVE  HolderOwns'
    OBVIOUS
  <2>1. ASSUME NEW r \in Req, AcquireFree(r) PROVE HolderOwns'
    BY <2>1 DEF AcquireFree, HolderOwns, TypeOK
  <2>2. ASSUME NEW r \in Req, AcquireBusy(r) PROVE HolderOwns'
    BY <2>2 DEF AcquireBusy, Enqueue, HolderOwns, TypeOK
  <2>3. ASSUME NEW r \in Req, TimeoutFires(r) PROVE HolderOwns'
    BY <2>3 DEF TimeoutFires, HolderOwns, TypeOK
  <2>4. ASSUME NEW r \in Req, Release(r) PROVE HolderOwns'
    <3> DEFINE p == target[r]
    <3>1. /\ p \in Path
          /\ status[r] = "holding"
          /\ granted[p] = r
          /\ status' = Wake({p}, [status EXCEPT ![r] = "released"])
          /\ DoRelease({p})
          /\ target' = target
      BY <2>4 DEF Release, HolderOwns, TypeOK
    <3>2. SUFFICES ASSUME NEW s \in Req, status'[s] = "holding"
                   PROVE  locked'[target[s]] /\ granted'[target[s]] = s
      BY <3>1 DEF HolderOwns
    <3>3. CASE s \in Woken({p})
      <4>1. queue[p] # <<>> /\ s = Head(queue[p])
        BY <3>3 DEF Woken
      <4>2. 1 \in DOMAIN queue[p] /\ s = queue[p][1]
        BY <3>1, <4>1 DEF TypeOK
      <4>3. target[s] = p
        BY <3>1, <4>2 DEF QueueSound
      <4>. QED  BY <3>1, <4>1, <4>3 DEF DoRelease
    <3>4. CASE s \notin Woken({p})
      <4>1. s # r /\ status[s] = "holding"
        BY <3>1, <3>2, <3>4 DEF Wake, TypeOK
      <4>2. target[s] \in Path /\ locked[target[s]] /\ granted[target[s]] = s
        BY <4>1 DEF HolderOwns, TypeOK
      <4>3. target[s] # p
        BY <3>1, <4>1, <4>2
      <4>. QED  BY <3>1, <4>2, <4>3 DEF DoRelease
    <3>. QED  BY <3>3, <3>4
  <2>5. ASSUME NEW p \in Path, Age(p) PROVE HolderOwns'
    BY <2>5 DEF Age
  <2>6. ASSUME ReleaseStale PROVE HolderOwns'
    BY <2>6 DEF ReleaseStale
  <2>7. CASE UNCHANGED vars
    BY <2>7 DEF vars, HolderOwns
  <2>. QED  BY <2>1, <2>2, <2>3, <2>4, <2>5, <2>6, <2>7 DEF Next
<1>. QED  BY <1>1, <1>2, TypeCorrect, QueueAlwaysSound, PTL DEF Spec

\* The node lock is a mutex as long as nobody calls releaseStale().
THEOREM NodeLockMutualExclusion ==
    ASSUME Watchdog = FALSE
    PROVE  Spec => []MutualExclusion
<1>1. HolderOwns => MutualExclusion
  BY DEF HolderOwns, MutualExclusion, Holders
<1>. QED  BY <1>1, HolderAlwaysOwns, PTL

\* A path that is locked without a live holder was handed to a request whose
\* wait had timed out: nothing else loses a lock.
THEOREM LockLostOnlyByTimeout ==
    ASSUME Watchdog = FALSE
    PROVE  Spec => []LockedHasOwner
<1>1. Init => LockedHasOwner
  BY DEF Init, LockedHasOwner
<1>2. /\ TypeOK /\ QueueSound /\ HolderOwns /\ LockedHasOwner /\ [Next]_vars
      => LockedHasOwner'
  <2> SUFFICES ASSUME TypeOK, QueueSound, HolderOwns, LockedHasOwner, [Next]_vars
               PROVE  LockedHasOwner'
    OBVIOUS
  <2>1. ASSUME NEW r \in Req, AcquireFree(r) PROVE LockedHasOwner'
    BY <2>1 DEF AcquireFree, LockedHasOwner, TypeOK
  <2>2. ASSUME NEW r \in Req, AcquireBusy(r) PROVE LockedHasOwner'
    BY <2>2 DEF AcquireBusy, Enqueue, LockedHasOwner, TypeOK
  <2>3. ASSUME NEW r \in Req, TimeoutFires(r) PROVE LockedHasOwner'
    BY <2>3 DEF TimeoutFires, LockedHasOwner, TypeOK
  <2>4. ASSUME NEW r \in Req, Release(r) PROVE LockedHasOwner'
    <3> DEFINE p == target[r]
    <3>1. /\ p \in Path /\ queue[p] \in Seq(Req)
          /\ granted[p] = r
          /\ status' = Wake({p}, [status EXCEPT ![r] = "released"])
          /\ DoRelease({p})
          /\ target' = target
      BY <2>4 DEF Release, HolderOwns, TypeOK
    <3>2. SUFFICES ASSUME NEW q \in Path, locked'[q]
                   PROVE  /\ granted'[q] \in Req
                          /\ target[granted'[q]] = q
                          /\ status'[granted'[q]] \in {"holding", "failed"}
      BY <3>1 DEF LockedHasOwner
    <3>3. CASE q = p
      <4>1. queue[p] # <<>> /\ granted'[p] = Head(queue[p])
        BY <3>1, <3>2, <3>3 DEF DoRelease
      <4> DEFINE s == Head(queue[p])
      <4>2. 1 \in DOMAIN queue[p] /\ s = queue[p][1] /\ s \in Req
        BY <3>1, <4>1
      <4>3. target[s] = p /\ status[s] \in {"waiting", "failed"}
        BY <3>1, <4>2 DEF QueueSound
      <4>4. s # r
        BY <2>4, <4>3 DEF Release
      <4>5. s \in Woken({p})
        BY <4>1, <4>2 DEF Woken
      <4>6. [status EXCEPT ![r] = "released"][s] = status[s]
        BY <4>2, <4>4 DEF TypeOK
      <4>7. status'[s] \in {"holding", "failed"}
        BY <3>1, <4>2, <4>3, <4>5, <4>6 DEF Wake
      <4>. QED  BY <3>3, <4>1, <4>2, <4>3, <4>7
    <3>4. CASE q # p
      <4>1. locked[q] /\ granted'[q] = granted[q]
        BY <3>1, <3>2, <3>4 DEF DoRelease
      <4> DEFINE s == granted[q]
      <4>2. s \in Req /\ target[s] = q /\ status[s] \in {"holding", "failed"}
        BY <4>1 DEF LockedHasOwner
      <4>3. s # r
        BY <3>4, <4>2
      <4>4. status'[s] = status[s]
        BY <3>1, <4>2, <4>3 DEF Wake, TypeOK
      <4>. QED  BY <4>1, <4>2, <4>4
    <3>. QED  BY <3>3, <3>4
  <2>5. ASSUME NEW p \in Path, Age(p) PROVE LockedHasOwner'
    BY <2>5 DEF Age
  <2>6. ASSUME ReleaseStale PROVE LockedHasOwner'
    BY <2>6 DEF ReleaseStale
  <2>7. CASE UNCHANGED vars
    BY <2>7 DEF vars, LockedHasOwner
  <2>. QED  BY <2>1, <2>2, <2>3, <2>4, <2>5, <2>6, <2>7 DEF Next
<1>. QED  BY <1>1, <1>2, TypeCorrect, QueueAlwaysSound, HolderAlwaysOwns, PTL DEF Spec

-----------------------------------------------------------------------------
\* Who is inside a path is the abstract holder of it.
InsideIsHolder ==
    \A p \in Path :
        /\ \A r \in Holders(p) : Inside(p) = r
        /\ Holders(p) = {} => Inside(p) = NoReq

LEMMA MutexMakesInsideHolder == MutualExclusion => InsideIsHolder
  BY DEF InsideIsHolder, MutualExclusion, Inside

\* If at most the holder of p changes, the abstract holders change at p only.
LEMMA HolderOfExcept ==
    ASSUME NEW p \in Path, InsideIsHolder, InsideIsHolder',
           \A q \in Path : q # p => Holders(q)' = Holders(q)
    PROVE  HolderOf' = [HolderOf EXCEPT ![p] = Inside(p)']
<1>1. ASSUME NEW q \in Path, q # p PROVE Inside(q)' = Inside(q)
  BY <1>1 DEF InsideIsHolder
<1>. QED  BY <1>1 DEF HolderOf

\* Without the watchdog every step of the node lock is a step of an abstract
\* mutex or invisible to it, whatever the timers do.
THEOREM NodeLockImplementsMutex ==
    ASSUME Watchdog = FALSE
    PROVE  Spec => ImplementsMutex
<1>1. Init => M!Init
  <2> SUFFICES ASSUME Init PROVE M!Init
    OBVIOUS
  <2>1. \A p \in Path : Holders(p) = {}
    BY DEF Init, Holders
  <2>2. \A p \in Path : Inside(p) = NoReq
    BY <2>1 DEF Inside
  <2>3. Served = {}
    BY DEF Init, Served
  <2>. QED  BY <2>2, <2>3 DEF M!Init, HolderOf
<1>2. /\ TypeOK /\ QueueSound /\ HolderOwns /\ InsideIsHolder /\ InsideIsHolder'
      /\ [Next]_vars
      => [M!Next]_(M!vars)
  <2> SUFFICES ASSUME TypeOK, QueueSound, HolderOwns, InsideIsHolder,
                      InsideIsHolder', [Next]_vars
               PROVE  [M!Next]_(M!vars)
    OBVIOUS
  <2>0. ASSUME \A r \in Req :
                  /\ status'[r] = "holding" <=> status[r] = "holding"
                  /\ status'[r] = "released" <=> status[r] = "released",
               target' = target
        PROVE  UNCHANGED M!vars
    <3>1. \A p \in Path : Holders(p)' = Holders(p)
      BY <2>0 DEF Holders
    <3>2. \A p \in Path : Inside(p)' = Inside(p)
      BY <3>1 DEF InsideIsHolder
    <3>3. Served' = Served
      BY <2>0 DEF Served
    <3>. QED  BY <3>2, <3>3 DEF M!vars, HolderOf
  <2>1. ASSUME NEW r \in Req, AcquireFree(r) PROVE M!Next
    <3> DEFINE p == target[r]
    <3>1. /\ p \in Path /\ ~locked[p] /\ status[r] = "idle"
          /\ status' = [status EXCEPT ![r] = "holding"]
          /\ target' = target
      BY <2>1 DEF AcquireFree, TypeOK
    <3>2. Holders(p) = {}
      BY <3>1 DEF Holders, HolderOwns
    <3>3. r \in Holders(p)'
      BY <3>1 DEF Holders, TypeOK
    <3>4. ASSUME NEW q \in Path, q # p PROVE Holders(q)' = Holders(q)
      BY <3>1, <3>4 DEF Holders, TypeOK
    <3>5. HolderOf[p] = NoReq /\ Inside(p)' = r
      BY <3>1, <3>2, <3>3 DEF InsideIsHolder, HolderOf
    <3>6. HolderOf' = [HolderOf EXCEPT ![p] = r]
      BY <3>1, <3>4, <3>5, HolderOfExcept
    <3>7. r \notin Served /\ Served' = Served \cup {r}
      BY <3>1 DEF Served, TypeOK
    <3>. QED  BY <3>1, <3>5, <3>6, <3>7 DEF M!Next, M!Enter
  <2>2. ASSUME NEW r \in Req, AcquireBusy(r) PROVE UNCHANGED M!vars
    BY <2>0, <2>2 DEF AcquireBusy, Enqueue, TypeOK
  <2>3. ASSUME NEW r \in Req, TimeoutFires(r) PROVE UNCHANGED M!vars
    BY <2>0, <2>3 DEF TimeoutFires, TypeOK
  <2>4. ASSUME NEW r \in Req, Release(r) PROVE M!Next
    <3> DEFINE p == target[r]
               st == [status EXCEPT ![r] = "released"]
    <3>1. /\ p \in Path /\ status[r] = "holding" /\ queue[p] \in Seq(Req)
          /\ status' = Wake({p}, st) /\ target' = target
      BY <2>4 DEF Release, TypeOK
    <3>2. HolderOf[p] = r /\ HolderOf[p] # NoReq
      BY <3>1, NodeLockAssumption DEF InsideIsHolder, HolderOf, Holders
    <3>3. Woken({p}) = IF queue[p] = <<>> THEN {} ELSE {Head(queue[p])}
      BY <3>1 DEF Woken
    <3>4. ASSUME NEW s \in Woken({p}) PROVE s \in Req /\ target[s] = p /\ s # r
      <4>1. 1 \in DOMAIN queue[p] /\ s = queue[p][1]
        BY <3>1, <3>3, <3>4
      <4>. QED  BY <3>1, <4>1 DEF QueueSound
    <3>5. ASSUME NEW q \in Path, q # p PROVE Holders(q)' = Holders(q)
      BY <3>1, <3>4, <3>5 DEF Holders, Wake, TypeOK
    <3>6. CASE \E s \in Woken({p}) : status[s] = "waiting"
      <4>1. PICK s \in Woken({p}) : status[s] = "waiting"
        BY <3>6
      <4>2. s \in Req /\ target[s] = p /\ s # r
        BY <3>4, <4>1
      <4>3. status' = [status EXCEPT ![r] = "released", ![s] = "holding"]
        BY <3>1, <3>3, <4>1, <4>2 DEF Wake, TypeOK
      <4>4. s \in Holders(p)'
        BY <3>1, <4>2, <4>3 DEF Holders, TypeOK
      <4>5. HolderOf' = [HolderOf EXCEPT ![p] = s]
        BY <3>1, <3>5, <4>4, HolderOfExcept DEF InsideIsHolder
      <4>6. s \notin Served /\ Served' = Served \cup {s}
        BY <3>1, <4>1, <4>2, <4>3 DEF Served, TypeOK
      <4>. QED  BY <3>1, <3>2, <4>2, <4>5, <4>6 DEF M!Next, M!Leave
    <3>7. CASE ~\E s \in Woken({p}) : status[s] = "waiting"
      <4>1. status' = st
        BY <3>1, <3>4, <3>7 DEF Wake, TypeOK
      <4>2. Holders(p)' = {}
        <5>1. ASSUME NEW s \in Req, status'[s] = "holding", target'[s] = p
              PROVE  FALSE
          <6>1. s # r /\ status[s] = "holding" /\ target[s] = p
            BY <3>1, <4>1, <5>1 DEF TypeOK
          <6>2. granted[p] = s /\ granted[p] = r
            BY <3>1, <6>1 DEF HolderOwns
          <6>. QED  BY <6>1, <6>2
        <5>2. Holders(p)' = {s \in Req : status'[s] = "holding" /\ target'[s] = p}
          BY <3>1 DEF Holders
        <5>. QED  BY <5>1, <5>2
      <4>3. HolderOf' = [HolderOf EXCEPT ![p] = NoReq]
        BY <3>1, <3>5, <4>2, HolderOfExcept DEF InsideIsHolder
      <4>4. Served' = Served
        BY <3>1, <4>1 DEF Served, TypeOK
      <4>. QED  BY <3>1, <3>2, <4>3, <4>4 DEF M!Next, M!Leave
    <3>. QED  BY <3>6, <3>7
  <2>5. ASSUME NEW p \in Path, Age(p) PROVE UNCHANGED M!vars
    BY <2>5 DEF Age
  <2>6. ASSUME ReleaseStale PROVE UNCHANGED M!vars
    BY <2>6 DEF ReleaseStale
  <2>7. CASE UNCHANGED vars
    BY <2>0, <2>7 DEF vars
  <2>. QED  BY <2>1, <2>2, <2>3, <2>4, <2>5, <2>6, <2>7 DEF Next
<1>. QED  BY <1>1, <1>2, TypeCorrect, QueueAlwaysSound, HolderAlwaysOwns,
             NodeLockMutualExclusion, MutexMakesInsideHolder, PTL
          DEF Spec, ImplementsMutex, M!Spec

-----------------------------------------------------------------------------
\* What makes Fifo inductive: who was ahead of a request still asks for the
\* same path, and as long as both wait its callback stands in front.
InLine ==
    \A r \in Req : \A s \in ahead[r] :
        /\ status[s] # "idle"
        /\ target[s] = target[r]
        /\ status[r] = "waiting" /\ status[s] = "waiting" =>
              \E i, j \in DOMAIN queue[target[r]] :
                  i < j /\ queue[target[r]][i] = s /\ queue[target[r]][j] = r

\* What is not the head of a queue moves up by one when the head leaves.
LEMMA TailShifts ==
    ASSUME NEW R, NEW q \in Seq(R), q # <<>>, NEW i \in DOMAIN q, i # 1
    PROVE  i - 1 \in DOMAIN Tail(q) /\ Tail(q)[i - 1] = q[i]
<1>1. i \in 2..Len(q) /\ Len(Tail(q)) = Len(q) - 1
  OBVIOUS
<1>2. i - 1 \in 1..Len(Tail(q))
  BY <1>1
<1>. QED  BY <1>2

\* Handing on or freeing the locks of any set of paths keeps the line: the one
\* it wakes stood first, so nobody it was behind still waits.
LEMMA ReleaseKeepsLine ==
    ASSUME TypeOK, QueueSound, InLine, Fifo, NEW S \in SUBSET Path,
           NEW st \in [Req -> Status],
           \A r \in Req : st[r] # status[r] =>
               status[r] = "holding" /\ st[r] = "released",
           DoRelease(S), status' = Wake(S, st), UNCHANGED <<target, ahead>>
    PROVE  InLine' /\ Fifo'
<1>1. ASSUME NEW r \in Req
      PROVE  /\ status'[r] = "idle" => status[r] = "idle"
             /\ status'[r] = "waiting" => status[r] = "waiting" /\ r \notin Woken(S)
             /\ status'[r] \in {"holding", "released"} =>
                   \/ status[r] \in {"holding", "released"}
                   \/ status[r] = "waiting" /\ r \in Woken(S)
  BY DEF Wake, TypeOK
<1>2. ASSUME NEW r \in Req, NEW s \in ahead[r],
             status'[r] = "waiting", status'[s] = "waiting"
      PROVE  \E i, j \in DOMAIN queue'[target[r]] :
                i < j /\ queue'[target[r]][i] = s /\ queue'[target[r]][j] = r
  <2> DEFINE p == target[r]
  <2>1. s \in Req /\ p \in Path /\ queue[p] \in Seq(Req)
    BY DEF TypeOK
  <2>2. status[r] = "waiting" /\ status[s] = "waiting" /\ s \notin Woken(S)
    BY <1>1, <1>2, <2>1
  <2>3. PICK i, j \in DOMAIN queue[p] : i < j /\ queue[p][i] = s /\ queue[p][j] = r
    BY <2>2 DEF InLine
  <2>4. CASE p \in S
    <3>1. queue[p] # <<>> /\ i # 1
      BY <2>1, <2>2, <2>3, <2>4 DEF Woken
    <3>2. queue'[p] = Tail(queue[p])
      BY <2>1, <2>4, <3>1 DEF DoRelease
    <3>3. j # 1 /\ i \in Nat /\ j \in Nat
      BY <2>1, <2>3
    <3>4. /\ i - 1 \in DOMAIN queue'[p] /\ queue'[p][i - 1] = s
          /\ j - 1 \in DOMAIN queue'[p] /\ queue'[p][j - 1] = r
      BY <2>1, <2>3, <3>1, <3>2, <3>3, TailShifts
    <3>5. i - 1 < j - 1
      BY <2>3, <3>3
    <3>. QED  BY <3>4, <3>5
  <2>5. CASE p \notin S
    BY <2>1, <2>3, <2>5 DEF DoRelease
  <2>. QED  BY <2>4, <2>5
<1>3. InLine'
  BY <1>1, <1>2 DEF InLine, TypeOK
<1>4. ASSUME NEW r \in Req, status'[r] \in {"holding", "released"},
             NEW s \in ahead[r], status'[s] = "waiting"
      PROVE  FALSE
  <2>1. s \in Req /\ status[s] = "waiting"
    BY <1>1, <1>4 DEF TypeOK
  <2>2. status[r] = "waiting" /\ r \in Woken(S)
    BY <1>1, <1>4, <2>1 DEF Fifo
  <2>3. PICK p \in S : queue[p] # <<>> /\ r = Head(queue[p])
    BY <2>2 DEF Woken
  <2>4. 1 \in DOMAIN queue[p] /\ queue[p][1] = r /\ queue[p] \in Seq(Req)
    BY <2>3 DEF TypeOK
  <2>5. target[r] = p
    BY <2>4 DEF QueueSound
  <2>6. PICK i, j \in DOMAIN queue[p] : i < j /\ queue[p][j] = r
    BY <1>4, <2>1, <2>2, <2>5 DEF InLine
  <2>7. j = 1
    BY <2>4, <2>6 DEF QueueSound
  <2>. QED  BY <2>4, <2>6, <2>7
<1>. QED  BY <1>3, <1>4 DEF Fifo

\* Nobody overtakes: whoever holds or held the lock was behind no request that
\* still waits - with the watchdog's forced releases as well as without.
THEOREM FirstComeFirstServed == Spec => []Fifo
<1>1. Init => InLine /\ Fifo
  BY DEF Init, InLine, Fifo
<1>2. TypeOK /\ QueueSound /\ InLine /\ Fifo /\ [Next]_vars => InLine' /\ Fifo'
  <2> SUFFICES ASSUME TypeOK, QueueSound, InLine, Fifo, [Next]_vars
               PROVE  InLine' /\ Fifo'
    OBVIOUS
  <2>1. ASSUME NEW r \in Req, AcquireFree(r) PROVE InLine' /\ Fifo'
    <3>1. Waiting(target[r]) = {}
      BY <2>1 DEF AcquireFree, Waiting, QueueSound, TypeOK
    <3>2. ASSUME NEW q \in Req, NEW s \in ahead'[q]
          PROVE  q # r /\ s \in ahead[q] /\ s \in Req
      BY <2>1, <3>1, <3>2 DEF AcquireFree, TypeOK
    <3>3. \A q \in Req : /\ status'[q] # "holding" => status'[q] = status[q]
                         /\ q # r => status'[q] = status[q]
      BY <2>1 DEF AcquireFree, TypeOK
    <3>4. \A q \in Req : status'[q] = "idle" => status[q] = "idle"
      BY <3>3
    <3>5. queue' = queue /\ target' = target
      BY <2>1 DEF AcquireFree
    <3>6. InLine'
      BY <3>2, <3>3, <3>4, <3>5 DEF InLine
    <3>7. Fifo'
      BY <3>2, <3>3 DEF Fifo
    <3>. QED  BY <3>6, <3>7
  <2>2. ASSUME NEW r \in Req, AcquireBusy(r) PROVE InLine' /\ Fifo'
    <3> DEFINE p == target[r]
    <3>1. /\ p \in Path /\ queue[p] \in Seq(Req)
          /\ status[r] = "idle"
          /\ status' = [status EXCEPT ![r] = "waiting"]
          /\ queue' = [queue EXCEPT ![p] = Append(queue[p], r)]
          /\ ahead' = [ahead EXCEPT ![r] = Waiting(p)]
          /\ target' = target
      BY <2>2 DEF AcquireBusy, Enqueue, TypeOK
    <3>2. \A q \in Req : q # r => status'[q] = status[q] /\ ahead'[q] = ahead[q]
      BY <3>1 DEF TypeOK
    <3>3. status'[r] = "waiting" /\ ahead'[r] = Waiting(p) /\ r \notin Waiting(p)
      BY <3>1 DEF TypeOK, Waiting
    <3>4. \A q \in Req : r \notin ahead[q]
      BY <3>1 DEF InLine
    <3>5. \A q \in Path : \A i \in DOMAIN queue[q] :
              i \in DOMAIN queue'[q] /\ queue'[q][i] = queue[q][i]
      BY <3>1 DEF TypeOK
    <3>6. ASSUME NEW s \in Waiting(p)
          PROVE  \E i, j \in DOMAIN queue'[p] :
                    i < j /\ queue'[p][i] = s /\ queue'[p][j] = r
      <4>1. PICK i \in DOMAIN queue[p] : queue[p][i] = s
        BY <3>6 DEF Waiting, QueueSound
      <4>2. Len(queue[p]) + 1 \in DOMAIN queue'[p]
            /\ queue'[p][Len(queue[p]) + 1] = r /\ i < Len(queue[p]) + 1
        BY <3>1, <4>1 DEF TypeOK
      <4>. QED  BY <3>1, <3>5, <4>1, <4>2
    <3>7. ASSUME NEW q \in Req, NEW s \in ahead'[q]
          PROVE  /\ status'[s] # "idle"
                 /\ target[s] = target[q]
                 /\ status'[q] = "waiting" /\ status'[s] = "waiting" =>
                       \E i, j \in DOMAIN queue'[target[q]] :
                           i < j /\ queue'[target[q]][i] = s /\ queue'[target[q]][j] = q
      <4>1. CASE q = r
        <5>1. s \in Req /\ s # r /\ status[s] = "waiting" /\ target[s] = p
          BY <3>3, <3>7, <4>1 DEF Waiting
        <5>. QED  BY <3>2, <3>3, <3>6, <3>7, <4>1, <5>1
      <4>2. CASE q # r
        <5>1. s \in Req /\ s \in ahead[q] /\ s # r
          BY <3>2, <3>4, <3>7, <4>2 DEF TypeOK
        <5>2. /\ status'[s] = status[s] /\ status'[q] = status[q]
              /\ status[s] # "idle" /\ target[s] = target[q] /\ target[q] \in Path
          BY <3>2, <4>2, <5>1 DEF InLine, TypeOK
        <5>3. ASSUME status[q] = "waiting", status[s] = "waiting"
              PROVE  \E i, j \in DOMAIN queue'[target[q]] :
                        i < j /\ queue'[target[q]][i] = s /\ queue'[target[q]][j] = q
          <6>1. PICK i, j \in DOMAIN queue[target[q]] :
                        i < j /\ queue[target[q]][i] = s /\ queue[target[q]][j] = q
            BY <5>1, <5>3 DEF InLine
          <6>. QED  BY <3>5, <5>2, <6>1
        <5>. QED  BY <5>2, <5>3
      <4>. QED  BY <4>1, <4>2
    <3>8. InLine'
      BY <3>1, <3>7 DEF InLine
    <3>9. ASSUME NEW q \in Req, status'[q] \in {"holding", "released"}, NEW s \in ahead'[q]
          PROVE  status'[s] # "waiting"
      <4>1. q # r /\ s \in ahead[q] /\ s \in Req /\ s # r
        BY <3>2, <3>3, <3>4, <3>9 DEF TypeOK
      <4>. QED  BY <3>2, <3>9, <4>1 DEF Fifo
    <3>. QED  BY <3>8, <3>9 DEF Fifo
  <2>3. ASSUME NEW r \in Req, TimeoutFires(r) PROVE InLine' /\ Fifo'
    <3>1. \A q \in Req : /\ status'[q] # "failed" => status'[q] = status[q]
                         /\ status'[q] = "failed" => status[q] \in {"waiting", "failed"}
      BY <2>3 DEF TimeoutFires, TypeOK
    <3>. QED  BY <2>3, <3>1 DEF TimeoutFires, InLine, Fifo, TypeOK
  <2>4. ASSUME NEW r \in Req, Release(r) PROVE InLine' /\ Fifo'
    <3>1. [status EXCEPT ![r] = "released"] \in [Req -> Status]
      BY DEF TypeOK, Status
    <3>2. \A q \in Req : [status EXCEPT ![r] = "released"][q] # status[q] =>
             status[q] = "holding" /\ [status EXCEPT ![r] = "released"][q] = "released"
      BY <2>4 DEF Release, TypeOK
    <3>3. target[r] \in Path
      BY DEF TypeOK
    <3>. QED  BY <2>4, <3>1, <3>2, <3>3, ReleaseKeepsLine DEF Release
  <2>5. ASSUME NEW p \in Path, Age(p) PROVE InLine' /\ Fifo'
    BY <2>5 DEF Age, InLine, Fifo
  <2>6. ASSUME ReleaseStale PROVE InLine' /\ Fifo'
    <3> DEFINE stale == {p \in Path : locked[p] /\ aged[p]}
    <3>1. stale \in SUBSET Path /\ status \in [Req -> Status]
      BY DEF TypeOK
    <3>. QED  BY <2>6, <3>1, ReleaseKeepsLine DEF ReleaseStale
  <2>7. CASE UNCHANGED vars
    BY <2>7 DEF vars, InLine, Fifo
  <2>. QED  BY <2>1, <2>2, <2>3, <2>4, <2>5, <2>6, <2>7 DEF Next
<1>. QED  BY <1>1, <1>2, TypeCorrect, QueueAlwaysSound, PTL DEF Spec

-----------------------------------------------------------------------------
\* ProjectService.  Rows, and what the constants have to be: no row is no row's value.
WorkRows == [status : Works!Live \cup {"archived"}, name : WorkName]
Rowed == WorkRows \cup {NoRow}
WorksAssumption == NoRow \notin WorkRows /\ NoRow \notin WorkName /\ MaxCreated \in Nat

\* The calls on a project between two awaits, and a call that creates a channel.
WorkCalls == [kind : Works!Kind, p : Work, pc : {"allowed", "writes", "committed", "indexes", "unplaces"},
          name : WorkName \cup {NoRow}, mine : Rowed]
Opening == [kind |-> "channel", pc |-> "stores"]

WorkTyped ==
    /\ row \in [Work -> Rowed] /\ search \in [Work -> Rowed]
    /\ placed \subseteq Work /\ recorded \subseteq Work /\ created \in Nat
    /\ pjCall \in [Caller -> {Works!Idle, Opening} \cup WorkCalls]
    /\ pjOverlapped \subseteq Work /\ contended \in BOOLEAN

\* The calls under way about a project, and those that write names.
Working == {c \in Caller : pjCall[c] \in WorkCalls}

\* What a suspended call stands for: what it read was there, what it will write is a
\* row, and the archive has the event of a row it saw archived.
ReadBy(r) ==
    /\ r.kind \in Works!Naming => r.name \in WorkName
    /\ r.kind # "create" => row[r.p] # NoRow
    /\ r.pc = "writes" => r.kind \in {"update", "move", "verify", "reject"}
    /\ r.pc = "indexes" => r.kind \in {"create", "move", "verify", "reject"}
    /\ r.pc = "unplaces" => r.kind = "archive"
    /\ r.pc \in {"writes", "committed", "indexes"} => r.mine # NoRow
    /\ r.mine # NoRow /\ r.mine.status = "archived" => r.p \in recorded

WorkRead == Works!ArchiveOnRecord /\ \A c \in Working : ReadBy(pjCall[c])

\* Search shows the live row of a project, and the cube has no other.
Synced(p) ==
    /\ search[p] = IF Works!LiveRow(p) THEN row[p] ELSE NoRow
    /\ p \in placed => Works!LiveRow(p)

\* Where the only call on a project stands, and how far row, search and cube are apart
\* until it goes on.
StageOf(r) ==
    /\ r.pc \in {"allowed", "writes"} =>
        /\ Synced(r.p)
        /\ r.kind = "create" => row[r.p] = NoRow
        /\ r.kind \notin {"create", "reject"} => Works!LiveRow(r.p)
        /\ r.pc = "writes" => r.mine = row[r.p]
    /\ r.pc \in {"committed", "indexes"} /\ r.kind # "archive" =>
        Works!LiveRow(r.p) /\ r.mine = row[r.p]
    /\ r.pc \in {"committed", "unplaces"} /\ r.kind = "archive" => ~Works!LiveRow(r.p)
    /\ r.pc = "unplaces" => search[r.p] = NoRow

\* A project whose calls never overlapped: one call at most, or everything agrees.
AloneAt(p) ==
    /\ \A c, d \in Working : pjCall[c].p = p /\ pjCall[d].p = p => c = d
    /\ \A c \in Working : pjCall[c].p = p => StageOf(pjCall[c])
    /\ (\A c \in Working : pjCall[c].p # p) => Synced(p)

WorkAlone == \A p \in Work \ pjOverlapped : AloneAt(p)

\* Names: unless two naming calls overlapped, there is one, its name is free, and live
\* projects have different names.
OneNames == \A c, d \in Working : pjCall[c].kind \in Works!Naming /\ pjCall[d].kind \in Works!Naming => c = d
NameFree ==
    \A c \in Working : pjCall[c].kind \in Works!Naming /\ pjCall[c].pc \in {"allowed", "writes"}
                       /\ pjCall[c].p \notin pjOverlapped =>
        \A q \in Work \ pjOverlapped :
            q # pjCall[c].p /\ Works!LiveRow(q) => row[q].name # pjCall[c].name
NamesUnique ==
    \A p, q \in Work \ pjOverlapped :
        p # q /\ Works!LiveRow(p) /\ Works!LiveRow(q) => row[p].name # row[q].name
NamesKept == ~contended => OneNames /\ NameFree /\ NamesUnique

\* Channels: unless two openings overlapped, there is one, and it is within the limit.
OpensKept ==
    ~contended =>
        /\ \A c, d \in Caller : pjCall[c] = Opening /\ pjCall[d] = Opening => c = d
        /\ \A c \in Caller : pjCall[c] = Opening => created < MaxCreated
        /\ created <= MaxCreated

WorkInv == WorkTyped /\ WorkRead /\ WorkAlone /\ NamesKept /\ OpensKept

LEMMA WorkPlaces ==
    /\ Works!Idle \notin WorkCalls /\ Opening \notin WorkCalls /\ Works!Idle # Opening
    /\ \A r \in {Works!Idle, Opening} \cup WorkCalls : r.pc = "idle" <=> r = Works!Idle
    /\ \A r \in {Works!Idle, Opening} \cup WorkCalls : r.pc = "stores" <=> r = Opening
BY DEF Works!Idle, Opening, WorkCalls

LEMMA Abouts ==
    ASSUME WorkTyped PROVE \A p \in Work : Works!About(p) = {c \in Working : pjCall[c].p = p}
BY WorkPlaces DEF Works!About, Works!Busy, Working, WorkTyped, WorkCalls, Opening,
   Works!Idle, Works!Kind

LEMMA WorkInit == ASSUME WorksAssumption, Works!Init PROVE WorkInv
<1>1. Working = {} BY WorkPlaces DEF Works!Init, Working
<1>2. WorkTyped BY DEF Works!Init, WorkTyped, Rowed
<1>3. \A c \in Caller : pjCall[c] # Opening BY WorkPlaces DEF Works!Init
<1>. QED BY <1>1, <1>2, <1>3 DEF Works!Init, WorkInv, WorkRead, WorkAlone, NamesKept,
            OpensKept, WorksAssumption, AloneAt, Synced,
    Works!LiveRow, Works!ArchiveOnRecord, OneNames, NameFree, NamesUnique

\* A call about a project goes on as s, or ends, and changes what is known of its
\* project only.
Acts(c, p, s) ==
    LET r == pjCall[c] IN
    /\ r \in WorkCalls /\ r.p = p /\ s \in WorkCalls \cup {Works!Idle}
    /\ pjCall' = [pjCall EXCEPT ![c] = s]
    /\ s \in WorkCalls => s.p = p /\ s.kind = r.kind /\ s.name = r.name
    /\ row' \in [Work -> Rowed] /\ search' \in [Work -> Rowed]
    /\ placed' \subseteq Work
    /\ \A q \in Work \ {p} :
           row'[q] = row[q] /\ search'[q] = search[q] /\ (q \in placed' <=> q \in placed)
    /\ row[p] # NoRow => row'[p] # NoRow
    /\ recorded \subseteq recorded' /\ recorded' \subseteq Work
    /\ created' = created /\ pjOverlapped' = pjOverlapped
    /\ contended' \in BOOLEAN /\ (contended => contended')

\* What it has to see to itself: that its record stays true, ...
StaysRead(p, s) ==
    /\ s \in WorkCalls => ReadBy(s)'
    /\ row'[p] # NoRow /\ row'[p].status = "archived" => p \in recorded'

\* ... that it keeps to the stages, where no other call is about the project, ...
StaysStaged(c, p, s) ==
    StageOf(pjCall[c]) => IF s \in WorkCalls THEN StageOf(s)' ELSE Synced(p)'

\* ... and that its project shows no new name but the one that was checked.
StaysNamed(c, p, s) ==
    LET r == pjCall[c] IN
    /\ s \in WorkCalls /\ s.pc \in {"allowed", "writes"} => r.pc \in {"allowed", "writes"}
    /\ ~contended' /\ StageOf(r) /\ Works!LiveRow(p)' =>
           \/ Works!LiveRow(p) /\ row'[p].name = row[p].name
           \/ /\ r.kind \in Works!Naming /\ r.pc \in {"allowed", "writes"}
              /\ row'[p].name = r.name
              /\ s \in WorkCalls => s.pc \notin {"allowed", "writes"}

LEMMA OtherCalls ==
    ASSUME WorkTyped, NEW c \in Caller, NEW p, NEW s, Acts(c, p, s)
    PROVE  /\ c \in Working /\ pjCall'[c] = s
           /\ \A d \in Caller : d # c => pjCall'[d] = pjCall[d]
           /\ Working' = IF s \in WorkCalls THEN Working ELSE Working \ {c}
           /\ pjCall[c].p = p /\ p \in Work /\ pjCall[c] \in WorkCalls
BY DEF WorkTyped, Working, Acts, WorkCalls

LEMMA ActsTyped == ASSUME WorksAssumption, WorkTyped, NEW c \in Caller, NEW p, NEW s, Acts(c, p, s) PROVE WorkTyped'
BY DEF WorkTyped, Acts

LEMMA ActsRead ==
    ASSUME WorkTyped, WorkRead, NEW c \in Caller, NEW p, NEW s, Acts(c, p, s), StaysRead(p, s)
    PROVE  WorkRead'
<1>1. \A q \in Work \ {p} : row'[q] = row[q]
    BY DEF Acts
<1>2. recorded \subseteq recorded' /\ (row[p] # NoRow => row'[p] # NoRow) BY DEF Acts
<1>3. Works!ArchiveOnRecord'
  BY <1>1, <1>2 DEF Works!ArchiveOnRecord, WorkRead, StaysRead
<1>4. ASSUME NEW d \in Working' PROVE ReadBy(pjCall[d])'
  <2>1. CASE d = c
    BY <2>1, OtherCalls, <1>4 DEF StaysRead, Working
  <2>2. CASE d # c
    <3>1. d \in Working /\ pjCall'[d] = pjCall[d] BY <1>4, <2>2, OtherCalls DEF Working
    <3>2. ReadBy(pjCall[d]) /\ pjCall[d].p \in Work BY <3>1 DEF WorkRead, Working, WorkCalls
    <3>. QED BY <1>1, <1>2, <3>1, <3>2 DEF ReadBy
  <2>. QED BY <2>1, <2>2
<1>. QED BY <1>3, <1>4 DEF WorkRead

LEMMA ActsAlone ==
    ASSUME WorkTyped, WorkAlone, NEW c \in Caller, NEW p, NEW s, Acts(c, p, s), StaysStaged(c, p, s)
    PROVE  WorkAlone'
<1>0. s \in WorkCalls => s.p = p
    BY DEF Acts
<1>1. /\ c \in Working /\ pjCall'[c] = s /\ pjCall[c].p = p /\ p \in Work
      /\ \A d \in Caller : d # c => pjCall'[d] = pjCall[d]
      /\ Working' = IF s \in WorkCalls THEN Working ELSE Working \ {c}
    BY OtherCalls
<1>2. pjOverlapped' = pjOverlapped /\ Working \subseteq Caller BY DEF Acts, Working
<1>3. ASSUME NEW q \in Work \ pjOverlapped, q # p PROVE AloneAt(q)'
  <2>1. row'[q] = row[q] /\ search'[q] = search[q] /\ (q \in placed' <=> q \in placed)
    BY <1>3 DEF Acts
  <2>2. Synced(q)' <=> Synced(q) BY <2>1 DEF Synced, Works!LiveRow
  <2>3. \A d \in Working' : pjCall'[d].p = q => d # c /\ d \in Working /\ pjCall'[d] = pjCall[d]
    BY <1>0, <1>1, <1>2, <1>3
  <2>4. \A d \in Working : pjCall[d].p = q => d \in Working' /\ pjCall'[d] = pjCall[d]
    BY <1>0, <1>1, <1>2, <1>3
  <2>5. \A d \in Working' : pjCall'[d].p = q => StageOf(pjCall[d])'
    <3>1. SUFFICES ASSUME NEW d \in Working', pjCall'[d].p = q PROVE StageOf(pjCall[d])'
      OBVIOUS
    <3>2. pjCall'[d] = pjCall[d] /\ StageOf(pjCall[d]) /\ pjCall[d].p = q
      BY <2>3, <3>1 DEF WorkAlone, AloneAt
    <3>. QED BY <2>1, <2>2, <3>2 DEF StageOf, Works!LiveRow
  <2>. QED BY <2>2, <2>3, <2>4, <2>5 DEF WorkAlone, AloneAt
<1>4. ASSUME p \notin pjOverlapped PROVE AloneAt(p)'
  <2>1. \A d \in Working : pjCall[d].p = p => d = c
    BY <1>0, <1>1, <1>4 DEF WorkAlone, AloneAt
  <2>2. StageOf(pjCall[c]) BY <1>0, <1>1, <1>4 DEF WorkAlone, AloneAt
  <2>3. \A d \in Working' : pjCall'[d].p = p => d = c BY <1>0, <1>1, <1>2, <2>1
  <2>4. CASE s \in WorkCalls
    <3>1. StageOf(pjCall[c])' BY <1>0, <1>1, <2>2, <2>4 DEF StaysStaged
    <3>2. c \in Working' /\ pjCall'[c].p = p BY <1>0, <1>1, <2>4
    <3>. QED BY <2>3, <3>1, <3>2 DEF AloneAt
  <2>5. CASE s \notin WorkCalls
    <3>1. Synced(p)' BY <2>2, <2>5 DEF StaysStaged
    <3>2. \A d \in Working' : pjCall'[d].p # p BY <1>0, <1>1, <2>3, <2>5
    <3>. QED BY <3>1, <3>2 DEF AloneAt
  <2>. QED BY <2>4, <2>5
<1>. QED BY <1>2, <1>3, <1>4 DEF WorkAlone

LEMMA ActsNames ==
    ASSUME WorkTyped, WorkAlone, NamesKept, NEW c \in Caller, NEW p, NEW s, Acts(c, p, s), StaysNamed(c, p, s)
    PROVE  NamesKept'
<1> SUFFICES ASSUME ~contended' PROVE OneNames' /\ NameFree' /\ NamesUnique'
  BY DEF NamesKept
<1>0. s \in WorkCalls => s.p = p /\ s.kind = pjCall[c].kind /\ s.name = pjCall[c].name
    BY DEF Acts
<1>1. /\ c \in Working /\ pjCall'[c] = s /\ pjCall[c].p = p /\ p \in Work
      /\ \A d \in Caller : d # c => pjCall'[d] = pjCall[d]
      /\ Working' = IF s \in WorkCalls THEN Working ELSE Working \ {c}
    BY OtherCalls
<1>2. pjOverlapped' = pjOverlapped /\ Working \subseteq Caller BY DEF Acts, Working
<1>3. ~contended /\ OneNames /\ NameFree /\ NamesUnique BY DEF Acts, WorkTyped, NamesKept
<1>4. \A q \in Work \ {p} : row'[q] = row[q] /\ (Works!LiveRow(q)' <=> Works!LiveRow(q))
    BY DEF Acts, Works!LiveRow
<1>5. p \notin pjOverlapped => StageOf(pjCall[c]) BY <1>0, <1>1 DEF WorkAlone, AloneAt
<1>6. OneNames' BY <1>0, <1>1, <1>2, <1>3 DEF OneNames
<1>7. ASSUME NEW d \in Working', pjCall'[d].kind \in Works!Naming, pjCall'[d].pc \in {"allowed", "writes"},
             pjCall'[d].p \notin pjOverlapped,
             NEW q \in Work \ pjOverlapped, q # pjCall'[d].p, Works!LiveRow(q)'
      PROVE  row'[q].name # pjCall'[d].name
  <2>1. CASE d = c
    <3>1. pjCall'[c].p = p /\ pjCall'[c].name = pjCall[c].name /\ pjCall[c].kind \in Works!Naming
          /\ pjCall[c].pc \in {"allowed", "writes"}
      BY <1>0, <1>1, <1>7, <2>1 DEF StaysNamed
    <3>. QED BY <1>0, <1>1, <1>3, <1>4, <1>7, <2>1, <3>1 DEF NameFree
  <2>2. CASE d # c
    <3>1. d \in Working /\ pjCall'[d] = pjCall[d] BY <1>0, <1>1, <1>2, <1>7, <2>2
    <3>2. pjCall[c].kind \notin Works!Naming BY <1>0, <1>1, <1>3, <1>7, <2>2, <3>1 DEF OneNames
    <3>3. Works!LiveRow(q) /\ row'[q].name = row[q].name
      BY <1>4, <1>5, <1>7, <3>2 DEF StaysNamed
    <3>. QED BY <1>3, <1>7, <3>1, <3>3 DEF NameFree
  <2>. QED BY <2>1, <2>2
<1>8. ASSUME NEW q \in Work \ pjOverlapped, q # p, p \notin pjOverlapped, Works!LiveRow(p)', Works!LiveRow(q)'
      PROVE  row'[p].name # row'[q].name
  <2>1. Works!LiveRow(q) /\ row'[q] = row[q] BY <1>4, <1>8
  <2>2. CASE Works!LiveRow(p) /\ row'[p].name = row[p].name
    BY <1>0, <1>1, <1>3, <1>8, <2>1, <2>2 DEF NamesUnique
  <2>3. CASE ~(Works!LiveRow(p) /\ row'[p].name = row[p].name)
    <3>1. pjCall[c].kind \in Works!Naming /\ pjCall[c].pc \in {"allowed", "writes"}
          /\ row'[p].name = pjCall[c].name
      BY <1>5, <1>8, <2>3 DEF StaysNamed
    <3>. QED BY <1>0, <1>1, <1>3, <1>8, <2>1, <3>1 DEF NameFree
  <2>. QED BY <2>2, <2>3
<1>9. NamesUnique' BY <1>0, <1>1, <1>2, <1>3, <1>4, <1>8 DEF NamesUnique
<1>. QED BY <1>2, <1>6, <1>7, <1>9 DEF NameFree

LEMMA ActsOpens ==
    ASSUME WorkTyped, OpensKept, NEW c \in Caller, NEW p, NEW s, Acts(c, p, s) PROVE OpensKept'
<1>1. created' = created /\ (~contended' => ~contended) BY DEF Acts, WorkTyped
<1>2. s # Opening BY WorkPlaces DEF Acts
<1>3. \A d \in Caller : pjCall'[d] = Opening => pjCall[d] = Opening BY <1>2 DEF Acts, WorkTyped
<1>. QED BY <1>1, <1>3 DEF OpensKept

LEMMA ActsKeep ==
    ASSUME WorksAssumption, WorkInv, NEW c \in Caller, NEW p, NEW s,
           Acts(c, p, s), StaysRead(p, s), StaysStaged(c, p, s), StaysNamed(c, p, s)
    PROVE  WorkInv'
BY ActsTyped, ActsRead, ActsAlone, ActsNames, ActsOpens DEF WorkInv

LEMMA WorkFacts ==
    ASSUME WorkTyped, WorkRead, NEW c \in Caller, pjCall[c] \in WorkCalls
    PROVE  /\ pjCall[c].p \in Work /\ pjCall[c].kind \in Works!Kind
           /\ pjCall[c].pc \in {"allowed", "writes", "committed", "indexes", "unplaces"}
           /\ pjCall[c].name \in WorkName \cup {NoRow} /\ pjCall[c].mine \in Rowed
           /\ row[pjCall[c].p] \in Rowed /\ ReadBy(pjCall[c])
BY DEF WorkTyped, WorkCalls, WorkRead, Working

LEMMA NotOpening ==
    ASSUME WorkTyped, NEW c \in Caller, pjCall[c].pc \notin {"idle", "stores"}
    PROVE  pjCall[c] \in WorkCalls
BY WorkPlaces DEF WorkTyped

\* The stages of a call on a project.
WorkStages == {"allowed", "writes", "committed", "indexes", "unplaces"}

\* A call's record as it goes on to a stage, with another row or the one it has.
WorkOnTo(r, pc, m) == [r EXCEPT !.pc = pc, !.mine = m]
WorkOn(r, pc) == [r EXCEPT !.pc = pc]

LEMMA WorkGoes ==
    ASSUME NEW r \in WorkCalls, NEW pc \in WorkStages, NEW m \in Rowed
    PROVE  /\ WorkOnTo(r, pc, m) \in WorkCalls
           /\ WorkOnTo(r, pc, m).pc = pc /\ WorkOnTo(r, pc, m).mine = m /\ WorkOnTo(r, pc, m).p = r.p
           /\ WorkOnTo(r, pc, m).kind = r.kind /\ WorkOnTo(r, pc, m).name = r.name
           /\ WorkOn(r, pc) \in WorkCalls
           /\ WorkOn(r, pc).pc = pc /\ WorkOn(r, pc).mine = r.mine /\ WorkOn(r, pc).p = r.p
           /\ WorkOn(r, pc).kind = r.kind /\ WorkOn(r, pc).name = r.name
<1>1. [r EXCEPT !.pc = pc] \in WorkCalls
    BY DEF WorkCalls, WorkStages
<1>2. [[r EXCEPT !.pc = pc] EXCEPT !.mine = m] \in WorkCalls
    BY <1>1 DEF WorkCalls
<1>3. [[r EXCEPT !.pc = pc] EXCEPT !.mine = m] = [r EXCEPT !.pc = pc, !.mine = m]
    OBVIOUS
<1>. QED BY <1>1, <1>2, <1>3 DEF WorkCalls, WorkOnTo, WorkOn

LEMMA ReadsKeep ==
    ASSUME WorksAssumption, WorkInv, NEW c \in Caller, Works!TxReads(c) PROVE WorkInv'
<1>1. pjCall[c] \in WorkCalls BY NotOpening DEF Works!TxReads, WorkInv
<1>2. PICK p : p = pjCall[c].p OBVIOUS
<1>3. PICK s : s = WorkOnTo(pjCall[c], "writes", row[p]) OBVIOUS
<1>4. /\ p \in Work /\ pjCall[c].kind \in Works!Kind /\ row[p] \in Rowed /\ ReadBy(pjCall[c])
    BY <1>1, <1>2, WorkFacts DEF WorkInv
<1>5. /\ s \in WorkCalls /\ s.pc = "writes" /\ s.mine = row[p]
      /\ s.p = p /\ s.kind = pjCall[c].kind /\ s.name = pjCall[c].name
  <2>1. "writes" \in WorkStages BY DEF WorkStages
  <2>2. row[p] \in Rowed BY <1>4
  <2>. QED BY ONLY <1>1, <1>2, <1>3, <2>1, <2>2, WorkGoes
<1>6. pjCall' = [pjCall EXCEPT ![c] = s]
  BY <1>2, <1>3 DEF Works!TxReads, WorkOnTo, WorkInv, WorkTyped
<1>7. Acts(c, p, s)
    BY <1>1, <1>2, <1>4, <1>5, <1>6 DEF Acts, Works!TxReads, WorkInv, WorkTyped
<1>8. StaysRead(p, s)
    BY <1>4, <1>5, <1>2 DEF StaysRead, Works!TxReads, ReadBy, WorkInv, WorkRead,
       Works!ArchiveOnRecord
<1>9. StaysStaged(c, p, s)
    BY <1>2, <1>4, <1>5 DEF StaysStaged, Works!TxReads, StageOf, Synced, Works!LiveRow
<1>10. StaysNamed(c, p, s)
    BY <1>2, <1>5 DEF StaysNamed, Works!TxReads, Works!LiveRow
<1>. QED BY <1>7, <1>8, <1>9, <1>10, ActsKeep

LEMMA FailsKeep ==
    ASSUME WorksAssumption, WorkInv, NEW c \in Caller, Works!TxFails(c) PROVE WorkInv'
<1>1. pjCall[c] \in WorkCalls BY NotOpening DEF Works!TxFails, WorkInv
<1>2. PICK p : p = pjCall[c].p OBVIOUS
<1>4. p \in Work /\ ReadBy(pjCall[c])
    BY <1>1, <1>2, WorkFacts DEF WorkInv
<1>7. Acts(c, p, Works!Idle)
    BY <1>1, <1>2, <1>4, WorkPlaces DEF Acts, Works!TxFails, Works!Ends, WorkInv, WorkTyped
<1>8. StaysRead(p, Works!Idle)
    BY <1>4, WorkPlaces DEF StaysRead, Works!TxFails, WorkInv, WorkRead, Works!ArchiveOnRecord
<1>9. StaysStaged(c, p, Works!Idle)
    BY <1>2, <1>4, WorkPlaces DEF StaysStaged, Works!TxFails, StageOf, Synced, Works!LiveRow
<1>10. StaysNamed(c, p, Works!Idle)
    BY <1>2, WorkPlaces DEF StaysNamed, Works!TxFails, Works!LiveRow
<1>. QED BY <1>7, <1>8, <1>9, <1>10, ActsKeep

LEMMA CommitsKeep ==
    ASSUME WorksAssumption, WorkInv, NEW c \in Caller, Works!Commits(c) PROVE WorkInv'
<1>1. pjCall[c] \in WorkCalls BY NotOpening DEF Works!Commits, Works!Writes, WorkInv
<1>2. PICK p : p = pjCall[c].p OBVIOUS
<1> DEFINE v == Works!Written(c)
<1>3. PICK s : s = WorkOnTo(pjCall[c], "committed", v) OBVIOUS
<1>4. /\ p \in Work /\ pjCall[c].kind \in Works!Kind /\ row[p] \in Rowed /\ ReadBy(pjCall[c])
      /\ pjCall[c].mine \in Rowed
    BY <1>1, <1>2, WorkFacts DEF WorkInv
<1>5. /\ v \in WorkRows
      /\ pjCall[c].kind \in Works!Naming => v.name = pjCall[c].name
      /\ pjCall[c].kind = "create" => v.status = "active"
      /\ pjCall[c].kind = "archive" => v.status = "archived" /\ v.name = row[p].name
      /\ pjCall[c].kind \in {"update", "move"} => v.status = pjCall[c].mine.status
      /\ pjCall[c].kind = "verify" => v.status = "verified"
      /\ pjCall[c].kind = "reject" => v.status = "pending"
      /\ pjCall[c].kind \in {"move", "verify", "reject"} => v.name = pjCall[c].mine.name
  <2>1. CASE pjCall[c].kind = "create"
    BY <1>4, <2>1 DEF Works!Written, Works!Created, WorkRows, Works!Live, ReadBy, Works!Naming
  <2>2. CASE pjCall[c].kind = "archive"
    BY <1>2, <1>4, <2>2 DEF Works!Written, WorkRows, Rowed, ReadBy, Works!Naming
  <2>3. CASE pjCall[c].kind \notin {"create", "archive"}
    <3>1. pjCall[c].kind \in {"update", "move", "verify", "reject"}
      BY <1>4, <2>3 DEF Works!Kind
    <3>2. pjCall[c].mine \in WorkRows
      BY <1>4, <2>3 DEF Works!Commits, Works!Writes, ReadBy, Rowed
    <3>3. CASE pjCall[c].kind = "update"
      BY <1>4, <3>2, <3>3 DEF Works!Written, Works!Renamed, WorkRows, Works!Live, ReadBy,
         Works!Naming
    <3>4. CASE pjCall[c].kind = "move"
      BY <3>2, <3>4 DEF Works!Written, Works!Naming
    <3>5. CASE pjCall[c].kind = "verify"
      BY <3>2, <3>5 DEF Works!Written, WorkRows, Works!Live, Works!Naming
    <3>6. CASE pjCall[c].kind = "reject"
      BY <3>2, <3>6 DEF Works!Written, WorkRows, Works!Live, Works!Naming
    <3>. QED BY <3>1, <3>3, <3>4, <3>5, <3>6
  <2>. QED BY <2>1, <2>2, <2>3
<1>6. v \in Rowed /\ v # NoRow BY <1>5 DEF Rowed, WorksAssumption
<1>. HIDE DEF v
<1>7. /\ s \in WorkCalls /\ s.pc = "committed" /\ s.mine = v
      /\ s.p = p /\ s.kind = pjCall[c].kind /\ s.name = pjCall[c].name
  <2>1. "committed" \in WorkStages /\ v \in Rowed
    BY <1>6 DEF WorkStages
  <2>2. /\ s \in WorkCalls /\ s.pc = "committed" /\ s.mine = v
        /\ s.p = pjCall[c].p /\ s.kind = pjCall[c].kind /\ s.name = pjCall[c].name
    BY ONLY <1>1, <1>3, <2>1, WorkGoes
  <2>. QED BY <1>2, <2>2
<1>8. /\ pjCall' = [pjCall EXCEPT ![c] = s] /\ row' = [row EXCEPT ![p] = v]
      /\ row' \in [Work -> Rowed] /\ row'[p] = v
    BY <1>2, <1>3, <1>4, <1>6 DEF Works!Commits, WorkOnTo, v, WorkInv, WorkTyped
<1>9. /\ search' = search /\ placed' = placed /\ pjOverlapped' = pjOverlapped
      /\ recorded' = IF pjCall[c].kind = "archive" THEN recorded \cup {p} ELSE recorded
      /\ contended' = (contended \/ (row[p] # NoRow /\ row[p].status = "archived"))
      /\ created' = created
      /\ \/ pjCall[c].pc = "writes"
         \/ pjCall[c].pc = "allowed" /\ pjCall[c].kind \in {"create", "archive"}
    BY <1>2 DEF Works!Commits, Works!Writes
<1>10. Acts(c, p, s)
    BY <1>1, <1>2, <1>4, <1>6, <1>7, <1>8, <1>9 DEF Acts, WorkInv, WorkTyped
<1>11. v.status = "archived" => p \in recorded'
    BY <1>2, <1>4, <1>5, <1>9 DEF ReadBy, Works!Kind
<1>12. ReadBy(s)' BY <1>4, <1>6, <1>7, <1>8, <1>11 DEF ReadBy
<1>13. StaysRead(p, s)
    BY <1>8, <1>11, <1>12 DEF StaysRead
<1>14. ASSUME StageOf(pjCall[c]) PROVE Works!LiveRow(p)' <=> pjCall[c].kind # "archive"
  <2>1. pjCall[c].kind \in {"update", "move"} => pjCall[c].mine.status \in Works!Live
    BY <1>2, <1>9, <1>14 DEF StageOf, Works!LiveRow
  <2>2. pjCall[c].kind = "archive" => v.status \notin Works!Live BY <1>5 DEF Works!Live
  <2>3. pjCall[c].kind # "archive" => v.status \in Works!Live
    BY <1>4, <1>5, <2>1 DEF Works!Live, Works!Kind
  <2>. QED BY <1>6, <1>8, <2>2, <2>3 DEF Works!LiveRow
<1>15. StaysStaged(c, p, s)
    BY <1>7, <1>8, <1>14 DEF StaysStaged, StageOf
<1>16. ASSUME ~contended', StageOf(pjCall[c]), Works!LiveRow(p)'
       PROVE  \/ Works!LiveRow(p) /\ row'[p].name = row[p].name
              \/ /\ pjCall[c].kind \in Works!Naming /\ pjCall[c].pc \in {"allowed", "writes"}
                 /\ row'[p].name = pjCall[c].name
                 /\ s \in WorkCalls => s.pc \notin {"allowed", "writes"}
  <2>1. CASE pjCall[c].kind \in Works!Naming
    BY <1>5, <1>7, <1>8, <1>9, <2>1
  <2>2. CASE pjCall[c].kind \notin Works!Naming
    <3>1. pjCall[c].kind \in {"move", "verify", "reject"} /\ pjCall[c].pc = "writes"
      BY <1>4, <1>9, <1>14, <1>16, <2>2 DEF Works!Kind, Works!Naming
    <3>2. pjCall[c].mine = row[p] /\ row[p] # NoRow
      BY <1>2, <1>4, <1>16, <3>1 DEF StageOf, ReadBy
    <3>3. Works!LiveRow(p) BY <1>4, <1>9, <1>16, <3>2 DEF Works!LiveRow, Rowed, WorkRows
    <3>. QED BY <1>5, <1>8, <3>1, <3>2, <3>3
  <2>. QED BY <2>1, <2>2
<1>17. StaysNamed(c, p, s)
    BY <1>7, <1>16 DEF StaysNamed
<1>. QED BY <1>10, <1>13, <1>15, <1>17, ActsKeep

LEMMA PlacesKeep ==
    ASSUME WorksAssumption, WorkInv, NEW c \in Caller, Works!Places(c) PROVE WorkInv'
<1>1. pjCall[c] \in WorkCalls BY NotOpening DEF Works!Places, WorkInv
<1>2. PICK p : p = pjCall[c].p OBVIOUS
<1>3. PICK s : s = WorkOn(pjCall[c], "indexes") OBVIOUS
<1>4. /\ p \in Work /\ ReadBy(pjCall[c]) /\ pjCall[c].mine \in Rowed
    BY <1>1, <1>2, WorkFacts DEF WorkInv
<1>5. /\ s \in WorkCalls /\ s.pc = "indexes" /\ s.mine = pjCall[c].mine
      /\ s.p = p /\ s.kind = pjCall[c].kind /\ s.name = pjCall[c].name
  <2>1. "indexes" \in WorkStages BY DEF WorkStages
  <2>2. NoRow \in Rowed BY DEF Rowed
  <2>. QED BY ONLY <1>1, <1>2, <1>3, <2>1, <2>2, WorkGoes
<1>6. pjCall' = [pjCall EXCEPT ![c] = s]
  BY <1>3 DEF Works!Places, Works!Goes, WorkOn, WorkInv, WorkTyped
<1>7. Acts(c, p, s)
    BY <1>1, <1>2, <1>4, <1>5, <1>6 DEF Acts, Works!Places, WorkInv, WorkTyped
<1>8. StaysRead(p, s)
    BY <1>4, <1>5, <1>2 DEF StaysRead, Works!Places, ReadBy, WorkInv, WorkRead,
       Works!ArchiveOnRecord
<1>9. StaysStaged(c, p, s)
    BY <1>2, <1>4, <1>5 DEF StaysStaged, Works!Places, StageOf, Works!LiveRow
<1>10. StaysNamed(c, p, s)
    BY <1>2, <1>5 DEF StaysNamed, Works!Places, Works!LiveRow
<1>. QED BY <1>7, <1>8, <1>9, <1>10, ActsKeep

LEMMA RereadsKeep ==
    ASSUME WorksAssumption, WorkInv, NEW c \in Caller, Works!Rereads(c) PROVE WorkInv'
<1>1. pjCall[c] \in WorkCalls BY NotOpening DEF Works!Rereads, WorkInv
<1>2. PICK p : p = pjCall[c].p OBVIOUS
<1>3. PICK s : s = WorkOnTo(pjCall[c], "indexes", row[p]) OBVIOUS
<1>4. /\ p \in Work /\ row[p] \in Rowed /\ ReadBy(pjCall[c])
    BY <1>1, <1>2, WorkFacts DEF WorkInv
<1>5. /\ s \in WorkCalls /\ s.pc = "indexes" /\ s.mine = row[p]
      /\ s.p = p /\ s.kind = pjCall[c].kind /\ s.name = pjCall[c].name
  <2>1. "indexes" \in WorkStages BY DEF WorkStages
  <2>2. row[p] \in Rowed BY <1>4
  <2>. QED BY ONLY <1>1, <1>2, <1>3, <2>1, <2>2, WorkGoes
<1>6. pjCall' = [pjCall EXCEPT ![c] = s]
  BY <1>2, <1>3 DEF Works!Rereads, WorkOnTo, WorkInv, WorkTyped
<1>7. Acts(c, p, s)
    BY <1>1, <1>2, <1>4, <1>5, <1>6 DEF Acts, Works!Rereads, WorkInv, WorkTyped
<1>8. StaysRead(p, s)
    BY <1>4, <1>5, <1>2 DEF StaysRead, Works!Rereads, ReadBy, WorkInv, WorkRead,
       Works!ArchiveOnRecord
<1>9. StaysStaged(c, p, s)
    BY <1>2, <1>4, <1>5 DEF StaysStaged, Works!Rereads, StageOf, Works!LiveRow
<1>10. StaysNamed(c, p, s)
    BY <1>2, <1>5 DEF StaysNamed, Works!Rereads, Works!LiveRow
<1>. QED BY <1>7, <1>8, <1>9, <1>10, ActsKeep

LEMMA IndexesKeep ==
    ASSUME WorksAssumption, WorkInv, NEW c \in Caller, Works!Indexes(c) PROVE WorkInv'
<1>1. pjCall[c] \in WorkCalls BY NotOpening DEF Works!Indexes, WorkInv
<1>2. PICK p : p = pjCall[c].p OBVIOUS
<1>4. p \in Work /\ pjCall[c].mine \in Rowed /\ ReadBy(pjCall[c])
    BY <1>1, <1>2, WorkFacts DEF WorkInv
<1>5. search' \in [Work -> Rowed] /\ search'[p] = pjCall[c].mine
      /\ \A q \in Work \ {p} : search'[q] = search[q]
    BY <1>2, <1>4 DEF Works!Indexes, WorkInv, WorkTyped
<1>7. Acts(c, p, Works!Idle)
    BY <1>1, <1>2, <1>4, <1>5, WorkPlaces DEF Acts, Works!Indexes, Works!Ends, WorkInv,
       WorkTyped
<1>8. StaysRead(p, Works!Idle)
    BY <1>4, WorkPlaces DEF StaysRead, Works!Indexes, WorkInv, WorkRead, Works!ArchiveOnRecord
<1>9. StaysStaged(c, p, Works!Idle)
  <2>1. pjCall[c].kind # "archive" /\ pjCall[c].pc \in {"committed", "indexes"}
    BY <1>4 DEF Works!Indexes, ReadBy
  <2>2. StageOf(pjCall[c]) => Works!LiveRow(p) /\ pjCall[c].mine = row[p] /\ Works!Idle \notin WorkCalls
    BY <1>2, <2>1, WorkPlaces DEF StageOf
  <2>. QED BY <1>5, <2>2 DEF StaysStaged, Works!Indexes, Synced, Works!LiveRow
<1>10. StaysNamed(c, p, Works!Idle)
    BY <1>2, WorkPlaces DEF StaysNamed, Works!Indexes, Works!LiveRow
<1>. QED BY <1>7, <1>8, <1>9, <1>10, ActsKeep

LEMMA UnindexesKeep ==
    ASSUME WorksAssumption, WorkInv, NEW c \in Caller, Works!Unindexes(c) PROVE WorkInv'
<1>1. pjCall[c] \in WorkCalls BY NotOpening DEF Works!Unindexes, WorkInv
<1>2. PICK p : p = pjCall[c].p OBVIOUS
<1>3. PICK s : s = WorkOn(pjCall[c], "unplaces") OBVIOUS
<1>4. /\ p \in Work /\ ReadBy(pjCall[c]) /\ pjCall[c].mine \in Rowed
    BY <1>1, <1>2, WorkFacts DEF WorkInv
<1>5. /\ s \in WorkCalls /\ s.pc = "unplaces" /\ s.mine = pjCall[c].mine
      /\ s.p = p /\ s.kind = pjCall[c].kind /\ s.name = pjCall[c].name
  <2>1. "unplaces" \in WorkStages BY DEF WorkStages
  <2>2. NoRow \in Rowed BY DEF Rowed
  <2>. QED BY ONLY <1>1, <1>2, <1>3, <2>1, <2>2, WorkGoes
<1>6. pjCall' = [pjCall EXCEPT ![c] = s]
  BY <1>3 DEF Works!Unindexes, Works!Goes, WorkOn, WorkInv, WorkTyped
<1>11. search' \in [Work -> Rowed] /\ search'[p] = NoRow
      /\ \A q \in Work \ {p} : search'[q] = search[q]
    BY <1>2, <1>4 DEF Works!Unindexes, WorkInv, WorkTyped, Rowed
<1>7. Acts(c, p, s)
    BY <1>1, <1>2, <1>4, <1>5, <1>6, <1>11 DEF Acts, Works!Unindexes, WorkInv, WorkTyped
<1>8. StaysRead(p, s)
    BY <1>4, <1>5, <1>2 DEF StaysRead, Works!Unindexes, ReadBy, WorkInv, WorkRead,
       Works!ArchiveOnRecord
<1>9. StaysStaged(c, p, s)
    BY <1>2, <1>4, <1>5, <1>11 DEF StaysStaged, Works!Unindexes, StageOf, Works!LiveRow
<1>10. StaysNamed(c, p, s)
    BY <1>2, <1>5 DEF StaysNamed, Works!Unindexes, Works!LiveRow
<1>. QED BY <1>7, <1>8, <1>9, <1>10, ActsKeep

LEMMA UnplacesKeep ==
    ASSUME WorksAssumption, WorkInv, NEW c \in Caller, Works!Unplaces(c) PROVE WorkInv'
<1>1. pjCall[c] \in WorkCalls BY NotOpening DEF Works!Unplaces, WorkInv
<1>2. PICK p : p = pjCall[c].p OBVIOUS
<1>4. p \in Work /\ ReadBy(pjCall[c])
    BY <1>1, <1>2, WorkFacts DEF WorkInv
<1>7. Acts(c, p, Works!Idle)
    BY <1>1, <1>2, <1>4, WorkPlaces DEF Acts, Works!Unplaces, Works!Ends, WorkInv, WorkTyped
<1>8. StaysRead(p, Works!Idle)
    BY <1>4, WorkPlaces DEF StaysRead, Works!Unplaces, WorkInv, WorkRead, Works!ArchiveOnRecord
<1>9. StaysStaged(c, p, Works!Idle)
    BY <1>2, <1>4, WorkPlaces DEF StaysStaged, Works!Unplaces, StageOf, Synced,
       Works!LiveRow, ReadBy
<1>10. StaysNamed(c, p, Works!Idle)
    BY <1>2, WorkPlaces DEF StaysNamed, Works!Unplaces, Works!LiveRow
<1>. QED BY <1>7, <1>8, <1>9, <1>10, ActsKeep

-----------------------------------------------------------------------------
LEMMA BeginKeeps ==
    ASSUME WorksAssumption, WorkInv, NEW c \in Caller, NEW kind \in Works!Kind, NEW p \in Work,
           NEW n \in WorkName, Works!Begin(c, kind, p, n)
    PROVE  WorkInv'
<1> DEFINE s == [kind |-> kind, p |-> p, pc |-> "allowed",
                 name |-> IF kind \in Works!Naming THEN n ELSE NoRow, mine |-> NoRow]
<1>1. /\ s \in WorkCalls /\ s.kind = kind /\ s.p = p /\ s.pc = "allowed" /\ s.mine = NoRow
      /\ kind \in Works!Naming => s.name = n
    BY DEF WorkCalls, Rowed
<1>. HIDE DEF s
<1>2. /\ pjCall[c] = Works!Idle /\ c \notin Working
      /\ pjCall' = [pjCall EXCEPT ![c] = s] /\ pjCall'[c] = s
      /\ \A d \in Caller : d # c => pjCall'[d] = pjCall[d]
      /\ Working' = Working \cup {c} /\ Working \subseteq Caller
    BY <1>1, WorkPlaces DEF Works!Begin, Works!Busy, WorkInv, WorkTyped, s, Working
<1>3. UNCHANGED <<row, search, placed, recorded, created>>
    BY DEF Works!Begin
<1>4. Works!About(p) = {d \in Working : pjCall[d].p = p}
    BY Abouts DEF WorkInv
<1>5. /\ pjOverlapped' = IF Works!About(p) = {} THEN pjOverlapped ELSE pjOverlapped \cup {p}
      /\ contended' = (contended \/ (kind \in Works!Naming /\ \E d \in Works!Busy : pjCall[d].kind \in Works!Naming))
      /\ Works!Permitted(kind, p, n) /\ (kind = "create" => Works!About(p) = {})
    BY DEF Works!Begin
<1>6. WorkTyped' BY <1>1, <1>2, <1>3, <1>5 DEF WorkInv, WorkTyped
<1>7. row[p] \in Rowed BY DEF WorkInv, WorkTyped
<1>8. ReadBy(s)' BY <1>1, <1>3, <1>5, <1>7 DEF ReadBy, Works!Permitted
<1>9. WorkRead'
  <2>1. Works!ArchiveOnRecord' BY <1>3 DEF WorkInv, WorkRead, Works!ArchiveOnRecord
  <2>2. ASSUME NEW d \in Working' PROVE ReadBy(pjCall[d])'
    <3>1. CASE d = c BY <1>2, <1>8, <3>1
    <3>2. CASE d # c
      <4>1. d \in Working /\ pjCall'[d] = pjCall[d] BY <1>2, <2>2, <3>2
      <4>2. ReadBy(pjCall[d]) BY <4>1 DEF WorkInv, WorkRead
      <4>. QED BY <1>3, <4>1, <4>2 DEF ReadBy
    <3>. QED BY <3>1, <3>2
  <2>. QED BY <2>1, <2>2 DEF WorkRead
<1>10. \A q \in Work : (Synced(q)' <=> Synced(q)) /\ (Works!LiveRow(q)' <=> Works!LiveRow(q))
    BY <1>3 DEF Synced, Works!LiveRow
<1>11. ASSUME NEW q \in Work \ pjOverlapped' PROVE AloneAt(q)'
  <2>1. q \in Work \ pjOverlapped /\ AloneAt(q) BY <1>5, <1>11 DEF WorkInv, WorkAlone
  <2>2. CASE q # p
    <3>1. \A d \in Working' : pjCall'[d].p = q => d \in Working /\ pjCall'[d] = pjCall[d]
      BY <1>1, <1>2, <2>2
    <3>2. \A d \in Working : d \in Working' /\ pjCall'[d] = pjCall[d] BY <1>2
    <3>3. ASSUME NEW d \in Working', pjCall'[d].p = q PROVE StageOf(pjCall[d])'
      <4>1. pjCall'[d] = pjCall[d] /\ StageOf(pjCall[d]) /\ pjCall[d].p = q
        BY <2>1, <3>1, <3>3 DEF AloneAt
      <4>. QED BY <1>3, <1>10, <4>1 DEF StageOf
    <3>. QED BY <1>10, <2>1, <3>1, <3>2, <3>3 DEF AloneAt
  <2>3. CASE q = p
    <3>1. Works!About(p) = {} BY <1>5, <1>11, <2>3
    <3>2. \A d \in Working : pjCall[d].p # p BY <1>4, <3>1
    <3>3. Synced(p)' BY <1>10, <2>1, <2>3, <3>2 DEF AloneAt
    <3>4. StageOf(s)'
      BY <1>1, <1>3, <1>5, <1>7, <1>10, <3>3 DEF StageOf, Works!Permitted, Works!LiveRow
    <3>5. \A d \in Working' : pjCall'[d].p = p => d = c BY <1>2, <3>2
    <3>. QED BY <1>1, <1>2, <2>3, <3>4, <3>5 DEF AloneAt
  <2>. QED BY <2>2, <2>3
<1>12. ASSUME ~contended' PROVE OneNames' /\ NameFree' /\ NamesUnique'
  <2>1. ~contended /\ OneNames /\ NameFree /\ NamesUnique
    BY <1>5, <1>12 DEF WorkInv, NamesKept
  <2>2. Working \subseteq Works!Busy BY DEF Working, Works!Busy, WorkCalls
  <2>3. kind \in Works!Naming => \A d \in Working : pjCall[d].kind \notin Works!Naming
    BY <1>5, <1>12, <2>2
  <2>4. OneNames' BY <1>1, <1>2, <2>1, <2>3 DEF OneNames
  <2>5. pjOverlapped \subseteq pjOverlapped' BY <1>5
  <2>6. NamesUnique' BY <1>3, <1>10, <2>1, <2>5 DEF NamesUnique
  <2>7. ASSUME NEW d \in Working', pjCall'[d].kind \in Works!Naming, pjCall'[d].pc \in {"allowed", "writes"},
               pjCall'[d].p \notin pjOverlapped',
               NEW q \in Work \ pjOverlapped', q # pjCall'[d].p, Works!LiveRow(q)'
        PROVE  row'[q].name # pjCall'[d].name
    <3>1. q \in Work \ pjOverlapped /\ Works!LiveRow(q) /\ row'[q] = row[q]
      BY <1>3, <1>10, <2>5, <2>7
    <3>2. CASE d = c
      <4>1. kind \in Works!Naming /\ pjCall'[d].name = n /\ pjCall'[d].p = p
        BY <1>1, <1>2, <2>7, <3>2
      <4>2. CASE Works!FreeName(n, p) BY <2>7, <3>1, <4>1, <4>2 DEF Works!FreeName
      <4>3. CASE ~Works!FreeName(n, p)
        <5>1. row[p] # NoRow /\ row[p].status \in Works!Live /\ n = row[p].name
          BY <1>5, <4>1, <4>3 DEF Works!Permitted, Works!Naming
        <5>2. p \in Work \ pjOverlapped /\ Works!LiveRow(p)
          BY <2>5, <2>7, <4>1, <5>1 DEF Works!LiveRow
        <5>. QED BY <2>1, <2>7, <3>1, <4>1, <5>1, <5>2 DEF NamesUnique
      <4>. QED BY <4>2, <4>3
    <3>3. CASE d # c
      <4>1. d \in Working /\ pjCall'[d] = pjCall[d] BY <1>2, <2>7, <3>3
      <4>. QED BY <2>1, <2>5, <2>7, <3>1, <4>1 DEF NameFree
    <3>. QED BY <3>2, <3>3
  <2>. QED BY <2>4, <2>6, <2>7 DEF NameFree
<1>13. OpensKept'
  <2>1. created' = created /\ (~contended' => ~contended) BY <1>3, <1>5
  <2>2. s # Opening BY <1>1, WorkPlaces
  <2>3. \A d \in Caller : pjCall'[d] = Opening => pjCall[d] = Opening BY <1>2, <2>2
  <2>. QED BY <2>1, <2>3 DEF WorkInv, OpensKept
<1>. QED BY <1>6, <1>9, <1>11, <1>12, <1>13 DEF WorkInv, WorkAlone, NamesKept

\* Calls about channels leave the calls about projects alone.
LEMMA OpensKeep ==
    ASSUME WorksAssumption, WorkInv, NEW c \in Caller, Works!AsksChannel(c) \/ Works!OpensChannel(c)
    PROVE  WorkInv'
<1>1. UNCHANGED <<row, search, placed, recorded, pjOverlapped>>
    BY DEF Works!AsksChannel, Works!OpensChannel
<1>2. /\ pjCall[c] \in {Works!Idle, Opening} /\ pjCall'[c] \in {Works!Idle, Opening}
      /\ \A d \in Caller : d # c => pjCall'[d] = pjCall[d]
      /\ pjCall' \in [Caller -> {Works!Idle, Opening} \cup WorkCalls]
    BY WorkPlaces DEF Works!AsksChannel, Works!OpensChannel, Works!Busy, Works!Ends,
       Opening, WorkInv, WorkTyped
<1>3. Working' = Working /\ \A d \in Working : pjCall'[d] = pjCall[d] /\ d # c
    BY <1>2, WorkPlaces DEF Working
<1>4. created' \in Nat /\ contended' \in BOOLEAN /\ (contended => contended')
  <2>1. created' \in {created, created + 1} /\ created \in Nat /\ contended \in BOOLEAN
    BY DEF Works!AsksChannel, Works!OpensChannel, WorkInv, WorkTyped
  <2>2. CASE Works!AsksChannel(c)
    <3>1. contended' = (contended \/ \E d \in Works!Busy : pjCall[d].kind = "channel")
      BY <2>2 DEF Works!AsksChannel
    <3>. QED BY <2>1, <3>1
  <2>3. CASE Works!OpensChannel(c)
    BY <2>1, <2>3 DEF Works!OpensChannel
  <2>. QED BY <2>2, <2>3
<1>5. WorkTyped' BY <1>1, <1>2, <1>4 DEF WorkInv, WorkTyped
<1>6. \A d \in Working : ReadBy(pjCall[d])' <=> ReadBy(pjCall[d])
    BY <1>1, <1>3 DEF ReadBy
<1>7. WorkRead' BY <1>1, <1>3, <1>6 DEF WorkInv, WorkRead, Works!ArchiveOnRecord
<1>8. \A q \in Work : (Synced(q)' <=> Synced(q)) /\ (Works!LiveRow(q)' <=> Works!LiveRow(q))
    BY <1>1 DEF Synced, Works!LiveRow
<1>9. ASSUME NEW q \in Work \ pjOverlapped PROVE AloneAt(q)'
  <2>1. AloneAt(q) BY <1>9 DEF WorkInv, WorkAlone
  <2>2. ASSUME NEW d \in Working', pjCall'[d].p = q PROVE StageOf(pjCall[d])'
    <3>1. pjCall'[d] = pjCall[d] /\ StageOf(pjCall[d]) /\ pjCall[d].p = q
      BY <1>3, <2>1, <2>2 DEF AloneAt
    <3>. QED BY <1>1, <1>8, <3>1 DEF StageOf
  <2>. QED BY <1>3, <1>8, <2>1, <2>2 DEF AloneAt
<1>10. NamesKept'
  <2>1. OneNames => OneNames' BY <1>3 DEF OneNames
  <2>2. NamesUnique => NamesUnique' BY <1>1, <1>8 DEF NamesUnique
  <2>3. NameFree => NameFree' BY <1>1, <1>3, <1>8 DEF NameFree
  <2>. QED BY <1>4, <2>1, <2>2, <2>3 DEF WorkInv, NamesKept, WorkTyped
<1>11. OpensKept'
  <2>1. CASE Works!AsksChannel(c)
    <3>1. /\ created' = created /\ created < MaxCreated
          /\ contended' = (contended \/ \E d \in Works!Busy : pjCall[d].kind = "channel")
      BY <2>1 DEF Works!AsksChannel
    <3>2. \A d \in Caller : pjCall[d] = Opening => d \in Works!Busy /\ pjCall[d].kind = "channel"
      BY DEF Opening, Works!Busy
    <3>. QED BY <1>2, <3>1, <3>2 DEF WorkInv, OpensKept
  <2>2. CASE Works!OpensChannel(c)
    <3>1. created' = created + 1 /\ contended' = contended /\ pjCall[c] = Opening /\ pjCall'[c] = Works!Idle
      BY <2>2, WorkPlaces DEF Works!OpensChannel, Works!Ends, WorkInv, WorkTyped
    <3>. QED BY <1>2, <3>1, WorkPlaces DEF WorkInv, OpensKept, WorkTyped, WorksAssumption
  <2>. QED BY <2>1, <2>2
<1>. QED BY <1>1, <1>5, <1>7, <1>9, <1>10, <1>11 DEF WorkInv, WorkAlone

LEMMA NothingKeeps == ASSUME WorkInv, UNCHANGED Works!vars PROVE WorkInv'
<1>1. Working' = Working BY DEF Works!vars, Working
<1>2. \A q \in Work : (Synced(q)' <=> Synced(q)) /\ (Works!LiveRow(q)' <=> Works!LiveRow(q))
    BY DEF Works!vars, Synced, Works!LiveRow
<1>3. \A d \in Working : (ReadBy(pjCall[d])' <=> ReadBy(pjCall[d]))
    BY DEF Works!vars, ReadBy
<1>4. ASSUME NEW q \in Work \ pjOverlapped PROVE AloneAt(q)'
  <2>1. AloneAt(q) BY <1>4 DEF WorkInv, WorkAlone
  <2>2. \A d \in Working : pjCall[d].p = q => (StageOf(pjCall[d]))'
    BY <1>2, <2>1 DEF AloneAt, StageOf, Works!vars
  <2>. QED BY <1>1, <1>2, <2>1, <2>2 DEF AloneAt, Works!vars
<1>5. WorkTyped' BY DEF WorkInv, WorkTyped, Works!vars
<1>6. WorkRead' BY <1>1, <1>3 DEF WorkInv, WorkRead, Works!ArchiveOnRecord, Works!vars
<1>7. NamesKept'
    BY <1>1, <1>2 DEF WorkInv, NamesKept, OneNames, NameFree, NamesUnique, Works!vars
<1>8. OpensKept' BY DEF WorkInv, OpensKept, Works!vars
<1>. QED BY <1>4, <1>5, <1>6, <1>7, <1>8 DEF WorkInv, WorkAlone, Works!vars

\* ProjectService, whatever calls overlap: search shows the row of a project whose calls
\* came one after the other, a project is in the archive only with its event, and names and
\* channels stay within their limits unless two calls were checked against the same rows.
THEOREM ProjectsKept ==
    ASSUME WorksAssumption
    PROVE  Works!Spec => []ProjectsSound
<1>1. Works!Init => WorkInv BY WorkInit
<1>2. WorkInv /\ [Works!Next]_Works!vars => WorkInv'
    BY ReadsKeep, FailsKeep, CommitsKeep, PlacesKeep, RereadsKeep, IndexesKeep, UnindexesKeep,
       UnplacesKeep, BeginKeeps, OpensKeep, NothingKeeps DEF Works!Next, Works!Step
<1>3. WorkInv => ProjectsSound
  <2> SUFFICES ASSUME WorkInv PROVE ProjectsSound
    OBVIOUS
  <2>1. Works!TypeOK BY DEF WorkInv, WorkTyped, Works!TypeOK, Rowed, WorkRows
  <2>2. Works!SerialCallsIndex
    BY Abouts DEF Works!SerialCallsIndex, WorkInv, WorkAlone, AloneAt, Synced
  <2>3. Works!LimitsKept BY DEF WorkInv, NamesKept, NamesUnique, OpensKept, Works!LimitsKept
  <2>. QED BY <2>1, <2>2, <2>3 DEF WorkInv, WorkRead, ProjectsSound
<1>. QED BY <1>1, <1>2, <1>3, PTL DEF Works!Spec

-----------------------------------------------------------------------------
\* Cardinalities are those of the same sets whichever module asks.
LEMMA ShopCounts ==
    \A S : Shops!Cardinality(S) = Cardinality(S) /\ (Shops!IsFiniteSet(S) <=> IsFiniteSet(S))
<1>1. \A S : Shops!Cardinality(S) = Cardinality(S)
    BY DEF Shops!Cardinality, Cardinality
<1>2. \A S : Shops!IsFiniteSet(S) <=> IsFiniteSet(S)
    BY DEF Shops!IsFiniteSet, IsFiniteSet
<1>. QED BY <1>1, <1>2

LEMMA ShopEmpty == Shops!IsFiniteSet({}) /\ Shops!Cardinality({}) = 0
<1>1. IsFiniteSet({}) /\ Cardinality({}) = 0
    BY FS_EmptySet
<1>. QED BY <1>1, ShopCounts

LEMMA ShopSingle ==
    ASSUME NEW x
    PROVE  Shops!IsFiniteSet({x}) /\ Shops!Cardinality({x}) = 1
<1>1. IsFiniteSet({x}) /\ Cardinality({x}) = 1
    BY FS_Singleton
<1>. QED BY <1>1, ShopCounts

LEMMA ShopNumber ==
    ASSUME NEW S, Shops!IsFiniteSet(S)
    PROVE  Shops!Cardinality(S) \in Nat
<1>1. IsFiniteSet(S)
    BY ShopCounts
<1>2. Cardinality(S) \in Nat
    BY <1>1, FS_CardinalityType
<1>. QED BY <1>2, ShopCounts

LEMMA ShopSubset ==
    ASSUME NEW S, Shops!IsFiniteSet(S), NEW T \in SUBSET S
    PROVE  Shops!IsFiniteSet(T) /\ Shops!Cardinality(T) <= Shops!Cardinality(S)
<1>1. IsFiniteSet(S)
    BY ShopCounts
<1>2. IsFiniteSet(T) /\ Cardinality(T) <= Cardinality(S)
    BY <1>1, FS_Subset
<1>. QED BY <1>2, ShopCounts

LEMMA ShopAdd ==
    ASSUME NEW S, NEW x, Shops!IsFiniteSet(S)
    PROVE  /\ Shops!IsFiniteSet(S \cup {x})
           /\ Shops!Cardinality(S \cup {x}) =
                IF x \in S THEN Shops!Cardinality(S) ELSE Shops!Cardinality(S) + 1
<1>1. IsFiniteSet(S)
    BY ShopCounts
<1>2. /\ IsFiniteSet(S \cup {x})
      /\ Cardinality(S \cup {x}) = IF x \in S THEN Cardinality(S) ELSE Cardinality(S) + 1
    BY <1>1, FS_AddElement
<1>. QED BY <1>2, ShopCounts

LEMMA ShopRemove ==
    ASSUME NEW S, NEW x, Shops!IsFiniteSet(S)
    PROVE  /\ Shops!IsFiniteSet(S \ {x})
           /\ Shops!Cardinality(S \ {x}) =
                IF x \in S THEN Shops!Cardinality(S) - 1 ELSE Shops!Cardinality(S)
<1>1. IsFiniteSet(S)
    BY ShopCounts
<1>2. /\ IsFiniteSet(S \ {x})
      /\ Cardinality(S \ {x}) = IF x \in S THEN Cardinality(S) - 1 ELSE Cardinality(S)
    BY <1>1, FS_RemoveElement
<1>. QED BY <1>2, ShopCounts

\* The channel services: finitely many callers, followers and wallets, and at most one
\* channel from before, which has nobody to share an owner or a slug with.
ShopsAssumption ==
    /\ Shops!IsFiniteSet(ShopCall) /\ Shops!IsFiniteSet(Follower) /\ Shops!IsFiniteSet(Address) /\ Shops!IsFiniteSet(Old)
    /\ \A i, j \in Old : i = j
    /\ Old \cap ShopCall = {}
    /\ MaxChannels \in Nat \ {0} /\ MaxWallets \in Nat

\* Rows, and a call's record at each of its awaits.
ShopIds == Old \cup ShopCall
Shop == [id : ShopIds, owner : Owner, slug : Title \X Nat, wallets : SUBSET Address, followers : Int]
ReleaseRow == [id : ShopCall, version : Version, latest : BOOLEAN, deprecated : BOOLEAN]
NewCall == [at |-> "new"]
DoneCall == [at |-> "end"]
LatestCall == [at |-> "latest"]
Creates == [at : {"slug", "owner", "create"}, owner : Owner, slug : Title \X Nat]
Renames == [at : {"rename"}, id : ShopIds, slug : Title \X Nat]
Wallets == [at : {"wallets"}, id : ShopIds, wallets : SUBSET Address]
Counts == [at : {"count"}, id : ShopIds, by : {1, -1}]

ShopRec == {NewCall, DoneCall, LatestCall} \cup Creates \cup Renames \cup Wallets \cup Counts

\* Whether a channel is among C, or stored.
ThereIn(C, i) == \E x \in C : x.id = i
ThereIs(i) == ThereIn(channels, i)

ShopTyped ==
    /\ channels \subseteq Shop /\ Shops!IsFiniteSet(channels)
    /\ \A x, y \in channels : x.id = y.id => x = y
    /\ releases \subseteq ReleaseRow
    /\ \A x, y \in releases : x.id = y.id => x = y
    /\ follows \subseteq Follower \X ShopIds /\ \A s \in follows : ThereIs(s[2])
    /\ chCall \in [ShopCall -> ShopRec]
    /\ chOverlapped \in BOOLEAN

\* What is under way is about channels there are; what a call makes, no other call makes.
ShopPlaced ==
    /\ \A c \in ShopCall : chCall[c].at \in {"rename", "wallets", "count"} => ThereIs(chCall[c].id)
    /\ \A x \in channels : x.id \in ShopCall => chCall[x.id].at = "end"
    /\ \A x \in releases : chCall[x.id].at \in {"latest", "end"}

\* A slug's number counts calls that are over.
CallsOver == Shops!Cardinality({d \in ShopCall : chCall[d].at = "end"})
Numbered ==
    /\ \A c \in ShopCall : chCall[c] \in Creates => chCall[c].slug[2] <= CallsOver + 1
    /\ \A c \in ShopCall : chCall[c] \in Renames => chCall[c].slug[2] = 0
    /\ \A x \in channels : x.slug[2] <= CallsOver

\* Of the releases of calls that are over, one at most is the latest.
LatestOne ==
    \A x, y \in releases :
        x.latest /\ y.latest /\ chCall[x.id].at = "end" /\ chCall[y.id].at = "end" => x = y

\* Serial calls: one call in the critical part at most, and the limits it has checked hold.
OwnedIn(C, o) == {ch \in C : ch.owner = o}
SerialLimits ==
    ~chOverlapped =>
        /\ \A c, d \in ShopCall : chCall[c].at \in Shops!Critical /\ chCall[d].at \in Shops!Critical => c = d
        /\ \A o \in Owner : Shops!Cardinality(OwnedIn(channels, o)) <= MaxChannels
        /\ \A c \in ShopCall : chCall[c].at = "create" => Shops!Cardinality(OwnedIn(channels, chCall[c].owner)) < MaxChannels
        /\ \A ch \in channels : Shops!Cardinality(ch.wallets) <= MaxWallets
        /\ \A c \in ShopCall : chCall[c].at = "wallets" => Shops!Cardinality(chCall[c].wallets) <= MaxWallets

ShopInv == ShopTyped /\ ShopPlaced /\ Numbered /\ Shops!SlugsUnique /\ LatestOne /\ Shops!FollowersCounted /\ SerialLimits

LEMMA ShopKinds ==
    ASSUME NEW r \in ShopRec
    PROVE  /\ r.at \in {"new", "end", "latest", "slug", "owner", "create", "rename", "wallets", "count"}
           /\ r.at \in {"slug", "owner", "create"} <=> r \in Creates
           /\ r.at = "rename" <=> r \in Renames
           /\ r.at = "wallets" <=> r \in Wallets
           /\ r.at = "count" <=> r \in Counts
BY DEF ShopRec, NewCall, DoneCall, LatestCall, Creates, Renames, Wallets, Counts

LEMMA HereIs ==
    ASSUME NEW i, ThereIs(i)
    PROVE  Shops!Here(i) \in channels /\ Shops!Here(i).id = i
BY DEF ThereIs, ThereIn, Shops!Here

LEMMA ShopInit == ASSUME ShopsAssumption, Shops!Init PROVE ShopInv
<1>1. PICK t \in Title, o \in Owner :
        channels = {[id |-> i, owner |-> o, slug |-> <<t, 0>>, wallets |-> {}, followers |-> 0] :
                       i \in Old}
    BY DEF Shops!Init
<1>2. /\ chCall = [c \in ShopCall |-> NewCall] /\ releases = {} /\ follows = {} /\ chOverlapped = FALSE
    BY DEF Shops!Init, NewCall
<1>3. \A x \in channels : /\ x \in Shop /\ x.id \in Old /\ x.slug = <<t, 0>> /\ x.wallets = {}
                          /\ x.followers = 0
    BY <1>1 DEF Shop, ShopIds
<1>4. \A x, y \in channels : x = y
    BY <1>1 DEF ShopsAssumption
<1>5. Shops!IsFiniteSet(channels) /\ Shops!Cardinality(channels) <= 1
  <2>1. CASE channels = {} BY <2>1, ShopEmpty
  <2>2. CASE channels # {}
    <3>1. PICK x \in channels : TRUE BY <2>2
    <3>2. channels = {x} BY <1>4, <3>1
    <3>3. Shops!IsFiniteSet({x}) /\ Shops!Cardinality({x}) = 1
      BY ShopSingle
    <3>. QED BY <3>2, <3>3
  <2>. QED BY <2>1, <2>2
<1>6. \A c \in ShopCall : chCall[c] = NewCall /\ chCall[c].at = "new" BY <1>2 DEF NewCall
<1>7. ShopTyped BY <1>2, <1>3, <1>4, <1>5 DEF ShopTyped, ShopRec
<1>8. ShopPlaced BY <1>2, <1>3, <1>6 DEF ShopPlaced, ShopsAssumption
<1>9. Numbered
  <2>1. CallsOver \in Nat BY ShopSubset, ShopNumber DEF CallsOver, ShopsAssumption
  <2>2. \A x \in channels : x.slug[2] = 0 BY <1>3
  <2>3. \A c \in ShopCall : chCall[c] \notin Creates /\ chCall[c] \notin Renames
    BY <1>6 DEF Creates, Renames
  <2>. QED BY <2>1, <2>2, <2>3 DEF Numbered
<1>10. Shops!SlugsUnique BY <1>4 DEF Shops!SlugsUnique
<1>11. LatestOne BY <1>2 DEF LatestOne
<1>12. Shops!FollowersCounted
  <2>1. ASSUME NEW ch \in channels, NEW late, late = {c \in ShopCall : chCall[c].at = "count" /\ chCall[c].id = ch.id}
        PROVE  ch.followers = Shops!Cardinality({f \in Follower : <<f, ch.id>> \in follows})
                           - Shops!Cardinality({c \in late : chCall[c].by = 1})
                           + Shops!Cardinality({c \in late : chCall[c].by = -1})
    <3>1. late = {} BY <1>6, <2>1
    <3>2. /\ {f \in Follower : <<f, ch.id>> \in follows} = {}
          /\ {c \in late : chCall[c].by = 1} = {} /\ {c \in late : chCall[c].by = -1} = {}
      BY <1>2, <3>1
    <3>3. Shops!Cardinality({}) = 0
      BY ShopEmpty
    <3>4. ch.followers = 0 - 0 + 0
      BY <1>3
    <3>. QED BY <3>2, <3>3, <3>4
  <2>. QED BY <2>1 DEF Shops!FollowersCounted
<1>13. SerialLimits
  <2>1. ASSUME NEW w \in Owner PROVE Shops!Cardinality(OwnedIn(channels, w)) <= MaxChannels
    <3>1. OwnedIn(channels, w) \subseteq channels BY DEF OwnedIn
    <3>2. Shops!Cardinality(OwnedIn(channels, w)) <= Shops!Cardinality(channels) /\ Shops!IsFiniteSet(OwnedIn(channels, w))
      BY <1>5, <3>1, ShopSubset
    <3>3. Shops!Cardinality(OwnedIn(channels, w)) \in Nat /\ Shops!Cardinality(channels) \in Nat
      BY <1>5, <3>2, ShopNumber
    <3>. QED BY <1>5, <3>2, <3>3 DEF ShopsAssumption
  <2>2. \A ch \in channels : Shops!Cardinality(ch.wallets) <= MaxWallets
    <3>1. Shops!Cardinality({}) = 0
      BY ShopEmpty
    <3>2. Shops!Cardinality({}) <= MaxWallets
      BY <3>1 DEF ShopsAssumption
    <3>3. \A ch \in channels : ch.wallets = {}
      BY <1>3
    <3>. QED BY <3>2, <3>3
  <2>3. \A c \in ShopCall : chCall[c].at \notin Shops!Critical BY <1>6 DEF Shops!Critical
  <2>. QED BY <1>6, <2>1, <2>2, <2>3 DEF SerialLimits
<1>. QED BY <1>7, <1>8, <1>9, <1>10, <1>11, <1>12, <1>13 DEF ShopInv

-----------------------------------------------------------------------------
\* A call goes on, from whatever it was at but its end.
Turn(c, r) == chCall[c].at # "end" /\ r \in ShopRec /\ chCall' = [chCall EXCEPT ![c] = r]

LEMMA TurnMeans ==
    ASSUME ShopTyped, NEW c \in ShopCall, NEW r, Turn(c, r)
    PROVE  /\ chCall'[c] = r /\ chCall' \in [ShopCall -> ShopRec]
           /\ \A d \in ShopCall : d # c => chCall'[d] = chCall[d]
BY DEF ShopTyped, Turn

\* The calls that are over never become fewer.
LEMMA OverGrows ==
    ASSUME ShopsAssumption, ShopTyped, NEW c \in ShopCall, NEW r, Turn(c, r)
    PROVE  /\ CallsOver \in Nat /\ CallsOver' \in Nat
           /\ CallsOver' = IF r.at = "end" THEN CallsOver + 1 ELSE CallsOver
<1> DEFINE E == {d \in ShopCall : chCall[d].at = "end"}
<1>1. Shops!IsFiniteSet(E) /\ CallsOver = Shops!Cardinality(E) /\ CallsOver \in Nat
    BY ShopSubset, ShopNumber DEF ShopsAssumption, CallsOver
<1>2. c \notin E BY DEF Turn
<1>3. CASE r.at = "end"
  <2>1. {d \in ShopCall : chCall'[d].at = "end"} = E \cup {c} BY <1>3, TurnMeans
  <2>2. Shops!Cardinality(E \cup {c}) = Shops!Cardinality(E) + 1 BY <1>1, <1>2, ShopAdd
  <2>3. CallsOver' = Shops!Cardinality({d \in ShopCall : chCall'[d].at = "end"})
    BY DEF CallsOver
  <2>. HIDE DEF E
  <2>4. CallsOver' = CallsOver + 1
    BY <1>1, <2>1, <2>2, <2>3
  <2>. QED BY <1>1, <1>3, <2>4
<1>4. CASE r.at # "end"
  <2>1. {d \in ShopCall : chCall'[d].at = "end"} = E BY <1>2, <1>4, TurnMeans
  <2>. QED BY <1>1, <1>4, <2>1 DEF CallsOver
<1>. QED BY <1>3, <1>4



LEMMA TypedKept ==
    ASSUME ShopTyped, NEW c \in ShopCall, NEW r, Turn(c, r), channels' \subseteq Shop,
           Shops!IsFiniteSet(channels'), \A x, y \in channels' : x.id = y.id => x = y,
           releases' \subseteq ReleaseRow, \A x, y \in releases' : x.id = y.id => x = y,
           follows' \subseteq Follower \X ShopIds, \A s \in follows' : ThereIn(channels', s[2]),
           chOverlapped' \in BOOLEAN
    PROVE  ShopTyped'
<1>1. chCall' \in [ShopCall -> ShopRec] BY TurnMeans
<1>. QED BY <1>1 DEF ShopTyped, ThereIs

LEMMA PlacedKept ==
    ASSUME ShopTyped, ShopPlaced, NEW c \in ShopCall, NEW r, Turn(c, r),
           \A i : ThereIs(i) => ThereIn(channels', i),
           r.at \in {"rename", "wallets", "count"} => ThereIn(channels', r.id),
           \A x \in channels' : (x.id = c /\ r.at = "end") \/ \E y \in channels : y.id = x.id,
           \A x \in releases' : chCall'[x.id].at \in {"latest", "end"}
    PROVE  ShopPlaced'
<1>1. \A d \in ShopCall : chCall'[d].at \in {"rename", "wallets", "count"} => ThereIn(channels', chCall'[d].id)
    BY TurnMeans DEF ShopPlaced
<1>2. ASSUME NEW x \in channels', x.id \in ShopCall PROVE chCall'[x.id].at = "end"
  <2>1. CASE x.id = c /\ r.at = "end" BY <2>1, TurnMeans
  <2>2. CASE \E y \in channels : y.id = x.id
    <3>1. chCall[x.id].at = "end" BY <1>2, <2>2 DEF ShopPlaced
    <3>. QED BY <1>2, <3>1, TurnMeans DEF Turn
  <2>. QED BY <2>1, <2>2
<1>. QED BY <1>1, <1>2 DEF ShopPlaced, ThereIs

LEMMA NumbersKept ==
    ASSUME ShopsAssumption, ShopTyped, Numbered, NEW c \in ShopCall, NEW r, Turn(c, r),
           r \in Creates => r.slug[2] <= CallsOver + 1,
           r \in Renames => r.slug[2] = 0,
           \A x \in channels' : x.slug[2] <= CallsOver' \/ \E y \in channels : x.slug = y.slug
    PROVE  Numbered'
<1>1. CallsOver \in Nat /\ CallsOver' \in Nat /\ CallsOver <= CallsOver'
    BY OverGrows
<1>2. \A d \in ShopCall : chCall'[d] \in Creates => chCall'[d].slug[2] <= CallsOver' + 1
  <2>1. \A d \in ShopCall : chCall'[d] \in Creates => chCall'[d].slug[2] <= CallsOver + 1
    BY TurnMeans DEF Numbered
  <2>2. \A d \in ShopCall : chCall'[d] \in Creates => chCall'[d].slug[2] \in Nat
    BY DEF Creates
  <2>. QED BY <1>1, <2>1, <2>2
<1>3. \A d \in ShopCall : chCall'[d] \in Renames => chCall'[d].slug[2] = 0
    BY TurnMeans DEF Numbered
<1>4. \A x \in channels' : x.slug[2] <= CallsOver'
  <2>1. \A y \in channels : y.slug[2] <= CallsOver /\ y.slug[2] \in Nat
    BY DEF Numbered, ShopTyped, Shop
  <2>. QED BY <1>1, <2>1
<1>. QED BY <1>2, <1>3, <1>4 DEF Numbered

LEMMA LatestKept ==
    ASSUME LatestOne, ShopPlaced, ShopTyped, NEW c \in ShopCall, NEW r, Turn(c, r),
           chCall[c].at # "latest", releases' = releases
    PROVE  LatestOne' /\ \A x \in releases' : chCall'[x.id].at \in {"latest", "end"}
<1>1. \A x \in releases : x.id \in ShopCall /\ x.id # c /\ chCall'[x.id] = chCall[x.id]
    BY TurnMeans DEF ShopPlaced, ShopTyped, ReleaseRow, Turn
<1>. QED BY <1>1 DEF LatestOne, ShopPlaced

\* What the count of followers is made of.
FollowersIn(F, i) == {f \in Follower : <<f, i>> \in F}
LateIn(K, i, by) == {c \in ShopCall : K[c].at = "count" /\ K[c].id = i /\ K[c].by = by}
CountedIn(x, F, K) ==
    x.followers = Shops!Cardinality(FollowersIn(F, x.id)) - Shops!Cardinality(LateIn(K, x.id, 1))
                  + Shops!Cardinality(LateIn(K, x.id, -1))

LEMMA CountedMeans ==
    /\ Shops!FollowersCounted <=> \A x \in channels : CountedIn(x, follows, chCall)
    /\ Shops!FollowersCounted' <=> \A x \in channels' : CountedIn(x, follows', chCall')
<1>1. ASSUME NEW x, NEW late, late = {c \in ShopCall : chCall[c].at = "count" /\ chCall[c].id = x.id}
      PROVE  {c \in late : chCall[c].by = 1} = LateIn(chCall, x.id, 1)
             /\ {c \in late : chCall[c].by = -1} = LateIn(chCall, x.id, -1)
    BY <1>1 DEF LateIn
<1>2. ASSUME NEW x, NEW late, late = {c \in ShopCall : chCall'[c].at = "count" /\ chCall'[c].id = x.id}
      PROVE  {c \in late : chCall'[c].by = 1} = LateIn(chCall', x.id, 1)
             /\ {c \in late : chCall'[c].by = -1} = LateIn(chCall', x.id, -1)
    BY <1>2 DEF LateIn
<1>3. Shops!FollowersCounted <=> \A x \in channels : CountedIn(x, follows, chCall)
    BY <1>1 DEF Shops!FollowersCounted, CountedIn, FollowersIn
<1>4. Shops!FollowersCounted' <=> \A x \in channels' : CountedIn(x, follows', chCall')
    BY <1>2 DEF Shops!FollowersCounted, CountedIn, FollowersIn
<1>. QED BY <1>3, <1>4

LEMMA CountsFinite ==
    ASSUME ShopsAssumption, NEW F, NEW K, NEW i, NEW by
    PROVE  /\ Shops!IsFiniteSet(FollowersIn(F, i)) /\ Shops!Cardinality(FollowersIn(F, i)) \in Nat
           /\ Shops!IsFiniteSet(LateIn(K, i, by)) /\ Shops!Cardinality(LateIn(K, i, by)) \in Nat
<1>1. FollowersIn(F, i) \subseteq Follower /\ LateIn(K, i, by) \subseteq ShopCall
    BY DEF FollowersIn, LateIn
<1>. QED BY <1>1, ShopSubset, ShopNumber DEF ShopsAssumption

LEMMA LateSame ==
    ASSUME ShopTyped, NEW c \in ShopCall, NEW r, Turn(c, r), NEW i, NEW by,
           chCall[c].at # "count" \/ chCall[c].id # i \/ chCall[c].by # by,
           r.at # "count" \/ r.id # i \/ r.by # by
    PROVE  LateIn(chCall', i, by) = LateIn(chCall, i, by)
BY TurnMeans DEF LateIn

\* What calls that do not overlap see to.
LEMMA SerialKept ==
    ASSUME ShopTyped, SerialLimits, NEW c \in ShopCall, NEW r, Turn(c, r),
           ~chOverlapped' =>
             /\ ~chOverlapped
             /\ r.at \in Shops!Critical =>
                  (chCall[c].at \in Shops!Critical \/ \A d \in ShopCall : chCall[d].at \notin Shops!Critical)
             /\ \/ \A o \in Owner : Shops!Cardinality(OwnedIn(channels', o)) = Shops!Cardinality(OwnedIn(channels, o))
                \/ /\ chCall[c].at = "create" /\ r.at = "end"
                   /\ \A o \in Owner : Shops!Cardinality(OwnedIn(channels', o)) <= MaxChannels
             /\ r.at = "create" => Shops!Cardinality(OwnedIn(channels, r.owner)) < MaxChannels
             /\ \A x \in channels' : Shops!Cardinality(x.wallets) <= MaxWallets
             /\ r.at = "wallets" => Shops!Cardinality(r.wallets) <= MaxWallets
    PROVE  SerialLimits'
<1> SUFFICES ASSUME ~chOverlapped' PROVE SerialLimits'
    BY DEF SerialLimits
<1>1. ~chOverlapped
    OBVIOUS
<1>2. \A d, e \in ShopCall : chCall[d].at \in Shops!Critical /\ chCall[e].at \in Shops!Critical => d = e
    BY <1>1 DEF SerialLimits
<1>3. chCall'[c] = r /\ \A d \in ShopCall : d # c => chCall'[d] = chCall[d]
    BY TurnMeans
<1>4. ASSUME NEW d \in ShopCall, NEW e \in ShopCall, chCall'[d].at \in Shops!Critical, chCall'[e].at \in Shops!Critical
      PROVE  d = e
    BY <1>2, <1>3, <1>4
<1>5. \A o \in Owner : Shops!Cardinality(OwnedIn(channels', o)) <= MaxChannels
    BY <1>1 DEF SerialLimits
<1>6. ASSUME NEW d \in ShopCall, chCall'[d].at = "create"
      PROVE  Shops!Cardinality(OwnedIn(channels', chCall'[d].owner)) < MaxChannels
  <2>1. PICK o : o = chCall'[d].owner
    OBVIOUS
  <2>2. o \in Owner
    BY <1>6, <2>1, TurnMeans, ShopKinds DEF Creates
  <2>3. Shops!Cardinality(OwnedIn(channels, o)) < MaxChannels
    BY <1>1, <1>3, <1>6, <2>1 DEF SerialLimits
  <2>4. ~(chCall[c].at = "create" /\ r.at = "end")
    BY <1>2, <1>3, <1>6 DEF Shops!Critical
  <2>5. Shops!Cardinality(OwnedIn(channels', o)) = Shops!Cardinality(OwnedIn(channels, o))
    BY <2>2, <2>4
  <2>. QED BY <2>1, <2>3, <2>5
<1>7. \A d \in ShopCall : chCall'[d].at = "wallets" => Shops!Cardinality(chCall'[d].wallets) <= MaxWallets
    BY <1>1, <1>3 DEF SerialLimits
<1>. QED BY <1>4, <1>5, <1>6, <1>7 DEF SerialLimits

-----------------------------------------------------------------------------
\* A call that changes nothing but its place and what it has read.
LEMMA QuietKeeps ==
    ASSUME ShopsAssumption, ShopInv, NEW c \in ShopCall, NEW r, Turn(c, r), Shops!Reads,
           chCall[c].at \notin {"latest", "count"}, r.at \notin {"latest", "count"},
           r.at \in {"rename", "wallets"} => ThereIs(r.id),
           r \in Creates => r.slug[2] <= CallsOver + 1,
           r \in Renames => r.slug[2] = 0,
           chOverlapped' \in BOOLEAN,
           ~chOverlapped' =>
             /\ ~chOverlapped
             /\ r.at \in Shops!Critical =>
                   (chCall[c].at \in Shops!Critical \/ \A d \in ShopCall : chCall[d].at \notin Shops!Critical)
             /\ r.at = "create" => Shops!Cardinality(OwnedIn(channels, r.owner)) < MaxChannels
             /\ r.at = "wallets" => Shops!Cardinality(r.wallets) <= MaxWallets
    PROVE  ShopInv'
<1>1. channels' = channels /\ releases' = releases /\ follows' = follows
    BY DEF Shops!Reads
<1>2. ShopTyped' BY <1>1, TypedKept DEF ShopInv, ShopTyped, ThereIs
<1>3. LatestOne' /\ \A x \in releases' : chCall'[x.id].at \in {"latest", "end"}
    BY <1>1, LatestKept DEF ShopInv
<1>4. ShopPlaced' BY <1>1, <1>3, PlacedKept DEF ShopInv, ThereIs
<1>5. Numbered' BY <1>1, NumbersKept DEF ShopInv
<1>6. Shops!SlugsUnique' BY <1>1 DEF ShopInv, Shops!SlugsUnique
<1>7. Shops!FollowersCounted'
  <2>1. \A x \in channels : CountedIn(x, follows, chCall) BY CountedMeans DEF ShopInv
  <2>2. \A i, by : LateIn(chCall', i, by) = LateIn(chCall, i, by) BY LateSame DEF ShopInv
  <2>3. \A x \in channels' : CountedIn(x, follows', chCall') BY <1>1, <2>1, <2>2 DEF CountedIn
  <2>. QED BY <2>3, CountedMeans
<1>8. SerialLimits'
  <2>1. ~chOverlapped' => \A x \in channels' : Shops!Cardinality(x.wallets) <= MaxWallets
    BY <1>1 DEF ShopInv, SerialLimits
  <2>. QED BY <1>1, <2>1, SerialKept DEF ShopInv
<1>. QED BY <1>2, <1>3, <1>4, <1>5, <1>6, <1>7, <1>8 DEF ShopInv

\* A call that puts a channel and is over.
LEMMA PutShop ==
    ASSUME ShopTyped, NEW ch \in Shop, Shops!Put(ch)
    PROVE  /\ channels' \subseteq Shop /\ Shops!IsFiniteSet(channels')
           /\ \A x, y \in channels' : x.id = y.id => x = y
           /\ \A i : ThereIs(i) => ThereIn(channels', i)
           /\ \A x \in channels' : x = ch \/ (x \in channels /\ x.id # ch.id)
           /\ ch \in channels'
<1> DEFINE Others == {x \in channels : x.id # ch.id}
<1>1. channels' = Others \cup {ch} BY DEF Shops!Put
<1>2. Shops!IsFiniteSet(Others) BY ShopSubset DEF ShopTyped
<1>3. Shops!IsFiniteSet(Others \cup {ch}) BY <1>2, ShopAdd
<1>. QED BY <1>1, <1>3 DEF ShopTyped, ThereIs, ThereIn

LEMMA WriterKeeps ==
    ASSUME ShopsAssumption, ShopInv, NEW c \in ShopCall,
           chCall[c].at \in {"create", "rename", "wallets", "count"}, Turn(c, DoneCall),
           NEW ch \in Shop, Shops!Put(ch), UNCHANGED <<releases, follows, chOverlapped>>,
           ch.id = c \/ ThereIs(ch.id),
           \A x \in channels : x.slug = ch.slug => x.id = ch.id,
           ch.slug[2] <= CallsOver + 1,
           CountedIn(ch, follows, chCall'),
           \A x \in channels : x.id # ch.id => CountedIn(x, follows, chCall'),
           ~chOverlapped =>
             /\ Shops!Cardinality(ch.wallets) <= MaxWallets
             /\ \/ \A o \in Owner : Shops!Cardinality(OwnedIn(channels', o)) = Shops!Cardinality(OwnedIn(channels, o))
                \/ /\ chCall[c].at = "create"
                   /\ \A o \in Owner : Shops!Cardinality(OwnedIn(channels', o)) <= MaxChannels
    PROVE  ShopInv'
<1>1. releases' = releases /\ follows' = follows /\ chOverlapped' = chOverlapped
    OBVIOUS
<1>2. DoneCall.at = "end" BY DEF DoneCall
<1>3. DoneCall \notin Creates /\ DoneCall \notin Renames BY DEF DoneCall, Creates, Renames
<1>4. \A x \in channels' : x = ch \/ (x \in channels /\ x.id # ch.id)
    BY PutShop DEF ShopInv
<1>5. ShopTyped' BY <1>1, PutShop, TypedKept DEF ShopInv, ShopTyped
<1>6. LatestOne' /\ \A x \in releases' : chCall'[x.id].at \in {"latest", "end"}
    BY <1>1, LatestKept DEF ShopInv
<1>7. ShopPlaced'
  <2>1. \A i : ThereIs(i) => ThereIn(channels', i) BY PutShop DEF ShopInv
  <2>2. \A x \in channels' : (x.id = c /\ DoneCall.at = "end") \/ \E y \in channels : y.id = x.id
    BY <1>2, <1>4 DEF ThereIs, ThereIn
  <2>. QED BY <1>2, <1>6, <2>1, <2>2, PlacedKept DEF ShopInv
<1>8. Numbered'
  <2>1. CallsOver \in Nat /\ CallsOver' = CallsOver + 1 BY <1>2, OverGrows DEF ShopInv
  <2>2. \A x \in channels' : x.slug[2] <= CallsOver' \/ \E y \in channels : x.slug = y.slug
    BY <1>4, <2>1
  <2>. QED BY <1>3, <2>2, NumbersKept DEF ShopInv
<1>9. Shops!SlugsUnique'
  <2>1. \A x, y \in channels : x.slug = y.slug => x = y BY DEF ShopInv, Shops!SlugsUnique
  <2>2. \A x, y \in channels' : x.slug = y.slug => x = y BY <1>4, <2>1
  <2>. QED BY <2>2 DEF Shops!SlugsUnique
<1>10. Shops!FollowersCounted'
  <2>1. \A x \in channels' : CountedIn(x, follows, chCall') BY <1>4
  <2>. QED BY <1>1, <2>1, CountedMeans
<1>11. SerialLimits'
  <2>1. ~chOverlapped => \A x \in channels' : Shops!Cardinality(x.wallets) <= MaxWallets
    BY <1>4 DEF ShopInv, SerialLimits
  <2>2. DoneCall.at \notin Shops!Critical /\ DoneCall.at # "create" /\ DoneCall.at # "wallets"
    BY <1>2 DEF Shops!Critical
  <2>. QED BY <1>1, <1>2, <2>1, <2>2, SerialKept DEF ShopInv
<1>. QED BY <1>5, <1>6, <1>7, <1>8, <1>9, <1>10, <1>11 DEF ShopInv

\* A channel put back under its owner leaves every owner as many.
LEMMA OwnersSame ==
    ASSUME ShopTyped, NEW ch \in Shop, Shops!Put(ch), NEW old \in channels, old.id = ch.id,
           old.owner = ch.owner, NEW o \in Owner
    PROVE  Shops!Cardinality(OwnedIn(channels', o)) = Shops!Cardinality(OwnedIn(channels, o))
<1>1. Shops!IsFiniteSet(OwnedIn(channels, o))
    BY ShopSubset DEF OwnedIn, ShopTyped
<1>2. CASE o # ch.owner
  <2>1. OwnedIn(channels', o) = OwnedIn(channels, o)
    BY <1>2 DEF OwnedIn, Shops!Put, ShopTyped
  <2>. QED BY <2>1
<1>3. CASE o = ch.owner
  <2>1. PICK rest : rest = OwnedIn(channels, o) \ {old}
    OBVIOUS
  <2>2. OwnedIn(channels', o) = rest \cup {ch} /\ ch \notin rest /\ old \in OwnedIn(channels, o)
    BY <1>3, <2>1 DEF OwnedIn, Shops!Put, ShopTyped
  <2>3. Shops!IsFiniteSet(rest) /\ Shops!Cardinality(rest) = Shops!Cardinality(OwnedIn(channels, o)) - 1
    BY <1>1, <2>1, <2>2, ShopRemove
  <2>4. Shops!Cardinality(rest \cup {ch}) = Shops!Cardinality(rest) + 1
    BY <2>2, <2>3, ShopAdd
  <2>5. Shops!Cardinality(OwnedIn(channels, o)) \in Nat
    BY <1>1, ShopNumber
  <2>. QED BY <2>2, <2>3, <2>4, <2>5
<1>. QED BY <1>2, <1>3

LEMMA StoreOk ==
    ASSUME ShopsAssumption, ShopInv, NEW c \in ShopCall, Shops!Store(c)
    PROVE  ShopInv'
<1> DEFINE ch == [id |-> c, owner |-> chCall[c].owner, slug |-> chCall[c].slug, wallets |-> {},
                  followers |-> 0]
<1>1. chCall[c].at = "create" /\ chCall[c] \in Creates
    BY ShopKinds DEF Shops!Store, ShopInv, ShopTyped
<1>2. Turn(c, DoneCall) BY <1>1 DEF Shops!Store, Shops!Ends, Shops!Goes, Turn, DoneCall, ShopRec
<1>3. CASE Shops!Taken(chCall[c].slug, c)
  <2>1. Shops!Reads /\ chOverlapped' = chOverlapped BY <1>3 DEF Shops!Store, Shops!Reads
  <2>2. DoneCall.at = "end" /\ DoneCall \notin Creates /\ DoneCall \notin Renames
    BY DEF DoneCall, Creates, Renames
  <2>. QED BY <1>1, <1>2, <2>1, <2>2, QuietKeeps DEF ShopInv, ShopTyped, Shops!Critical
<1>4. CASE ~Shops!Taken(chCall[c].slug, c)
  <2>1. Shops!Put(ch) /\ UNCHANGED <<releases, follows, chOverlapped>> BY <1>4 DEF Shops!Store
  <2>2. ch \in Shop BY <1>1 DEF Shop, ShopIds, Creates
  <2>3. ch.id = c /\ ch.owner = chCall[c].owner /\ ch.slug = chCall[c].slug /\ ch.wallets = {}
        /\ ch.followers = 0
    OBVIOUS
  <2>. HIDE DEF ch
  <2>4. ~ThereIs(c)
    BY <1>1 DEF ShopInv, ShopPlaced, ThereIs, ThereIn
  <2>5. \A x \in channels : x.slug = ch.slug => x.id = ch.id
    BY <1>4, <2>3 DEF Shops!Taken
  <2>6. ch.slug[2] <= CallsOver + 1 BY <1>1, <2>3 DEF ShopInv, Numbered
  <2>7. \A i, by : LateIn(chCall', i, by) = LateIn(chCall, i, by)
    BY <1>1, <1>2, LateSame DEF DoneCall, ShopInv
  <2>8. CountedIn(ch, follows, chCall')
    <3>1. LateIn(chCall', c, 1) = {} /\ LateIn(chCall', c, -1) = {}
      BY <2>4, <2>7 DEF LateIn, ShopInv, ShopPlaced
    <3>2. FollowersIn(follows, c) = {}
      BY <2>4 DEF FollowersIn, ShopInv, ShopTyped
    <3>3. Shops!Cardinality({}) = 0
      BY ShopEmpty
    <3>. QED BY <2>3, <3>1, <3>2, <3>3 DEF CountedIn
  <2>9. \A x \in channels : CountedIn(x, follows, chCall')
    <3>1. \A x \in channels : CountedIn(x, follows, chCall) BY CountedMeans DEF ShopInv
    <3>. QED BY <2>7, <3>1 DEF CountedIn
  <2>10. ASSUME ~chOverlapped, NEW o \in Owner PROVE Shops!Cardinality(OwnedIn(channels', o)) <= MaxChannels
    <3>1. Shops!IsFiniteSet(OwnedIn(channels, o))
      BY ShopSubset DEF OwnedIn, ShopInv, ShopTyped
    <3>2. Shops!Cardinality(OwnedIn(channels, o)) \in Nat
      BY <3>1, ShopNumber
    <3>3. CASE o # ch.owner
      <4>1. OwnedIn(channels', o) = OwnedIn(channels, o)
        BY <2>1, <2>3, <2>4, <3>3 DEF OwnedIn, Shops!Put, ThereIs, ThereIn
      <4>. QED BY <2>10, <4>1 DEF ShopInv, SerialLimits
    <3>4. CASE o = ch.owner
      <4>1. OwnedIn(channels', o) = OwnedIn(channels, o) \cup {ch} /\ ch \notin OwnedIn(channels, o)
        BY <2>1, <2>3, <2>4, <3>4 DEF OwnedIn, Shops!Put, ThereIs, ThereIn
      <4>2. Shops!Cardinality(OwnedIn(channels, o) \cup {ch}) = Shops!Cardinality(OwnedIn(channels, o)) + 1
        BY <3>1, <4>1, ShopAdd
      <4>3. Shops!Cardinality(OwnedIn(channels, o)) < MaxChannels
        BY <1>1, <2>3, <2>10, <3>4 DEF ShopInv, SerialLimits
      <4>. QED BY <3>2, <4>1, <4>2, <4>3 DEF ShopsAssumption
    <3>. QED BY <3>3, <3>4
  <2>11. Shops!Cardinality(ch.wallets) <= MaxWallets
    <3>1. Shops!Cardinality({}) = 0
      BY ShopEmpty
    <3>. QED BY <2>3, <3>1 DEF ShopsAssumption
  <2>. QED BY <1>1, <1>2, <2>1, <2>2, <2>3, <2>5, <2>6, <2>8, <2>9, <2>10, <2>11, WriterKeeps
<1>. QED BY <1>3, <1>4

LEMMA RenameOk ==
    ASSUME ShopsAssumption, ShopInv, NEW c \in ShopCall, Shops!Rename(c)
    PROVE  ShopInv'
<1> DEFINE old == Shops!Here(chCall[c].id)
           ch == [old EXCEPT !.slug = chCall[c].slug]
<1>1. chCall[c].at = "rename" /\ chCall[c] \in Renames
    BY ShopKinds DEF Shops!Rename, ShopInv, ShopTyped
<1>2. Turn(c, DoneCall)
  BY <1>1 DEF Shops!Rename, Shops!Ends, Shops!Goes, Turn, DoneCall, ShopRec
<1>3. CASE Shops!Taken(chCall[c].slug, chCall[c].id)
  <2>1. Shops!Reads /\ chOverlapped' = chOverlapped BY <1>3 DEF Shops!Rename, Shops!Reads
  <2>2. DoneCall.at = "end" /\ DoneCall \notin Creates /\ DoneCall \notin Renames
    BY DEF DoneCall, Creates, Renames
  <2>. QED BY <1>1, <1>2, <2>1, <2>2, QuietKeeps DEF ShopInv, ShopTyped, Shops!Critical
<1>4. CASE ~Shops!Taken(chCall[c].slug, chCall[c].id)
  <2>1. Shops!Put(ch) /\ UNCHANGED <<releases, follows, chOverlapped>> BY <1>4 DEF Shops!Rename
  <2>2. old \in channels /\ old.id = chCall[c].id /\ old \in Shop
    BY <1>1, HereIs DEF ShopInv, ShopPlaced, ShopTyped
  <2>3. ch.id = old.id /\ ch.owner = old.owner /\ ch.slug = chCall[c].slug
        /\ ch.wallets = old.wallets /\ ch.followers = old.followers /\ ch \in Shop
    BY <1>1, <2>2 DEF Shop, Renames
  <2>. HIDE DEF ch, old
  <2>4. ThereIs(ch.id) BY <2>2, <2>3 DEF ThereIs, ThereIn
  <2>5. \A x \in channels : x.slug = ch.slug => x.id = ch.id
    BY <1>4, <2>2, <2>3 DEF Shops!Taken
  <2>6. ch.slug[2] <= CallsOver + 1
    <3>1. CallsOver \in Nat /\ ch.slug[2] = 0
      BY <1>1, <1>2, <2>3, OverGrows DEF ShopInv, Numbered
    <3>. QED BY <3>1
  <2>7. \A i, by : LateIn(chCall', i, by) = LateIn(chCall, i, by)
    BY <1>1, <1>2, LateSame DEF DoneCall, ShopInv
  <2>8. \A x \in channels : CountedIn(x, follows, chCall')
    <3>1. \A x \in channels : CountedIn(x, follows, chCall) BY CountedMeans DEF ShopInv
    <3>. QED BY <2>7, <3>1 DEF CountedIn
  <2>9. CountedIn(ch, follows, chCall') BY <2>2, <2>3, <2>8 DEF CountedIn
  <2>10. \A o \in Owner : Shops!Cardinality(OwnedIn(channels', o)) = Shops!Cardinality(OwnedIn(channels, o))
    BY <2>1, <2>2, <2>3, OwnersSame DEF ShopInv
  <2>11. ~chOverlapped => Shops!Cardinality(ch.wallets) <= MaxWallets
    BY <2>2, <2>3 DEF ShopInv, SerialLimits
  <2>. QED BY <1>1, <1>2, <2>1, <2>3, <2>4, <2>5, <2>6, <2>8, <2>9, <2>10, <2>11, WriterKeeps
<1>. QED BY <1>3, <1>4

LEMMA SaveWalletsOk ==
    ASSUME ShopsAssumption, ShopInv, NEW c \in ShopCall, Shops!SaveWallets(c)
    PROVE  ShopInv'
<1> DEFINE old == Shops!Here(chCall[c].id)
           ch == [old EXCEPT !.wallets = chCall[c].wallets]
<1>1. chCall[c].at = "wallets" /\ chCall[c] \in Wallets
    BY ShopKinds DEF Shops!SaveWallets, ShopInv, ShopTyped
<1>2. Turn(c, DoneCall)
  BY <1>1 DEF Shops!SaveWallets, Shops!Ends, Shops!Goes, Turn, DoneCall, ShopRec
<1>3. Shops!Put(ch) /\ UNCHANGED <<releases, follows, chOverlapped>> BY DEF Shops!SaveWallets
<1>4. old \in channels /\ old.id = chCall[c].id /\ old \in Shop
    BY <1>1, HereIs DEF ShopInv, ShopPlaced, ShopTyped
<1>5. ch.id = old.id /\ ch.owner = old.owner /\ ch.slug = old.slug
      /\ ch.wallets = chCall[c].wallets /\ ch.followers = old.followers /\ ch \in Shop
    BY <1>1, <1>4 DEF Shop, Wallets
<1>. HIDE DEF ch, old
<1>6. ThereIs(ch.id) BY <1>4, <1>5 DEF ThereIs, ThereIn
<1>7. \A x \in channels : x.slug = ch.slug => x.id = ch.id
    BY <1>4, <1>5 DEF ShopInv, Shops!SlugsUnique
<1>8. ch.slug[2] <= CallsOver + 1
  <2>1. CallsOver \in Nat /\ ch.slug[2] <= CallsOver /\ ch.slug[2] \in Nat
    BY <1>2, <1>4, <1>5, OverGrows DEF ShopInv, Numbered, Shop
  <2>. QED BY <2>1
<1>9. \A i, by : LateIn(chCall', i, by) = LateIn(chCall, i, by)
    BY <1>1, <1>2, LateSame DEF DoneCall, ShopInv
<1>10. \A x \in channels : CountedIn(x, follows, chCall')
  <2>1. \A x \in channels : CountedIn(x, follows, chCall) BY CountedMeans DEF ShopInv
  <2>. QED BY <1>9, <2>1 DEF CountedIn
<1>11. CountedIn(ch, follows, chCall') BY <1>4, <1>5, <1>10 DEF CountedIn
<1>12. \A o \in Owner : Shops!Cardinality(OwnedIn(channels', o)) = Shops!Cardinality(OwnedIn(channels, o))
    BY <1>3, <1>4, <1>5, OwnersSame DEF ShopInv
<1>13. ~chOverlapped => Shops!Cardinality(ch.wallets) <= MaxWallets
    BY <1>1, <1>5 DEF ShopInv, SerialLimits
<1>. QED BY <1>1, <1>2, <1>3, <1>5, <1>6, <1>7, <1>8, <1>10, <1>11, <1>12, <1>13, WriterKeeps

LEMMA CountOk ==
    ASSUME ShopsAssumption, ShopInv, NEW c \in ShopCall, Shops!Count(c)
    PROVE  ShopInv'
<1> DEFINE old == Shops!Here(chCall[c].id)
           ch == [old EXCEPT !.followers = @ + chCall[c].by]
<1>1. chCall[c].at = "count" /\ chCall[c] \in Counts
    BY ShopKinds DEF Shops!Count, ShopInv, ShopTyped
<1>2. Turn(c, DoneCall) BY <1>1 DEF Shops!Count, Shops!Ends, Shops!Goes, Turn, DoneCall, ShopRec
<1>3. Shops!Put(ch) /\ UNCHANGED <<releases, follows, chOverlapped>> BY DEF Shops!Count
<1>4. old \in channels /\ old.id = chCall[c].id /\ old \in Shop
    BY <1>1, HereIs DEF ShopInv, ShopPlaced, ShopTyped
<1>5. /\ ch.id = old.id /\ ch.owner = old.owner /\ ch.slug = old.slug
      /\ ch.wallets = old.wallets /\ ch.followers = old.followers + chCall[c].by /\ ch \in Shop
    BY <1>1, <1>4 DEF Shop, Counts
<1>. HIDE DEF ch, old
<1>6. ThereIs(ch.id) BY <1>4, <1>5 DEF ThereIs, ThereIn
<1>7. \A x \in channels : x.slug = ch.slug => x.id = ch.id
    BY <1>4, <1>5 DEF ShopInv, Shops!SlugsUnique
<1>8. ch.slug[2] <= CallsOver + 1
  <2>1. CallsOver \in Nat /\ ch.slug[2] <= CallsOver /\ ch.slug[2] \in Nat
    BY <1>2, <1>4, <1>5, OverGrows DEF ShopInv, Numbered, Shop
  <2>. QED BY <2>1
<1>9. \A x \in channels : CountedIn(x, follows, chCall)
    BY CountedMeans DEF ShopInv
<1>10. ASSUME NEW x \in channels, x.id # ch.id PROVE CountedIn(x, follows, chCall')
  <2>1. \A by : LateIn(chCall', x.id, by) = LateIn(chCall, x.id, by)
    BY <1>2, <1>4, <1>5, <1>10, LateSame DEF DoneCall, ShopInv
  <2>. QED BY <1>9, <2>1 DEF CountedIn
<1>11. CountedIn(ch, follows, chCall')
  <2>1. PICK i, by, other : i = ch.id /\ by = chCall[c].by /\ other = IF by = 1 THEN -1 ELSE 1
    OBVIOUS
  <2>2. (by = 1 /\ other = -1) \/ (by = -1 /\ other = 1)
    BY <1>1, <2>1 DEF Counts
  <2>3. LateIn(chCall', i, other) = LateIn(chCall, i, other)
    BY <1>2, <2>1, <2>2, LateSame DEF DoneCall, ShopInv
  <2>4. LateIn(chCall', i, by) = LateIn(chCall, i, by) \ {c} /\ c \in LateIn(chCall, i, by)
    BY <1>1, <1>2, <1>4, <1>5, <2>1, TurnMeans DEF LateIn, DoneCall, ShopInv
  <2>5. /\ Shops!IsFiniteSet(LateIn(chCall, i, by)) /\ Shops!Cardinality(LateIn(chCall, i, by)) \in Nat
        /\ Shops!Cardinality(LateIn(chCall, i, other)) \in Nat
    BY CountsFinite
  <2>6. Shops!Cardinality(LateIn(chCall', i, by)) = Shops!Cardinality(LateIn(chCall, i, by)) - 1
    BY <2>4, <2>5, ShopRemove
  <2>7. CountedIn(old, follows, chCall) /\ Shops!Cardinality(FollowersIn(follows, i)) \in Nat
    BY <1>4, <1>9, CountsFinite
  <2>. QED BY <1>5, <2>1, <2>2, <2>3, <2>5, <2>6, <2>7, <1>4 DEF CountedIn
<1>12. \A o \in Owner : Shops!Cardinality(OwnedIn(channels', o)) = Shops!Cardinality(OwnedIn(channels, o))
    BY <1>3, <1>4, <1>5, OwnersSame DEF ShopInv
<1>13. ~chOverlapped => Shops!Cardinality(ch.wallets) <= MaxWallets
    BY <1>4, <1>5 DEF ShopInv, SerialLimits
<1>. QED BY <1>1, <1>2, <1>3, <1>5, <1>6, <1>7, <1>8, <1>10, <1>11, <1>12, <1>13, WriterKeeps

-----------------------------------------------------------------------------
\* Looking for a slug and counting the owner's channels change nothing but the call.
LEMMA LookForSlugOk ==
    ASSUME ShopsAssumption, ShopInv, NEW c \in ShopCall, Shops!LookForSlug(c)
    PROVE  ShopInv'
<1>1. chCall[c].at = "slug" /\ chCall[c] \in Creates /\ Shops!Reads /\ chOverlapped' = chOverlapped
    BY ShopKinds DEF Shops!LookForSlug, Shops!Keeps, ShopInv, ShopTyped
<1>2. PICK t \in Title, n \in Nat, o \in Owner :
        chCall[c] = [at |-> "slug", owner |-> o, slug |-> <<t, n>>]
    BY <1>1 DEF Creates
<1>3. CallsOver \in Nat /\ n <= CallsOver + 1
  <2>1. CallsOver \in Nat
    BY ShopSubset, ShopNumber DEF CallsOver, ShopsAssumption
  <2>. QED BY <1>1, <1>2, <2>1 DEF ShopInv, Numbered
<1>4. CASE Shops!Taken(chCall[c].slug, c)
  <2>1. PICK r : r = [at |-> "slug", owner |-> o, slug |-> <<t, n + 1>>]
    OBVIOUS
  <2>2. r \in Creates /\ r.at = "slug" /\ r.slug[2] = n + 1
    BY <2>1 DEF Creates
  <2>3. chCall' = [chCall EXCEPT ![c] = r]
    <3>1. [chCall[c] EXCEPT !.slug[2] = @ + 1] = r BY <1>2, <2>1
    <3>. QED BY <1>4, <3>1 DEF Shops!LookForSlug, Shops!Goes
  <2>4. Turn(c, r) BY <1>1, <2>2, <2>3 DEF Turn, ShopRec
  <2>5. n <= CallsOver
    <3>1. PICK x \in channels : x.slug = <<t, n>> BY <1>2, <1>4 DEF Shops!Taken
    <3>. QED BY <3>1 DEF ShopInv, Numbered
  <2>6. r \notin Renames BY <2>2 DEF Renames
  <2>. QED BY <1>1, <1>3, <2>2, <2>4, <2>5, <2>6, QuietKeeps DEF ShopInv, ShopTyped,
              Shops!Critical
<1>5. CASE ~Shops!Taken(chCall[c].slug, c)
  <2>1. PICK r : r = [at |-> "owner", owner |-> o, slug |-> <<t, n>>]
    OBVIOUS
  <2>2. r \in Creates /\ r.at = "owner" /\ r.slug[2] = n
    BY <2>1 DEF Creates
  <2>3. chCall' = [chCall EXCEPT ![c] = r]
    <3>1. [chCall[c] EXCEPT !.at = "owner"] = r BY <1>2, <2>1
    <3>. QED BY <1>5, <3>1 DEF Shops!LookForSlug, Shops!Goes
  <2>4. Turn(c, r) BY <1>1, <2>2, <2>3 DEF Turn, ShopRec
  <2>5. r \notin Renames BY <2>2 DEF Renames
  <2>. QED BY <1>1, <1>3, <2>2, <2>4, <2>5, QuietKeeps DEF ShopInv, ShopTyped, Shops!Critical
<1>. QED BY <1>4, <1>5

LEMMA CountOwnedOk ==
    ASSUME ShopsAssumption, ShopInv, NEW c \in ShopCall, Shops!CountOwned(c)
    PROVE  ShopInv'
<1>1. chCall[c].at = "owner" /\ chCall[c] \in Creates /\ Shops!Reads /\ chOverlapped' = chOverlapped
    BY ShopKinds DEF Shops!CountOwned, Shops!Keeps, ShopInv, ShopTyped
<1>2. CASE Shops!Cardinality(OwnedIn(channels, chCall[c].owner)) >= MaxChannels
  <2>1. Turn(c, DoneCall)
    BY <1>1, <1>2 DEF Shops!CountOwned, Shops!Ends, Shops!Goes, Turn, DoneCall, ShopRec, OwnedIn
  <2>2. DoneCall.at = "end" /\ DoneCall \notin Creates /\ DoneCall \notin Renames
    BY DEF DoneCall, Creates, Renames
  <2>. QED BY <1>1, <2>1, <2>2, QuietKeeps DEF ShopInv, ShopTyped, Shops!Critical
<1>3. CASE ~(Shops!Cardinality(OwnedIn(channels, chCall[c].owner)) >= MaxChannels)
  <2>1. PICK r : r = [chCall[c] EXCEPT !.at = "create"]
    OBVIOUS
  <2>2. r \in Creates /\ r.at = "create" /\ r.slug = chCall[c].slug /\ r.owner = chCall[c].owner
    BY <1>1, <2>1 DEF Creates
  <2>3. Turn(c, r)
    BY <1>1, <1>3, <2>1, <2>2 DEF Shops!CountOwned, Shops!Goes, Turn, ShopRec, OwnedIn
  <2>4. r \notin Renames BY <2>2 DEF Renames
  <2>5. r.slug[2] <= CallsOver + 1 BY <1>1, <2>2 DEF ShopInv, Numbered
  <2>6. Shops!Cardinality(OwnedIn(channels, r.owner)) \in Nat
    <3>1. Shops!IsFiniteSet(OwnedIn(channels, r.owner))
      BY ShopSubset DEF OwnedIn, ShopInv, ShopTyped
    <3>. QED BY <3>1, ShopNumber
  <2>7. Shops!Cardinality(OwnedIn(channels, r.owner)) < MaxChannels
    BY <1>3, <2>2, <2>6 DEF ShopsAssumption
  <2>. QED BY <1>1, <2>2, <2>3, <2>4, <2>5, <2>7, QuietKeeps DEF ShopInv, ShopTyped,
              Shops!Critical
<1>. QED BY <1>2, <1>3

\* What starts with a read.
LEMMA StartsKeep ==
    ASSUME ShopsAssumption, ShopInv, NEW c \in ShopCall, NEW r \in ShopRec, Shops!Starts(c, r),
           r.at \in {"slug", "rename", "wallets"},
           r.at \in {"rename", "wallets"} => ThereIs(r.id),
           r.at \in {"slug", "rename"} => r.slug[2] = 0,
           r.at = "wallets" => Shops!Cardinality(r.wallets) <= MaxWallets \/ chOverlapped
    PROVE  ShopInv'
<1>1. chCall[c].at = "new" /\ Turn(c, r) /\ Shops!Reads BY DEF Shops!Starts, Shops!Goes, Turn
<1>2. r \in Creates => r.at = "slug" /\ r.slug[2] <= CallsOver + 1
  <2>1. CallsOver \in Nat
    BY ShopSubset, ShopNumber DEF CallsOver, ShopsAssumption
  <2>. QED BY <2>1 DEF Creates
<1>3. r \in Renames => r.slug[2] = 0 BY DEF Renames
<1>4. chOverlapped' = (chOverlapped \/ (r.at \in Shops!Critical /\ \E d \in ShopCall : chCall[d].at \in Shops!Critical))
    BY DEF Shops!Starts
<1>5. chOverlapped' \in BOOLEAN BY <1>4 DEF ShopInv, ShopTyped
<1>. QED BY <1>1, <1>2, <1>3, <1>4, <1>5, QuietKeeps

LEMMA CreateOk ==
    ASSUME ShopsAssumption, ShopInv, NEW c \in ShopCall, NEW o \in Owner, NEW t \in Title, Shops!Create(c, o, t)
    PROVE  ShopInv'
<1>1. PICK r : r = [at |-> "slug", owner |-> o, slug |-> <<t, 0>>]
    OBVIOUS
<1>2. r \in ShopRec /\ r.at = "slug" /\ r.slug[2] = 0 BY <1>1 DEF ShopRec, Creates
<1>. QED BY <1>1, <1>2, StartsKeep DEF Shops!Create

LEMMA UpdateOk ==
    ASSUME ShopsAssumption, ShopInv, NEW c \in ShopCall, NEW ch \in channels, NEW t \in Title,
           Shops!Update(c, ch.id, t)
    PROVE  ShopInv'
<1>1. PICK r : r = [at |-> "rename", id |-> ch.id, slug |-> <<t, 0>>]
    OBVIOUS
<1>2. ThereIs(ch.id) /\ ch.id \in ShopIds BY DEF ThereIs, ThereIn, ShopInv, ShopTyped, Shop
<1>3. r \in ShopRec /\ r.at = "rename" /\ r.slug[2] = 0 /\ r.id = ch.id
    BY <1>1, <1>2 DEF ShopRec, Renames
<1>. QED BY <1>1, <1>2, <1>3, StartsKeep DEF Shops!Update

LEMMA AddWalletOk ==
    ASSUME ShopsAssumption, ShopInv, NEW c \in ShopCall, NEW ch \in channels, NEW a \in Address,
           Shops!AddWallet(c, ch.id, a)
    PROVE  ShopInv'
<1>1. ThereIs(ch.id) /\ ch.id \in ShopIds BY DEF ThereIs, ThereIn, ShopInv, ShopTyped, Shop
<1>2. Shops!Here(ch.id) \in channels BY <1>1, HereIs
<1>3. PICK W : W = Shops!Here(ch.id).wallets
    OBVIOUS
<1>4. W \subseteq Address /\ a \notin W /\ Shops!Cardinality(W) < MaxWallets
    BY <1>2, <1>3 DEF ShopInv, ShopTyped, Shop, Shops!AddWallet
<1>5. Shops!Cardinality(W \cup {a}) <= MaxWallets
  <2>1. Shops!IsFiniteSet(W) BY <1>4, ShopSubset DEF ShopsAssumption
  <2>2. Shops!Cardinality(W \cup {a}) = Shops!Cardinality(W) + 1 /\ Shops!Cardinality(W) \in Nat
    BY <1>4, <2>1, ShopAdd, ShopNumber
  <2>. QED BY <1>4, <2>2 DEF ShopsAssumption
<1>6. PICK r : r = [at |-> "wallets", id |-> ch.id, wallets |-> W \cup {a}]
    OBVIOUS
<1>7. r \in ShopRec /\ r.at = "wallets" /\ r.id = ch.id /\ r.wallets = W \cup {a}
    BY <1>1, <1>4, <1>6 DEF ShopRec, Wallets
<1>8. Shops!Starts(c, r) BY <1>3, <1>6 DEF Shops!AddWallet
<1>. QED BY <1>1, <1>5, <1>7, <1>8, StartsKeep

LEMMA RemoveWalletOk ==
    ASSUME ShopsAssumption, ShopInv, NEW c \in ShopCall, NEW ch \in channels, NEW a \in Address,
           Shops!RemoveWallet(c, ch.id, a)
    PROVE  ShopInv'
<1>1. ThereIs(ch.id) /\ ch.id \in ShopIds BY DEF ThereIs, ThereIn, ShopInv, ShopTyped, Shop
<1>2. Shops!Here(ch.id) \in channels BY <1>1, HereIs
<1>3. PICK W : W = Shops!Here(ch.id).wallets
    OBVIOUS
<1>4. W \subseteq Address /\ (~chOverlapped => Shops!Cardinality(W) <= MaxWallets)
    BY <1>2, <1>3 DEF ShopInv, ShopTyped, Shop, SerialLimits
<1>5. ~chOverlapped => Shops!Cardinality(W \ {a}) <= MaxWallets
  <2>1. Shops!IsFiniteSet(W) BY <1>4, ShopSubset DEF ShopsAssumption
  <2>2. Shops!Cardinality(W \ {a}) <= Shops!Cardinality(W) /\ Shops!IsFiniteSet(W \ {a})
    BY <2>1, ShopSubset
  <2>3. Shops!Cardinality(W) \in Nat /\ Shops!Cardinality(W \ {a}) \in Nat
    BY <2>1, <2>2, ShopNumber
  <2>. QED BY <1>4, <2>2, <2>3 DEF ShopsAssumption
<1>6. PICK r : r = [at |-> "wallets", id |-> ch.id, wallets |-> W \ {a}]
    OBVIOUS
<1>7. r \in ShopRec /\ r.at = "wallets" /\ r.id = ch.id /\ r.wallets = W \ {a}
    BY <1>1, <1>4, <1>6 DEF ShopRec, Wallets
<1>8. Shops!Starts(c, r) BY <1>3, <1>6 DEF Shops!RemoveWallet
<1>. QED BY <1>1, <1>5, <1>7, <1>8, StartsKeep

-----------------------------------------------------------------------------
\* A call about the releases.
LEMMA ReleaseKeeps ==
    ASSUME ShopsAssumption, ShopInv, NEW c \in ShopCall, NEW r \in {LatestCall, DoneCall}, Turn(c, r),
           chCall[c].at \in {"new", "latest"}, UNCHANGED <<channels, follows, chOverlapped>>,
           releases' \subseteq ReleaseRow, \A x, y \in releases' : x.id = y.id => x = y,
           LatestOne', \A x \in releases' : chCall'[x.id].at \in {"latest", "end"}
    PROVE  ShopInv'
<1>1. channels' = channels /\ follows' = follows /\ chOverlapped' = chOverlapped
    OBVIOUS
<1>2. r.at \in {"latest", "end"} /\ r \notin Creates /\ r \notin Renames
    BY DEF LatestCall, DoneCall, Creates, Renames
<1>3. ShopTyped' BY <1>1, TypedKept DEF ShopInv, ShopTyped, ThereIs
<1>4. ShopPlaced' BY <1>1, <1>2, PlacedKept DEF ShopInv, ThereIs
<1>5. Numbered' BY <1>1, <1>2, NumbersKept DEF ShopInv
<1>6. Shops!SlugsUnique' BY <1>1 DEF ShopInv, Shops!SlugsUnique
<1>7. Shops!FollowersCounted'
  <2>1. \A x \in channels : CountedIn(x, follows, chCall) BY CountedMeans DEF ShopInv
  <2>2. \A i, by : LateIn(chCall', i, by) = LateIn(chCall, i, by) BY <1>2, LateSame DEF ShopInv
  <2>3. \A x \in channels' : CountedIn(x, follows', chCall') BY <1>1, <2>1, <2>2 DEF CountedIn
  <2>. QED BY <2>3, CountedMeans
<1>8. SerialLimits'
  <2>1. ~chOverlapped' => \A x \in channels' : Shops!Cardinality(x.wallets) <= MaxWallets
    BY <1>1 DEF ShopInv, SerialLimits
  <2>2. r.at \notin Shops!Critical /\ r.at # "create" /\ r.at # "wallets"
    BY <1>2 DEF Shops!Critical
  <2>. QED BY <1>1, <2>1, <2>2, SerialKept DEF ShopInv
<1>. QED BY <1>3, <1>4, <1>5, <1>6, <1>7, <1>8 DEF ShopInv

LEMMA PublishOk ==
    ASSUME ShopsAssumption, ShopInv, NEW c \in ShopCall, NEW v \in Version, Shops!Publish(c, v)
    PROVE  ShopInv'
<1>1. chCall[c].at = "new" /\ chOverlapped' = chOverlapped BY DEF Shops!Publish, Shops!Keeps
<1>2. CASE \E x \in releases : x.version = v
  <2>1. Turn(c, DoneCall) /\ Shops!Reads
    BY <1>1, <1>2 DEF Shops!Publish, Shops!Ends, Shops!Goes, Turn, DoneCall, ShopRec
  <2>2. DoneCall.at = "end" /\ DoneCall \notin Creates /\ DoneCall \notin Renames
    BY DEF DoneCall, Creates, Renames
  <2>. QED BY <1>1, <2>1, <2>2, QuietKeeps DEF ShopInv, ShopTyped, Shops!Critical
<1>3. CASE ~\E x \in releases : x.version = v
  <2>1. PICK new : new = [id |-> c, version |-> v, latest |-> TRUE, deprecated |-> FALSE]
    OBVIOUS
  <2>2. new \in ReleaseRow /\ new.id = c BY <2>1 DEF ReleaseRow
  <2>3. releases' = releases \cup {new} /\ Turn(c, LatestCall) /\ UNCHANGED <<channels, follows>>
    BY <1>1, <1>3, <2>1 DEF Shops!Publish, Shops!Goes, Turn, LatestCall, ShopRec
  <2>4. \A x \in releases : x.id \in ShopCall /\ x.id # c /\ chCall'[x.id] = chCall[x.id]
    BY <1>1, <2>3, TurnMeans DEF ShopInv, ShopPlaced, ShopTyped, ReleaseRow
  <2>5. chCall'[c].at = "latest" BY <2>3, TurnMeans DEF ShopInv, LatestCall
  <2>6. \A x \in releases' : chCall'[x.id].at \in {"latest", "end"}
    BY <2>2, <2>3, <2>4, <2>5 DEF ShopInv, ShopPlaced
  <2>7. \A x, y \in releases' : x.id = y.id => x = y
    BY <2>2, <2>3, <2>4 DEF ShopInv, ShopTyped
  <2>8. LatestOne' BY <2>2, <2>3, <2>4, <2>5 DEF ShopInv, LatestOne
  <2>9. releases' \subseteq ReleaseRow BY <2>2, <2>3 DEF ShopInv, ShopTyped
  <2>. QED BY <1>1, <2>3, <2>6, <2>7, <2>8, <2>9, ReleaseKeeps
<1>. QED BY <1>2, <1>3

LEMMA SetLatestOk ==
    ASSUME ShopsAssumption, ShopInv, NEW c \in ShopCall, Shops!SetLatest(c)
    PROVE  ShopInv'
<1>1. /\ chCall[c].at = "latest" /\ Turn(c, DoneCall) /\ UNCHANGED <<channels, follows, chOverlapped>>
      /\ releases' = {[x EXCEPT !.latest = (x.id = c)] : x \in releases}
    BY DEF Shops!SetLatest, Shops!Ends, Shops!Goes, Turn, DoneCall, ShopRec
<1>2. releases \subseteq ReleaseRow BY DEF ShopInv, ShopTyped
<1>3. \A x \in releases :
        LET y == [x EXCEPT !.latest = (x.id = c)]
        IN  y \in ReleaseRow /\ y.id = x.id /\ (y.latest <=> x.id = c)
    BY <1>2 DEF ReleaseRow
<1>4. ASSUME NEW x \in releases' PROVE x \in ReleaseRow /\ (x.latest => x.id = c)
  <2>1. PICK z \in releases : x = [z EXCEPT !.latest = (z.id = c)] BY <1>1
  <2>2. x \in ReleaseRow BY <1>3, <2>1
  <2>3. x.id = z.id BY <1>3, <2>1
  <2>4. x.latest => z.id = c BY <1>3, <2>1
  <2>. QED BY <2>2, <2>3, <2>4
<1>5. ASSUME NEW x \in releases', NEW y \in releases', x.id = y.id PROVE x = y
  <2>1. PICK z \in releases : x = [z EXCEPT !.latest = (z.id = c)] BY <1>1
  <2>2. PICK w \in releases : y = [w EXCEPT !.latest = (w.id = c)] BY <1>1
  <2>3. z.id = w.id BY <1>3, <1>5, <2>1, <2>2
  <2>4. z = w BY <2>3 DEF ShopInv, ShopTyped
  <2>. QED BY <2>1, <2>2, <2>4
<1>6. LatestOne' BY <1>4, <1>5 DEF LatestOne
<1>7. \A x \in releases' : chCall'[x.id].at \in {"latest", "end"}
  <2>1. ASSUME NEW x \in releases' PROVE \E y \in releases : y.id = x.id
    <3>1. PICK z \in releases : x = [z EXCEPT !.latest = (z.id = c)] BY <1>1
    <3>2. z.id = x.id BY <1>3, <3>1
    <3>. QED BY <3>2
  <2>2. \A y \in releases : y.id \in ShopCall /\ chCall[y.id].at \in {"latest", "end"}
    BY <1>2 DEF ShopInv, ShopPlaced, ReleaseRow
  <2>3. DoneCall.at = "end" BY DEF DoneCall
  <2>. QED BY <1>1, <2>1, <2>2, <2>3, TurnMeans DEF ShopInv
<1>. QED BY <1>1, <1>4, <1>5, <1>6, <1>7, ReleaseKeeps

LEMMA DeprecateOk ==
    ASSUME ShopsAssumption, ShopInv, NEW c \in ShopCall, NEW x \in releases, Shops!Deprecate(c, x)
    PROVE  ShopInv'
<1>1. PICK y : y = [x EXCEPT !.deprecated = TRUE, !.latest = FALSE]
    OBVIOUS
<1>2. /\ chCall[c].at = "new" /\ Turn(c, DoneCall) /\ UNCHANGED <<channels, follows, chOverlapped>>
      /\ releases' = (releases \ {x}) \cup {y}
    BY <1>1 DEF Shops!Deprecate, Shops!Ends, Shops!Goes, Turn, DoneCall, ShopRec
<1>3. releases \subseteq ReleaseRow /\ x \in ReleaseRow BY DEF ShopInv, ShopTyped
<1>4. y \in ReleaseRow /\ y.id = x.id /\ y.latest = FALSE
    BY <1>1, <1>3 DEF ReleaseRow
<1>5. releases' \subseteq ReleaseRow BY <1>2, <1>3, <1>4
<1>6. \A z, w \in releases' : z.id = w.id => z = w
    BY <1>2, <1>4 DEF ShopInv, ShopTyped
<1>7. \A z \in releases : z.id \in ShopCall /\ z.id # c /\ chCall'[z.id] = chCall[z.id]
    BY <1>2, <1>3, TurnMeans DEF ShopInv, ShopPlaced, ReleaseRow
<1>8. \A z \in releases' : chCall'[z.id].at \in {"latest", "end"}
    BY <1>2, <1>4, <1>7 DEF ShopInv, ShopPlaced
<1>9. LatestOne'
  <2>1. \A z \in releases' : z.latest => z \in releases
    BY <1>2, <1>4
  <2>. QED BY <1>7, <2>1 DEF ShopInv, LatestOne
<1>. QED BY <1>2, <1>5, <1>6, <1>8, <1>9, ReleaseKeeps

-----------------------------------------------------------------------------
\* A call about the followers, which has yet to be counted.
LEMMA FollowKeeps ==
    ASSUME ShopsAssumption, ShopInv, NEW c \in ShopCall, NEW r \in Counts, Turn(c, r), chCall[c].at = "new",
           UNCHANGED <<channels, releases, chOverlapped>>, ThereIs(r.id),
           follows' \subseteq Follower \X ShopIds, \A s \in follows' : ThereIs(s[2]),
           \A x \in channels : CountedIn(x, follows', chCall')
    PROVE  ShopInv'
<1>1. channels' = channels /\ releases' = releases /\ chOverlapped' = chOverlapped
    OBVIOUS
<1>2. r.at = "count" /\ r \notin Creates /\ r \notin Renames
    BY DEF Counts, Creates, Renames
<1>3. ShopTyped' BY <1>1, TypedKept DEF ShopInv, ShopTyped, ThereIs
<1>4. LatestOne' /\ \A x \in releases' : chCall'[x.id].at \in {"latest", "end"}
    BY <1>1, LatestKept DEF ShopInv
<1>5. ShopPlaced' BY <1>1, <1>2, <1>4, PlacedKept DEF ShopInv, ThereIs
<1>6. Numbered' BY <1>1, <1>2, NumbersKept DEF ShopInv
<1>7. Shops!SlugsUnique' BY <1>1 DEF ShopInv, Shops!SlugsUnique
<1>8. Shops!FollowersCounted' BY <1>1, CountedMeans
<1>9. SerialLimits'
  <2>1. ~chOverlapped' => \A x \in channels' : Shops!Cardinality(x.wallets) <= MaxWallets
    BY <1>1 DEF ShopInv, SerialLimits
  <2>2. r.at \notin Shops!Critical /\ r.at # "create" /\ r.at # "wallets"
    BY <1>2 DEF Shops!Critical
  <2>. QED BY <1>1, <2>1, <2>2, SerialKept DEF ShopInv
<1>. QED BY <1>3, <1>4, <1>5, <1>6, <1>7, <1>8, <1>9 DEF ShopInv

\* What a call that has yet to be counted adds to those that have.
LEMMA LateAdds ==
    ASSUME ShopsAssumption, ShopTyped, NEW c \in ShopCall, NEW r \in Counts, Turn(c, r),
           chCall[c].at = "new", NEW i, NEW by
    PROVE  Shops!Cardinality(LateIn(chCall', i, by)) =
             IF r.id = i /\ r.by = by THEN Shops!Cardinality(LateIn(chCall, i, by)) + 1
             ELSE Shops!Cardinality(LateIn(chCall, i, by))
<1>1. CASE r.id = i /\ r.by = by
  <2>1. LateIn(chCall', i, by) = LateIn(chCall, i, by) \cup {c} /\ c \notin LateIn(chCall, i, by)
    BY <1>1, TurnMeans DEF LateIn, Counts
  <2>2. Shops!Cardinality(LateIn(chCall, i, by) \cup {c}) = Shops!Cardinality(LateIn(chCall, i, by)) + 1
    BY <2>1, CountsFinite, ShopAdd
  <2>. QED BY <1>1, <2>1, <2>2
<1>2. CASE ~(r.id = i /\ r.by = by)
  <2>1. LateIn(chCall', i, by) = LateIn(chCall, i, by) BY <1>2, LateSame
  <2>. QED BY <1>2, <2>1
<1>. QED BY <1>1, <1>2

LEMMA FollowOk ==
    ASSUME ShopsAssumption, ShopInv, NEW c \in ShopCall, NEW ch \in channels, NEW f \in Follower,
           Shops!Follow(c, f, ch.id)
    PROVE  ShopInv'
<1>1. PICK i : i = ch.id
    OBVIOUS
<1>2. ThereIs(i) /\ i \in ShopIds BY <1>1 DEF ThereIs, ThereIn, ShopInv, ShopTyped, Shop
<1>3. /\ chCall[c].at = "new" /\ chOverlapped' = chOverlapped /\ follows' = follows \cup {<<f, i>>}
      /\ UNCHANGED <<channels, releases>>
    BY <1>1 DEF Shops!Follow, Shops!Keeps
<1>4. CASE <<f, i>> \in follows
  <2>1. Turn(c, DoneCall) /\ Shops!Reads
    BY <1>1, <1>3, <1>4 DEF Shops!Follow, Shops!Ends, Shops!Goes, Turn, DoneCall, ShopRec,
       Shops!Reads
  <2>2. DoneCall.at = "end" /\ DoneCall \notin Creates /\ DoneCall \notin Renames
    BY DEF DoneCall, Creates, Renames
  <2>. QED BY <1>3, <2>1, <2>2, QuietKeeps DEF ShopInv, ShopTyped, Shops!Critical
<1>5. CASE <<f, i>> \notin follows
  <2>1. PICK r : r = [at |-> "count", id |-> i, by |-> 1]
    OBVIOUS
  <2>2. r \in Counts /\ r.id = i /\ r.by = 1 BY <1>2, <2>1 DEF Counts
  <2>3. Turn(c, r) BY <1>1, <1>3, <1>5, <2>1, <2>2 DEF Shops!Follow, Shops!Goes, Turn, ShopRec
  <2>4. follows' \subseteq Follower \X ShopIds /\ \A s \in follows' : ThereIs(s[2])
    BY <1>2, <1>3 DEF ShopInv, ShopTyped
  <2>5. ASSUME NEW x \in channels PROVE CountedIn(x, follows', chCall')
    <3>1. CountedIn(x, follows, chCall) BY CountedMeans DEF ShopInv
    <3>2. /\ Shops!Cardinality(LateIn(chCall, x.id, 1)) \in Nat /\ Shops!Cardinality(LateIn(chCall, x.id, -1)) \in Nat
          /\ Shops!Cardinality(FollowersIn(follows, x.id)) \in Nat
      BY CountsFinite
    <3>3. /\ Shops!Cardinality(LateIn(chCall', x.id, -1)) = Shops!Cardinality(LateIn(chCall, x.id, -1))
          /\ Shops!Cardinality(LateIn(chCall', x.id, 1)) =
               IF i = x.id THEN Shops!Cardinality(LateIn(chCall, x.id, 1)) + 1
               ELSE Shops!Cardinality(LateIn(chCall, x.id, 1))
      BY <1>3, <2>2, <2>3, LateAdds DEF ShopInv
    <3>4. CASE i = x.id
      <4>1. FollowersIn(follows', i) = FollowersIn(follows, i) \cup {f} /\ f \notin FollowersIn(follows, i)
        BY <1>3, <1>5 DEF FollowersIn
      <4>2. Shops!Cardinality(FollowersIn(follows, i) \cup {f}) = Shops!Cardinality(FollowersIn(follows, i)) + 1
        BY <4>1, CountsFinite, ShopAdd
      <4>. QED BY <3>1, <3>2, <3>3, <3>4, <4>1, <4>2 DEF CountedIn
    <3>5. CASE i # x.id
      <4>1. FollowersIn(follows', x.id) = FollowersIn(follows, x.id)
        BY <1>3, <3>5 DEF FollowersIn
      <4>. QED BY <3>1, <3>3, <3>5, <4>1 DEF CountedIn
    <3>. QED BY <3>4, <3>5
  <2>. QED BY <1>2, <1>3, <2>2, <2>3, <2>4, <2>5, FollowKeeps
<1>. QED BY <1>4, <1>5

LEMMA UnfollowOk ==
    ASSUME ShopsAssumption, ShopInv, NEW c \in ShopCall, NEW ch \in channels, NEW f \in Follower,
           Shops!Unfollow(c, f, ch.id)
    PROVE  ShopInv'
<1>1. PICK i : i = ch.id
    OBVIOUS
<1>2. ThereIs(i) /\ i \in ShopIds BY <1>1 DEF ThereIs, ThereIn, ShopInv, ShopTyped, Shop
<1>3. /\ chCall[c].at = "new" /\ chOverlapped' = chOverlapped /\ follows' = follows \ {<<f, i>>}
      /\ UNCHANGED <<channels, releases>>
    BY <1>1 DEF Shops!Unfollow, Shops!Keeps
<1>4. CASE <<f, i>> \notin follows
  <2>1. Turn(c, DoneCall) /\ Shops!Reads
    BY <1>1, <1>3, <1>4 DEF Shops!Unfollow, Shops!Ends, Shops!Goes, Turn, DoneCall,
       ShopRec, Shops!Reads
  <2>2. DoneCall.at = "end" /\ DoneCall \notin Creates /\ DoneCall \notin Renames
    BY DEF DoneCall, Creates, Renames
  <2>. QED BY <1>3, <2>1, <2>2, QuietKeeps DEF ShopInv, ShopTyped, Shops!Critical
<1>5. CASE <<f, i>> \in follows
  <2>1. PICK r : r = [at |-> "count", id |-> i, by |-> -1]
    OBVIOUS
  <2>2. r \in Counts /\ r.id = i /\ r.by = -1 BY <1>2, <2>1 DEF Counts
  <2>3. Turn(c, r) BY <1>1, <1>3, <1>5, <2>1, <2>2 DEF Shops!Unfollow, Shops!Goes, Turn, ShopRec
  <2>4. follows' \subseteq Follower \X ShopIds /\ \A s \in follows' : ThereIs(s[2])
    BY <1>2, <1>3 DEF ShopInv, ShopTyped
  <2>5. ASSUME NEW x \in channels PROVE CountedIn(x, follows', chCall')
    <3>1. CountedIn(x, follows, chCall) BY CountedMeans DEF ShopInv
    <3>2. /\ Shops!Cardinality(LateIn(chCall, x.id, 1)) \in Nat /\ Shops!Cardinality(LateIn(chCall, x.id, -1)) \in Nat
          /\ Shops!Cardinality(FollowersIn(follows, x.id)) \in Nat
      BY CountsFinite
    <3>3. /\ Shops!Cardinality(LateIn(chCall', x.id, 1)) = Shops!Cardinality(LateIn(chCall, x.id, 1))
          /\ Shops!Cardinality(LateIn(chCall', x.id, -1)) =
               IF i = x.id THEN Shops!Cardinality(LateIn(chCall, x.id, -1)) + 1
               ELSE Shops!Cardinality(LateIn(chCall, x.id, -1))
      BY <1>3, <2>2, <2>3, LateAdds DEF ShopInv
    <3>4. CASE i = x.id
      <4>1. FollowersIn(follows', i) = FollowersIn(follows, i) \ {f} /\ f \in FollowersIn(follows, i)
        BY <1>3, <1>5 DEF FollowersIn
      <4>2. Shops!Cardinality(FollowersIn(follows, i) \ {f}) = Shops!Cardinality(FollowersIn(follows, i)) - 1
        BY <4>1, CountsFinite, ShopRemove
      <4>. QED BY <3>1, <3>2, <3>3, <3>4, <4>1, <4>2 DEF CountedIn
    <3>5. CASE i # x.id
      <4>1. FollowersIn(follows', x.id) = FollowersIn(follows, x.id)
        BY <1>3, <3>5 DEF FollowersIn
      <4>. QED BY <3>1, <3>3, <3>5, <4>1 DEF CountedIn
    <3>. QED BY <3>4, <3>5
  <2>. QED BY <1>2, <1>3, <2>2, <2>3, <2>4, <2>5, FollowKeeps
<1>. QED BY <1>4, <1>5

-----------------------------------------------------------------------------
LEMMA ShopStepsKeep == ASSUME ShopsAssumption, ShopInv, [Shops!Next]_Shops!vars PROVE ShopInv'
<1>1. CASE UNCHANGED Shops!vars
  <2>1. UNCHANGED <<channels, releases, follows, chCall, chOverlapped>> BY <1>1 DEF Shops!vars
  <2>. QED BY <2>1 DEF ShopInv, ShopTyped, ShopPlaced, Numbered, CallsOver,
              Shops!SlugsUnique, LatestOne,
               Shops!FollowersCounted, SerialLimits, ThereIs
<1>2. ASSUME NEW c \in ShopCall, Shops!Step(c) PROVE ShopInv'
  BY <1>2, LookForSlugOk, CountOwnedOk, StoreOk, RenameOk, SaveWalletsOk, SetLatestOk, CountOk
     DEF Shops!Step
<1>3. ASSUME NEW c \in ShopCall, NEW ch \in channels,
             \/ \E t \in Title : Shops!Update(c, ch.id, t)
             \/ \E a \in Address : Shops!AddWallet(c, ch.id, a) \/ Shops!RemoveWallet(c, ch.id, a)
             \/ \E f \in Follower : Shops!Follow(c, f, ch.id) \/ Shops!Unfollow(c, f, ch.id)
      PROVE  ShopInv'
  BY <1>3, UpdateOk, AddWalletOk, RemoveWalletOk, FollowOk, UnfollowOk
<1>4. ASSUME NEW c \in ShopCall,
             \/ \E o \in Owner, t \in Title : Shops!Create(c, o, t)
             \/ \E v \in Version : Shops!Publish(c, v)
             \/ \E x \in releases : Shops!Deprecate(c, x)
      PROVE  ShopInv'
  BY <1>4, CreateOk, PublishOk, DeprecateOk
<1>. QED BY <1>1, <1>2, <1>3, <1>4 DEF Shops!Next

\* The numbers of slugs in use are among those the type allows.
LEMMA ShopMeans ==
    ASSUME ShopsAssumption, ShopInv
    PROVE  ChannelsSound
<1>1. CallsOver \in Nat /\ CallsOver <= Shops!Cardinality(ShopCall) /\ Shops!Cardinality(ShopCall) \in Nat
  <2>1. {d \in ShopCall : chCall[d].at = "end"} \subseteq ShopCall
    OBVIOUS
  <2>. QED BY <2>1, ShopSubset, ShopNumber DEF CallsOver, ShopsAssumption
<1>2. ASSUME NEW ch \in channels
      PROVE  ch.id \in Old \cup ShopCall /\ ch.slug \in Shops!Slug /\ ch.wallets \subseteq Address
  <2>1. ch \in Shop /\ ch.slug[2] <= CallsOver BY DEF ShopInv, ShopTyped, Numbered
  <2>2. ch.slug[2] \in 0 .. Shops!Cardinality(ShopCall) BY <1>1, <2>1 DEF Shop
  <2>. QED BY <2>1, <2>2 DEF Shop, ShopIds, Shops!Slug
<1>3. \A x \in releases : x.id \in ShopCall /\ x.version \in Version
    BY DEF ShopInv, ShopTyped, ReleaseRow
<1>4. follows \subseteq Follower \X {ch.id : ch \in channels}
    BY DEF ShopInv, ShopTyped, ThereIs, ThereIn
<1>5. Shops!TypeOK BY <1>2, <1>3, <1>4 DEF Shops!TypeOK
<1>6. Shops!OneLatest
  <2>1. SUFFICES ASSUME \A c \in ShopCall : chCall[c].at # "latest", NEW x \in releases, NEW y \in releases,
                        x.latest, y.latest
                 PROVE  x = y
    BY DEF Shops!OneLatest
  <2>2. chCall[x.id].at = "end" /\ chCall[y.id].at = "end"
    BY <2>1, <1>3 DEF ShopInv, ShopPlaced
  <2>. QED BY <2>1, <2>2 DEF ShopInv, LatestOne
<1>7. Shops!SerialCallsKeepLimits
  BY DEF ShopInv, SerialLimits, Shops!SerialCallsKeepLimits, OwnedIn
<1>. QED BY <1>5, <1>6, <1>7 DEF ShopInv, ChannelsSound

\* ChannelService, ReleaseService, FollowService, whatever calls overlap: slugs are unique,
\* one release of a channel at most is the latest when all calls are over, the counter is
\* that of the followers, and calls one after the other keep the limits.
THEOREM ChannelsKept ==
    ASSUME ShopsAssumption
    PROVE  Shops!Spec => []ChannelsSound
<1>1. ASSUME Shops!Init PROVE ShopInv BY <1>1, ShopInit
<1>2. ASSUME ShopInv, [Shops!Next]_Shops!vars PROVE ShopInv' BY <1>2, ShopStepsKeep
<1>3. ASSUME ShopInv
      PROVE  ChannelsSound
    BY <1>3, ShopMeans
<1>. QED BY <1>1, <1>2, <1>3, PTL DEF Shops!Spec

-----------------------------------------------------------------------------
\* AssetService: what stands for no asset is not one, and a call's record at each of its
\* awaits.
FilesAssumption == noAsset \notin AssetCall

AssetRow == [version : Edition, content : Content, file : AssetCall]
CallNew == [at |-> "new"]
CallEnd == [at |-> "end"]
CallClean == [at |-> "clean"]
Stores == [at : {"look", "put", "save"}, to : AssetCall, content : Content, version : Edition]
Refers == [at : {"refer"}, to : AssetCall]
AssetRec == {CallNew, CallEnd, CallClean} \cup Stores \cup Refers

FilesTyped ==
    /\ assets \in [AssetCall -> SUBSET AssetRow]
    /\ checksums \in [Content -> AssetCall \cup {noAsset}]
    /\ storage \subseteq AssetCall /\ abandoned \subseteq AssetCall
    /\ edges \subseteq AssetCall \X AssetCall
    /\ asCall \in [AssetCall -> AssetRec]
    /\ asOverlapped \in BOOLEAN

\* Whether an asset names the file of call c.
Names(A, c) == \E a \in AssetCall : \E f \in A[a] : f.file = c

\* A file is named once its call is over; a version is for an asset there is.
FilesStored ==
    /\ \A a \in AssetCall : \A f \in assets[a] : f.file \in storage /\ asCall[f.file].at = "end"
    /\ \A a \in AssetCall : assets[a] # {} => asCall[a].at = "end"
    /\ \A c \in AssetCall : asCall[c] \in Stores /\ asCall[c].to # c => assets[asCall[c].to] # {}
    /\ \A c \in AssetCall : asCall[c].at \in {"new", "look", "put", "refer"} => c \notin storage
    /\ \A c \in AssetCall : asCall[c].at = "save" => c \in storage
    /\ \A c \in AssetCall : asCall[c].at = "end" /\ c \in storage => c \in abandoned \/ Names(assets, c)

\* Unless calls overlapped: one call at most is under way, a checksum leads to the one
\* asset with that content, and what a call has looked up is still so when it saves.
SerialOne == \A c, d \in AssetCall : asCall[c].at \notin {"new", "end"} /\ asCall[d].at \notin {"new", "end"} => c = d
SerialRows ==
    \A a \in AssetCall : \A f \in assets[a] :
        /\ checksums[f.content] = a
        /\ \A g \in assets[a] : f.version = g.version => f = g
SerialLooked ==
    \A c \in AssetCall :
        /\ asCall[c].at \in {"look", "put", "save"} =>
              \A f \in assets[asCall[c].to] : f.version # asCall[c].version
        /\ asCall[c].at \in {"put", "save"} =>
              checksums[asCall[c].content] \in {noAsset, asCall[c].to}
FilesSerial == ~asOverlapped => SerialOne /\ SerialRows /\ SerialLooked

FilesInv == FilesTyped /\ FilesStored /\ Files!IndexTrue /\ FilesSerial /\ Files!Acyclic

LEMMA AssetKinds ==
    ASSUME NEW r \in AssetRec
    PROVE  /\ r.at \in {"new", "end", "look", "put", "save", "clean", "refer"}
           /\ r.at \in {"look", "put", "save"} <=> r \in Stores
           /\ r.at = "refer" <=> r \in Refers
           /\ r.at = "new" <=> r = CallNew
           /\ r.at = "end" <=> r = CallEnd
BY DEF AssetRec, CallNew, CallEnd, CallClean, Stores, Refers

LEMMA FilesInit == ASSUME Files!Init PROVE FilesInv
<1>1. FilesTyped BY DEF Files!Init, FilesTyped, AssetRec, CallNew
<1>2. FilesStored BY AssetKinds DEF Files!Init, FilesStored, Stores
<1>3. Files!IndexTrue BY DEF Files!Init, Files!IndexTrue
<1>4. FilesSerial BY DEF Files!Init, FilesSerial, SerialOne, SerialRows, SerialLooked
<1>5. Files!Acyclic BY DEF Files!Init, Files!Acyclic
<1>. QED BY <1>1, <1>2, <1>3, <1>4, <1>5 DEF FilesInv

\* Assets, files and index stay; call c goes on as s.
LEMMA FilesGoOn ==
    ASSUME FilesInv, NEW c \in AssetCall, NEW s \in AssetRec, Files!Goes(c, s),
           asCall[c].at \in {"look", "put", "refer"},
           s \in Stores => /\ asCall[c] \in Stores /\ s.to = asCall[c].to
                           /\ s.content = asCall[c].content /\ s.version = asCall[c].version
                           /\ checksums[s.content] \in {noAsset, s.to}
                           /\ s.at # "save",
           UNCHANGED <<assets, checksums, storage, edges, abandoned, asOverlapped>>
    PROVE  FilesInv'
<1>1. asCall' = [asCall EXCEPT ![c] = s] /\ asCall' \in [AssetCall -> AssetRec]
    BY DEF Files!Goes, FilesInv, FilesTyped
<1>2. asCall'[c] = s /\ \A d \in AssetCall \ {c} : asCall'[d] = asCall[d]
    BY <1>1 DEF FilesInv, FilesTyped
<1>3. FilesTyped' BY <1>1 DEF FilesInv, FilesTyped
<1>4. asCall[c] \in AssetRec BY DEF FilesInv, FilesTyped
<1>5. assets[c] = {} /\ c \notin storage /\ asCall[c].at # "end"
    BY <1>4 DEF FilesInv, FilesStored
<1>6. FilesStored'
  <2>1. \A a \in AssetCall : \A f \in assets[a] : f.file \in storage /\ asCall'[f.file].at = "end"
    BY <1>2, <1>5 DEF FilesInv, FilesStored, FilesTyped, AssetRow
  <2>2. \A a \in AssetCall : assets[a] # {} => asCall'[a].at = "end"
    BY <1>2, <1>5 DEF FilesInv, FilesStored
  <2>3. \A d \in AssetCall : asCall'[d] \in Stores /\ asCall'[d].to # d => assets[asCall'[d].to] # {}
    BY <1>2 DEF FilesInv, FilesStored
  <2>4. s.at # "save"
    BY AssetKinds
  <2>5. \A d \in AssetCall :
            /\ asCall'[d].at \in {"new", "look", "put", "refer"} => d \notin storage
            /\ asCall'[d].at = "save" => d \in storage
            /\ asCall'[d].at = "end" /\ d \in storage => d \in abandoned \/ Names(assets, d)
    BY <1>2, <1>5, <2>4 DEF FilesInv, FilesStored
  <2>. QED BY <2>1, <2>2, <2>3, <2>5 DEF FilesStored, Names
<1>7. FilesSerial'
  <2> SUFFICES ASSUME ~asOverlapped PROVE SerialOne' /\ SerialRows' /\ SerialLooked'
    BY DEF FilesSerial
  <2>1. SerialOne /\ SerialRows /\ SerialLooked BY DEF FilesInv, FilesSerial
  <2>2. SerialOne' BY <1>2, <2>1 DEF SerialOne
  <2>3. SerialRows' BY <2>1 DEF SerialRows
  <2>4. s.at \in {"look", "put", "save"} => s \in Stores BY AssetKinds
  <2>5. asCall[c] \in Stores => \A f \in assets[asCall[c].to] : f.version # asCall[c].version
    BY <2>1, <1>4, AssetKinds DEF SerialLooked
  <2>6. SerialLooked' BY <1>2, <2>1, <2>4, <2>5 DEF SerialLooked
  <2>. QED BY <2>2, <2>3, <2>6
<1>8. (Files!IndexTrue /\ Files!Acyclic)'
    BY DEF FilesInv, Files!IndexTrue, Files!Acyclic, Files!Leads
<1>. QED BY <1>3, <1>6, <1>7, <1>8 DEF FilesInv

\* The checksum has been looked up.
LEMMA LookKeeps == ASSUME FilesAssumption, FilesInv, NEW c \in AssetCall, Files!Look(c) PROVE FilesInv'
<1> DEFINE r == asCall[c]
<1>1. r \in AssetRec /\ r.at = "look" BY DEF Files!Look, FilesInv, FilesTyped
<1>2. r \in Stores BY <1>1, AssetKinds
<1>3. UNCHANGED <<assets, checksums, storage, edges, abandoned, asOverlapped>>
    BY DEF Files!Look, Files!Files
<1>4. CASE checksums[r.content] \in {noAsset, r.to}
  <2> DEFINE s == [r EXCEPT !.at = "put"]
  <2>1. Files!Goes(c, s) BY <1>4 DEF Files!Look
  <2>2. s \in Stores /\ s \in AssetRec /\ s.at = "put" /\ s.to = r.to /\ s.content = r.content /\ s.version = r.version
    BY <1>2 DEF Stores, AssetRec
  <2>. QED BY <1>1, <1>2, <1>3, <1>4, <2>1, <2>2, FilesGoOn
<1>5. CASE checksums[r.content] \notin {noAsset, r.to}
  <2>1. PICK s \in {[at |-> "refer", to |-> checksums[r.content]], CallEnd} : Files!Goes(c, s)
    BY <1>5 DEF Files!Look, Files!Ends, CallEnd
  <2>2. checksums[r.content] \in AssetCall BY <1>2, <1>5 DEF FilesInv, FilesTyped, Stores
  <2>3. s \in AssetRec /\ s \notin Stores BY <2>2 DEF AssetRec, Refers, CallEnd, Stores
  <2>. QED BY <1>1, <1>3, <2>1, <2>3, FilesGoOn
<1>. QED BY <1>4, <1>5

LEMMA ReferKeeps == ASSUME FilesInv, NEW c \in AssetCall, Files!Refer(c) PROVE FilesInv'
<1>1. CallEnd \in AssetRec /\ CallEnd \notin Stores BY DEF AssetRec, CallEnd, Stores
<1>2. Files!Goes(c, CallEnd) /\ asCall[c].at = "refer"
      /\ UNCHANGED <<assets, checksums, storage, edges, abandoned, asOverlapped>>
    BY DEF Files!Refer, Files!Ends, Files!Files, CallEnd
<1>. QED BY <1>1, <1>2, FilesGoOn

\* The file has been stored, or could not be.
LEMMA PutFileKeeps == ASSUME FilesInv, NEW c \in AssetCall, Files!PutFile(c) PROVE FilesInv'
<1>1. asCall[c] \in AssetRec /\ asCall[c].at = "put" /\ asCall \in [AssetCall -> AssetRec]
    BY DEF Files!PutFile, FilesInv, FilesTyped
<1>2. asCall[c] \in Stores /\ c \notin storage BY <1>1, AssetKinds DEF FilesInv, FilesStored
<1>3. UNCHANGED <<assets, checksums, edges, abandoned, asOverlapped>>
    BY DEF Files!PutFile, Files!Files
<1>4. CASE Files!Ends(c) /\ UNCHANGED storage
  <2>1. CallEnd \in AssetRec /\ CallEnd \notin Stores BY DEF AssetRec, CallEnd, Stores
  <2>2. Files!Goes(c, CallEnd) BY <1>4 DEF Files!Ends, CallEnd
  <2>. QED BY <1>1, <1>3, <1>4, <2>1, <2>2, FilesGoOn
<1>5. CASE storage' = storage \cup {c} /\ Files!Goes(c, [asCall[c] EXCEPT !.at = "save"])
  <2> DEFINE s == [asCall[c] EXCEPT !.at = "save"]
  <2>1. s \in Stores /\ s \in AssetRec /\ s.at = "save" /\ s.to = asCall[c].to
        /\ s.content = asCall[c].content /\ s.version = asCall[c].version
    BY <1>2 DEF Stores, AssetRec
  <2>2. asCall' = [asCall EXCEPT ![c] = s] BY <1>5 DEF Files!Goes
  <2>3. asCall'[c] = s /\ \A d \in AssetCall \ {c} : asCall'[d] = asCall[d]
    BY <1>1, <2>2
  <2>. HIDE DEF s
  <2>4. FilesTyped' BY <1>3, <1>5, <2>1, <2>2 DEF FilesInv, FilesTyped
  <2>5. \A a \in AssetCall : \A f \in assets[a] :
            f.file \in AssetCall /\ f.file # c /\ f.file \in storage' /\ asCall'[f.file].at = "end"
    BY <1>1, <1>5, <2>3 DEF FilesInv, FilesStored, FilesTyped, AssetRow
  <2>6. FilesStored'
    <3>1. \A a \in AssetCall : assets[a] # {} => a # c /\ asCall'[a].at = "end"
      BY <1>1, <2>3 DEF FilesInv, FilesStored
    <3>2. \A d \in AssetCall : asCall'[d] \in Stores /\ asCall'[d].to # d => assets[asCall'[d].to] # {}
      BY <1>2, <2>1, <2>3 DEF FilesInv, FilesStored
    <3>3. \A d \in AssetCall :
              /\ asCall'[d].at \in {"new", "look", "put", "refer"} => d \notin storage'
              /\ asCall'[d].at = "save" => d \in storage'
              /\ asCall'[d].at = "end" /\ d \in storage' => d \in abandoned \/ Names(assets, d)
      BY <1>5, <2>1, <2>3 DEF FilesInv, FilesStored
    <3>. QED BY <1>3, <2>5, <3>1, <3>2, <3>3 DEF FilesStored, Names
  <2>7. FilesSerial'
    <3> SUFFICES ASSUME ~asOverlapped PROVE SerialOne' /\ SerialRows' /\ SerialLooked'
      BY <1>3 DEF FilesSerial
    <3>1. SerialOne /\ SerialRows /\ SerialLooked BY DEF FilesInv, FilesSerial
    <3>2. SerialOne' BY <1>1, <2>3, <3>1 DEF SerialOne
    <3>3. SerialRows' BY <1>3, <3>1 DEF SerialRows
    <3>4. SerialLooked' BY <1>1, <1>3, <2>1, <2>3, <3>1 DEF SerialLooked
    <3>. QED BY <3>2, <3>3, <3>4
  <2>8. (Files!IndexTrue /\ Files!Acyclic)'
    BY <1>3 DEF FilesInv, Files!IndexTrue, Files!Acyclic, Files!Leads
  <2>. QED BY <2>4, <2>6, <2>7, <2>8 DEF FilesInv
<1>. QED BY <1>4, <1>5 DEF Files!PutFile

\* A call begins.
LEMMA BeginsKeeps ==
    ASSUME FilesInv, NEW c \in AssetCall, NEW to \in AssetCall, NEW x \in Content, NEW v \in Edition,
           to # c => assets[to] # {},
           to = c \/ \A f \in assets[to] : f.version # v,
           Files!Begins(c, [at |-> "look", to |-> to, content |-> x, version |-> v])
    PROVE  FilesInv'
<1> DEFINE s == [at |-> "look", to |-> to, content |-> x, version |-> v]
<1>1. s \in Stores /\ s \in AssetRec /\ s.at = "look" /\ s.to = to /\ s.version = v
    BY DEF Stores, AssetRec
<1>2. asCall[c].at = "new" /\ asCall \in [AssetCall -> AssetRec] /\ asCall' = [asCall EXCEPT ![c] = s]
      /\ UNCHANGED <<assets, checksums, storage, edges, abandoned>>
    BY DEF Files!Begins, Files!Goes, FilesInv, FilesTyped
<1>3. asCall'[c] = s /\ \A d \in AssetCall \ {c} : asCall'[d] = asCall[d]
    BY <1>2
<1>. HIDE DEF s
<1>4. asOverlapped' \in BOOLEAN
      /\ (~asOverlapped' => ~asOverlapped /\ \A d \in AssetCall : asCall[d].at \in {"new", "end"})
    BY DEF Files!Begins, Files!Busy, FilesInv, FilesTyped
<1>5. FilesTyped' BY <1>1, <1>2, <1>4 DEF FilesInv, FilesTyped
<1>6. assets[c] = {} BY <1>2 DEF FilesInv, FilesStored
<1>7. FilesStored'
  <2>1. \A a \in AssetCall : \A f \in assets[a] : f.file \in storage /\ asCall'[f.file].at = "end"
    BY <1>2, <1>3 DEF FilesInv, FilesStored, FilesTyped, AssetRow
  <2>2. \A a \in AssetCall : assets[a] # {} => asCall'[a].at = "end"
    BY <1>3, <1>6 DEF FilesInv, FilesStored
  <2>3. \A d \in AssetCall : asCall'[d] \in Stores /\ asCall'[d].to # d => assets[asCall'[d].to] # {}
    BY <1>1, <1>3 DEF FilesInv, FilesStored
  <2>4. \A d \in AssetCall :
            /\ asCall'[d].at \in {"new", "look", "put", "refer"} => d \notin storage
            /\ asCall'[d].at = "save" => d \in storage
            /\ asCall'[d].at = "end" /\ d \in storage => d \in abandoned \/ Names(assets, d)
    BY <1>1, <1>2, <1>3 DEF FilesInv, FilesStored
  <2>. QED BY <1>2, <2>1, <2>2, <2>3, <2>4 DEF FilesStored, Names
<1>8. FilesSerial'
  <2> SUFFICES ASSUME ~asOverlapped' PROVE SerialOne' /\ SerialRows' /\ SerialLooked'
    BY DEF FilesSerial
  <2>1. SerialRows /\ \A d \in AssetCall : asCall[d].at \in {"new", "end"}
    BY <1>4 DEF FilesInv, FilesSerial
  <2>2. SerialOne' BY <1>3, <2>1 DEF SerialOne
  <2>3. SerialRows' BY <1>2, <2>1 DEF SerialRows
  <2>4. SerialLooked' BY <1>1, <1>2, <1>3, <1>6, <2>1 DEF SerialLooked
  <2>. QED BY <2>2, <2>3, <2>4
<1>9. (Files!IndexTrue /\ Files!Acyclic)'
    BY <1>2 DEF FilesInv, Files!IndexTrue, Files!Acyclic, Files!Leads
<1>. QED BY <1>5, <1>7, <1>8, <1>9 DEF FilesInv

\* A file becomes a version of its asset.
LEMMA RecordedKeeps ==
    ASSUME FilesAssumption, FilesInv, NEW c \in AssetCall, Files!Saves(c), Files!Recorded(c) PROVE FilesInv'
<1>1. asCall[c] \in AssetRec /\ asCall[c].at = "save" /\ asCall \in [AssetCall -> AssetRec]
      /\ assets \in [AssetCall -> SUBSET AssetRow] /\ checksums \in [Content -> AssetCall \cup {noAsset}]
    BY DEF Files!Saves, FilesInv, FilesTyped
<1>2. asCall[c] \in Stores /\ c \in storage BY <1>1, AssetKinds DEF FilesInv, FilesStored
<1>3. PICK to \in AssetCall, x \in Content, v \in Edition :
          asCall[c].to = to /\ asCall[c].content = x /\ asCall[c].version = v
    BY <1>2 DEF Stores
<1>4. PICK n \in AssetRow : n = [version |-> v, content |-> x, file |-> c]
    BY DEF AssetRow
<1>5. n.version = v /\ n.content = x /\ n.file = c BY <1>4
<1>6. /\ assets' = [assets EXCEPT ![to] = @ \cup {n}]
      /\ checksums' = [checksums EXCEPT ![x] = to]
      /\ asCall' = [asCall EXCEPT ![c] = CallEnd]
      /\ UNCHANGED <<storage, edges, abandoned, asOverlapped>>
    BY <1>3, <1>4 DEF Files!Recorded, Files!Saves, Files!Files, Files!Ends, Files!Goes, CallEnd
<1>7. /\ assets'[to] = assets[to] \cup {n} /\ \A a \in AssetCall \ {to} : assets'[a] = assets[a]
      /\ checksums'[x] = to /\ \A y \in Content \ {x} : checksums'[y] = checksums[y]
      /\ asCall'[c] = CallEnd /\ CallEnd.at = "end"
      /\ \A d \in AssetCall \ {c} : asCall'[d] = asCall[d]
    BY <1>1, <1>6 DEF CallEnd
<1>8. \A a \in AssetCall : assets[a] \subseteq AssetRow /\ assets[a] \subseteq assets'[a]
    BY <1>1, <1>7
<1>9. FilesTyped'
  <2>1. assets' \in [AssetCall -> SUBSET AssetRow] BY <1>1, <1>6
  <2>2. checksums' \in [Content -> AssetCall \cup {noAsset}] BY <1>1, <1>6
  <2>3. asCall' \in [AssetCall -> AssetRec] BY <1>1, <1>6 DEF AssetRec
  <2>. QED BY <1>6, <2>1, <2>2, <2>3 DEF FilesInv, FilesTyped
<1>10. FilesStored'
  <2>1. \A a \in AssetCall : \A f \in assets'[a] : f.file \in storage' /\ asCall'[f.file].at = "end"
    <3> SUFFICES ASSUME NEW a \in AssetCall, NEW f \in assets'[a]
                 PROVE  f.file \in storage' /\ asCall'[f.file].at = "end"
      OBVIOUS
    <3>1. CASE f = n BY <1>2, <1>5, <1>6, <1>7, <3>1
    <3>2. CASE f # n
      <4>1. f \in assets[a] BY <1>7, <3>2
      <4>. QED BY <1>6, <1>7, <1>8, <4>1 DEF FilesInv, FilesStored, AssetRow
    <3>. QED BY <3>1, <3>2
  <2>2. \A a \in AssetCall : assets'[a] # {} => asCall'[a].at = "end"
    <3>1. asCall'[to].at = "end" BY <1>2, <1>3, <1>7 DEF FilesInv, FilesStored
    <3>2. \A a \in AssetCall : a # to /\ assets'[a] # {} => asCall'[a].at = "end"
      BY <1>7 DEF FilesInv, FilesStored
    <3>. QED BY <3>1, <3>2
  <2>3. \A d \in AssetCall : asCall'[d] \in Stores /\ asCall'[d].to # d => assets'[asCall'[d].to] # {}
    <3>1. CallEnd \notin Stores BY DEF CallEnd, Stores
    <3>2. \A d \in AssetCall : asCall[d] \in Stores => asCall[d].to \in AssetCall BY DEF Stores
    <3>. QED BY <1>7, <1>8, <3>1, <3>2 DEF FilesInv, FilesStored
  <2>4. Names(assets', c) BY <1>5, <1>7 DEF Names
  <2>5. \A d \in AssetCall : Names(assets, d) => Names(assets', d) BY <1>8 DEF Names
  <2>6. \A d \in AssetCall :
            /\ asCall'[d].at \in {"new", "look", "put", "refer"} => d \notin storage'
            /\ asCall'[d].at = "save" => d \in storage'
            /\ asCall'[d].at = "end" /\ d \in storage' => d \in abandoned' \/ Names(assets', d)
    <3> SUFFICES ASSUME NEW d \in AssetCall
                 PROVE  /\ asCall'[d].at \in {"new", "look", "put", "refer"} => d \notin storage
                        /\ asCall'[d].at = "save" => d \in storage
                        /\ asCall'[d].at = "end" /\ d \in storage => d \in abandoned \/ Names(assets', d)
      BY <1>6
    <3>1. CASE d = c BY <1>7, <2>4, <3>1
    <3>2. CASE d # c
      <4>1. asCall'[d] = asCall[d] BY <1>7, <3>2
      <4>. QED BY <2>5, <4>1 DEF FilesInv, FilesStored
    <3>. QED BY <3>1, <3>2
  <2>. QED BY <2>1, <2>2, <2>3, <2>6 DEF FilesStored, Names
<1>11. Files!IndexTrue'
  <2> SUFFICES ASSUME NEW y \in Content, checksums'[y] # noAsset
               PROVE  \E f \in assets'[checksums'[y]] : f.content = y
    BY DEF Files!IndexTrue
  <2>1. CASE y = x BY <1>5, <1>7, <2>1
  <2>2. CASE y # x
    <3>1. checksums'[y] = checksums[y] /\ checksums[y] \in AssetCall BY <1>1, <1>7, <2>2
    <3>2. \E f \in assets[checksums[y]] : f.content = y
      BY <3>1 DEF FilesInv, Files!IndexTrue
    <3>. QED BY <1>8, <3>1, <3>2
  <2>. QED BY <2>1, <2>2
<1>12. FilesSerial'
  <2> SUFFICES ASSUME ~asOverlapped PROVE SerialOne' /\ SerialRows' /\ SerialLooked'
    BY <1>6 DEF FilesSerial
  <2>1. SerialOne /\ SerialRows /\ SerialLooked BY DEF FilesInv, FilesSerial
  <2>2. \A d \in AssetCall : asCall'[d].at \in {"new", "end"}
    BY <1>1, <1>7, <2>1 DEF SerialOne
  <2>3. checksums[x] \in {noAsset, to} /\ \A f \in assets[to] : f.version # v
    BY <1>1, <1>3, <2>1 DEF SerialLooked
  <2>4. SerialRows'
    <3> SUFFICES ASSUME NEW a \in AssetCall, NEW f \in assets'[a]
                 PROVE  checksums'[f.content] = a /\ \A g \in assets'[a] : f.version = g.version => f = g
      BY DEF SerialRows
    <3>1. CASE f = n /\ a = to BY <1>5, <1>7, <2>3, <3>1
    <3>2. CASE f \in assets[a]
      <4>1. checksums[f.content] = a /\ f.content \in Content BY <1>8, <2>1, <3>2 DEF SerialRows, AssetRow
      <4>2. checksums'[f.content] = a
        <5>1. CASE f.content = x BY <1>7, <2>3, <4>1, <5>1 DEF FilesAssumption
        <5>2. CASE f.content # x BY <1>7, <4>1, <5>2
        <5>. QED BY <5>1, <5>2
      <4>3. \A g \in assets'[a] : f.version = g.version => f = g
        <5>1. \A g \in assets[a] : f.version = g.version => f = g BY <2>1, <3>2 DEF SerialRows
        <5>2. a = to => f.version # n.version BY <1>5, <2>3, <3>2
        <5>. QED BY <1>7, <5>1, <5>2
      <4>. QED BY <4>2, <4>3
    <3>. QED BY <1>7, <3>1, <3>2
  <2>. QED BY <2>2, <2>4 DEF SerialOne, SerialLooked
<1>13. Files!Acyclic' BY <1>6 DEF FilesInv, Files!Acyclic, Files!Leads
<1>. QED BY <1>9, <1>10, <1>11, <1>12, <1>13 DEF FilesInv

\* A call whose file is stored goes on as s, or is over: its file may be deleted, or left.
LEMMA FilesEnd ==
    ASSUME FilesInv, NEW c \in AssetCall, NEW s \in AssetRec, Files!Goes(c, s),
           asCall[c].at \in {"save", "clean"},
           \/ s = CallClean /\ UNCHANGED <<storage, abandoned>>
           \/ s = CallEnd /\ storage' = storage \ {c} /\ UNCHANGED abandoned
           \/ s = CallEnd /\ UNCHANGED storage /\ abandoned' = abandoned \cup {c},
           UNCHANGED <<assets, checksums, edges, asOverlapped>>
    PROVE  FilesInv'
<1>1. asCall \in [AssetCall -> AssetRec] /\ asCall' = [asCall EXCEPT ![c] = s]
    BY DEF FilesInv, FilesTyped, Files!Goes
<1>2. asCall'[c] = s /\ \A d \in AssetCall \ {c} : asCall'[d] = asCall[d]
    BY <1>1
<1>3. CallEnd.at = "end" /\ CallEnd \notin Stores /\ CallClean.at = "clean" /\ CallClean \notin Stores
    BY DEF CallEnd, CallClean, Stores
<1>4. FilesTyped' BY <1>1 DEF FilesInv, FilesTyped
<1>5. FilesStored'
  <2>1. \A a \in AssetCall : \A f \in assets[a] :
            f.file \in AssetCall /\ f.file # c /\ f.file \in storage' /\ asCall'[f.file].at = "end"
    <3> SUFFICES ASSUME NEW a \in AssetCall, NEW f \in assets[a]
                 PROVE  f.file \in AssetCall /\ f.file # c /\ f.file \in storage' /\ asCall'[f.file].at = "end"
      OBVIOUS
    <3>1. f.file \in AssetCall BY DEF FilesInv, FilesTyped, AssetRow
    <3>2. f.file \in storage /\ asCall[f.file].at = "end" BY DEF FilesInv, FilesStored
    <3>. QED BY <1>2, <3>1, <3>2
  <2>2. \A a \in AssetCall : assets[a] # {} => asCall'[a].at = "end"
    BY <1>2 DEF FilesInv, FilesStored
  <2>3. \A d \in AssetCall : asCall'[d] \in Stores /\ asCall'[d].to # d => assets[asCall'[d].to] # {}
    BY <1>2, <1>3 DEF FilesInv, FilesStored
  <2>4. \A d \in AssetCall :
            /\ asCall'[d].at \in {"new", "look", "put", "refer"} => d \notin storage'
            /\ asCall'[d].at = "save" => d \in storage'
            /\ asCall'[d].at = "end" /\ d \in storage' => d \in abandoned' \/ Names(assets, d)
    BY <1>2, <1>3 DEF FilesInv, FilesStored
  <2>. QED BY <2>1, <2>2, <2>3, <2>4 DEF FilesStored, Names
<1>6. FilesSerial'
  <2> SUFFICES ASSUME ~asOverlapped PROVE SerialOne' /\ SerialRows' /\ SerialLooked'
    BY DEF FilesSerial
  <2>1. SerialOne /\ SerialRows /\ SerialLooked BY DEF FilesInv, FilesSerial
  <2>2. SerialOne' BY <1>2, <2>1 DEF SerialOne
  <2>3. SerialRows' BY <2>1 DEF SerialRows
  <2>4. SerialLooked' BY <1>2, <1>3, <2>1 DEF SerialLooked
  <2>. QED BY <2>2, <2>3, <2>4
<1>7. (Files!IndexTrue /\ Files!Acyclic)'
    BY DEF FilesInv, Files!IndexTrue, Files!Acyclic, Files!Leads
<1>. QED BY <1>4, <1>5, <1>6, <1>7 DEF FilesInv

LEMMA SaveKeeps ==
    ASSUME FilesAssumption, FilesInv, NEW c \in AssetCall,
           Files!Save(c) \/ Files!SaveVersion(c) \/ Files!Clean(c)
    PROVE  FilesInv'
<1>1. CallEnd \in AssetRec /\ CallClean \in AssetRec BY DEF AssetRec
<1>2. CASE Files!Saves(c) /\ Files!Recorded(c) BY <1>2, RecordedKeeps
<1>3. CASE ~(Files!Saves(c) /\ Files!Recorded(c))
  <2>1. UNCHANGED <<assets, checksums, edges, asOverlapped>> /\ asCall[c].at \in {"save", "clean"}
    BY <1>3 DEF Files!Save, Files!SaveVersion, Files!Clean, Files!Saves, Files!Files
  <2>2. CASE Files!Save(c)
    <3>1. Files!Goes(c, CallClean) /\ UNCHANGED <<storage, abandoned>>
      BY <1>3, <2>2 DEF Files!Save, Files!Saves, CallClean
    <3>. QED BY <1>1, <2>1, <3>1, FilesEnd
  <2>3. CASE Files!SaveVersion(c)
    <3>1. Files!Goes(c, CallEnd) /\ UNCHANGED storage /\ abandoned' = abandoned \cup {c}
      BY <1>3, <2>3 DEF Files!SaveVersion, Files!Saves, Files!Ends, CallEnd
    <3>. QED BY <1>1, <2>1, <3>1, FilesEnd
  <2>4. CASE Files!Clean(c)
    <3>1. Files!Goes(c, CallEnd) BY <2>4 DEF Files!Clean, Files!Ends, CallEnd
    <3>2. \/ storage' = storage \ {c} /\ UNCHANGED abandoned
          \/ UNCHANGED storage /\ abandoned' = abandoned \cup {c}
      BY <2>4 DEF Files!Clean
    <3>. QED BY <1>1, <2>1, <3>1, <3>2, FilesEnd
  <2>. QED BY <2>2, <2>3, <2>4
<1>. QED BY <1>2, <1>3

\* A set that is closed under the old edges and has b but not a shows that the new edge
\* from a to b closes no cycle through itself; joined to, or cut with, a set that keeps the
\* source of an old edge from its target, it shows the same of the old one.
LEMMA NewEdge ==
    ASSUME FilesTyped, Files!Acyclic, NEW a \in AssetCall, NEW b \in AssetCall,
           ~Files!Leads(b, a), edges' = edges \cup {<<a, b>>}
    PROVE  Files!Acyclic'
<1> DEFINE Shut(S, E) == \A x \in S, y \in AssetCall : <<x, y>> \in E => y \in S
<1>1. PICK T \in SUBSET AssetCall : b \in T /\ Shut(T, edges) /\ a \notin T
    BY DEF Files!Leads
<1>2. Shut(T, edges') BY <1>1
<1>3. SUFFICES ASSUME NEW x \in AssetCall, NEW y \in AssetCall, <<x, y>> \in edges'
               PROVE  \E S \in SUBSET AssetCall : y \in S /\ Shut(S, edges') /\ x \notin S
    BY DEF Files!Acyclic, Files!Leads
<1>4. CASE <<x, y>> \notin edges
  <2>1. x = a /\ y = b BY <1>3, <1>4
  <2>. QED BY <1>1, <1>2, <2>1
<1>5. CASE <<x, y>> \in edges
  <2>1. PICK S \in SUBSET AssetCall : y \in S /\ Shut(S, edges) /\ x \notin S
    BY <1>5 DEF Files!Acyclic, Files!Leads
  <2>2. CASE x \in T
    <3>1. y \in T BY <1>1, <1>5, <2>2
    <3>2. Shut(S \cap T, edges') BY <1>1, <2>1
    <3>. QED BY <2>1, <3>1, <3>2
  <2>3. CASE x \notin T
    <3>1. Shut(S \cup T, edges') BY <1>1, <2>1
    <3>. QED BY <2>1, <2>3, <3>1
  <2>. QED BY <2>2, <2>3
<1>. QED BY <1>4, <1>5

LEMMA EdgesKeep ==
    ASSUME FilesInv, NEW a \in AssetCall, NEW b \in AssetCall,
           Files!AddDependency(a, b) \/ Files!RemoveDependency(a, b)
    PROVE  FilesInv'
<1>1. UNCHANGED <<assets, checksums, storage, abandoned, asCall, asOverlapped>>
    BY DEF Files!AddDependency, Files!RemoveDependency
<1>2. CASE Files!AddDependency(a, b)
  <2>1. ~Files!Leads(b, a) /\ edges' = edges \cup {<<a, b>>}
    BY <1>2 DEF Files!AddDependency, Files!Closes
  <2>2. Files!Acyclic' BY <2>1, NewEdge DEF FilesInv
  <2>. QED BY <1>1, <2>1, <2>2 DEF FilesInv, FilesTyped, FilesStored, Names, FilesSerial,
              SerialOne, SerialRows, SerialLooked, Files!IndexTrue
<1>3. CASE Files!RemoveDependency(a, b)
  <2>1. edges' = edges \ {<<a, b>>} BY <1>3 DEF Files!RemoveDependency
  <2>2. Files!Acyclic' BY <2>1 DEF FilesInv, Files!Acyclic, Files!Leads
  <2>. QED BY <1>1, <2>1, <2>2 DEF FilesInv, FilesTyped, FilesStored, Names, FilesSerial,
              SerialOne, SerialRows, SerialLooked, Files!IndexTrue
<1>. QED BY <1>2, <1>3

LEMMA FilesStill == ASSUME FilesInv, UNCHANGED Files!vars PROVE FilesInv'
<1>1. UNCHANGED <<assets, checksums, storage, edges, abandoned, asCall, asOverlapped>>
    BY DEF Files!vars
<1>2. FilesTyped' /\ FilesStored' BY <1>1 DEF FilesInv, FilesTyped, FilesStored, Names
<1>3. FilesSerial' BY <1>1 DEF FilesInv, FilesSerial, SerialOne, SerialRows, SerialLooked
<1>4. (Files!IndexTrue /\ Files!Acyclic)'
    BY <1>1 DEF FilesInv, Files!IndexTrue, Files!Acyclic, Files!Leads
<1>. QED BY <1>2, <1>3, <1>4 DEF FilesInv

LEMMA FilesMean == ASSUME FilesAssumption, FilesInv PROVE FilesSound
<1>1. Files!TypeOK BY DEF FilesInv, FilesTyped, Files!TypeOK
<1>2. \A a \in AssetCall : \A f \in assets[a] : f.file \in AssetCall
    BY DEF FilesInv, FilesTyped, AssetRow
<1>3. Files!FilesAccountedFor
  <2> DEFINE named == {f.file : f \in UNION {assets[a] : a \in AssetCall}}
  <2>1. named \subseteq storage BY DEF FilesInv, FilesStored
  <2>2. \A c \in AssetCall : Names(assets, c) => c \in named BY DEF Names
  <2>3. storage \subseteq named \cup Files!Busy \cup abandoned
    <3> SUFFICES ASSUME NEW c \in storage, c \notin Files!Busy, c \notin abandoned PROVE c \in named
      OBVIOUS
    <3>1. c \in AssetCall /\ asCall[c].at \in {"new", "end"} BY DEF FilesInv, FilesTyped, Files!Busy
    <3>2. asCall[c].at = "end" BY <3>1 DEF FilesInv, FilesStored
    <3>3. Names(assets, c) BY <3>1, <3>2 DEF FilesInv, FilesStored
    <3>. QED BY <2>2, <3>1, <3>3
  <2>. QED BY <2>1, <2>3 DEF Files!FilesAccountedFor
<1>4. Files!SerialCallsNoDuplicates
  <2> SUFFICES ASSUME ~asOverlapped, NEW a \in AssetCall, NEW b \in AssetCall,
                      NEW f \in assets[a], NEW g \in assets[b]
               PROVE  /\ f.content = g.content => a = b
                      /\ a = b /\ f.version = g.version => f = g
    BY DEF Files!SerialCallsNoDuplicates
  <2>1. SerialRows BY DEF FilesInv, FilesSerial
  <2>. QED BY <2>1 DEF SerialRows
<1>. QED BY <1>1, <1>3, <1>4 DEF FilesInv, FilesSound

\* AssetService and DependencyGraph, whatever calls overlap and fail: a file is an asset's, a
\* call's or left over, a checksum leads to an asset with that content, serial calls store a
\* content once and number its versions, and dependencies close no cycle.
THEOREM FilesKept ==
    ASSUME FilesAssumption
    PROVE  Files!Spec => []FilesSound
<1>1. ASSUME Files!Init PROVE FilesInv BY <1>1, FilesInit
<1>2. ASSUME FilesInv, [Files!Next]_Files!vars PROVE FilesInv'
  <2>1. ASSUME NEW c \in AssetCall, Files!Step(c) PROVE FilesInv'
    BY <1>2, <2>1, LookKeeps, ReferKeeps, PutFileKeeps, SaveKeeps DEF Files!Step
  <2>2. ASSUME NEW c \in AssetCall, NEW x \in Content, NEW v \in Edition, Files!Upload(c, x, v)
        PROVE  FilesInv'
    BY <1>2, <2>2, BeginsKeeps DEF Files!Upload
  <2>3. ASSUME NEW c \in AssetCall, NEW x \in Content, NEW v \in Edition, NEW a \in Files!Asset,
               Files!AddVersion(c, a, x, v)
        PROVE  FilesInv'
    BY <1>2, <2>3, BeginsKeeps DEF Files!AddVersion, Files!Asset
  <2>4. ASSUME NEW a \in Files!Asset, NEW b \in Files!Asset,
               Files!AddDependency(a, b) \/ Files!RemoveDependency(a, b)
        PROVE  FilesInv'
    BY <1>2, <2>4, EdgesKeep DEF Files!Asset
  <2>. QED BY <1>2, <2>1, <2>2, <2>3, <2>4, FilesStill DEF Files!Next
<1>3. ASSUME FilesInv PROVE FilesSound BY <1>3, FilesMean
<1>. QED BY <1>1, <1>2, <1>3, PTL DEF Files!Spec

-----------------------------------------------------------------------------
\* Cardinalities are those of the same sets in SearchIndex, too.
LEMMA SearchCounts ==
    \A S : Searches!Cardinality(S) = Cardinality(S) /\ (Searches!IsFiniteSet(S) <=> IsFiniteSet(S))
<1>1. \A S : Searches!Cardinality(S) = Cardinality(S)
    BY DEF Searches!Cardinality, Cardinality
<1>2. \A S : Searches!IsFiniteSet(S) <=> IsFiniteSet(S)
    BY DEF Searches!IsFiniteSet, IsFiniteSet
<1>. QED BY <1>1, <1>2

LEMMA SearchEmpty == Searches!IsFiniteSet({}) /\ Searches!Cardinality({}) = 0
<1>1. IsFiniteSet({}) /\ Cardinality({}) = 0
    BY FS_EmptySet
<1>. QED BY <1>1, SearchCounts

LEMMA SearchNumber ==
    ASSUME NEW S, Searches!IsFiniteSet(S)
    PROVE  Searches!Cardinality(S) \in Nat
<1>1. IsFiniteSet(S)
    BY SearchCounts
<1>2. Cardinality(S) \in Nat
    BY <1>1, FS_CardinalityType
<1>. QED BY <1>2, SearchCounts

LEMMA SearchSubset ==
    ASSUME NEW S, Searches!IsFiniteSet(S), NEW T \in SUBSET S
    PROVE  Searches!IsFiniteSet(T) /\ Searches!Cardinality(T) <= Searches!Cardinality(S)
<1>1. IsFiniteSet(S)
    BY SearchCounts
<1>2. IsFiniteSet(T) /\ Cardinality(T) <= Cardinality(S)
    BY <1>1, FS_Subset
<1>. QED BY <1>2, SearchCounts

LEMMA SearchAdd ==
    ASSUME NEW S, NEW x, Searches!IsFiniteSet(S)
    PROVE  /\ Searches!IsFiniteSet(S \cup {x})
           /\ Searches!Cardinality(S \cup {x}) =
                IF x \in S THEN Searches!Cardinality(S) ELSE Searches!Cardinality(S) + 1
<1>1. IsFiniteSet(S)
    BY SearchCounts
<1>2. /\ IsFiniteSet(S \cup {x})
      /\ Cardinality(S \cup {x}) = IF x \in S THEN Cardinality(S) ELSE Cardinality(S) + 1
    BY <1>1, FS_AddElement
<1>. QED BY <1>2, SearchCounts

LEMMA SearchRemove ==
    ASSUME NEW S, NEW x, Searches!IsFiniteSet(S)
    PROVE  /\ Searches!IsFiniteSet(S \ {x})
           /\ Searches!Cardinality(S \ {x}) =
                IF x \in S THEN Searches!Cardinality(S) - 1 ELSE Searches!Cardinality(S)
<1>1. IsFiniteSet(S)
    BY SearchCounts
<1>2. /\ IsFiniteSet(S \ {x})
      /\ Cardinality(S \ {x}) = IF x \in S THEN Cardinality(S) - 1 ELSE Cardinality(S)
    BY <1>1, FS_RemoveElement
<1>. QED BY <1>2, SearchCounts

\* IndexManager: the types of the maps.
SearchTyped ==
    /\ words \in [Work -> SUBSET Word] /\ tokenIndex \in [Word -> SUBSET Work]
    /\ keysOf \in [Work -> SUBSET Tag] /\ keyIndex \in [Tag -> SUBSET Work]
    /\ clash \in BOOLEAN

SearchInv == SearchTyped /\ Searches!IndexesAgree /\ Searches!CacheFresh

\* What a key lists and what lists the key.
Inverses(S, D, idx, of) ==
    /\ idx \in [S -> SUBSET D] /\ of \in [D -> SUBSET S]
    /\ \A p \in D, k \in S : p \in idx[k] <=> k \in of[p]

LEMMA IndexInverses ==
    ASSUME SearchInv
    PROVE  Inverses(Word, Work, tokenIndex, words) /\ Inverses(Tag, Work, keyIndex, keysOf)
BY DEF SearchInv, SearchTyped, Searches!IndexesAgree, Inverses

\* A project that enters one set of entries and leaves another is in the entries of the one.
LEMMA EntersKeep ==
    ASSUME NEW S, NEW D, NEW idx, NEW of, Inverses(S, D, idx, of),
           NEW p \in D, NEW new \in SUBSET S, NEW idx2, NEW of2,
           idx2 = Searches!Entered(idx, p, of[p], new), of2 = [of EXCEPT ![p] = new]
    PROVE  Inverses(S, D, idx2, of2)
<1>. USE DEF Inverses
<1>1. idx2 = [k \in S |-> IF k \in new THEN idx[k] \cup {p}
                         ELSE IF k \in of[p] THEN idx[k] \ {p} ELSE idx[k]]
    BY DEF Searches!Entered
<1>2. idx2 \in [S -> SUBSET D]
    BY <1>1
<1>3. of2 \in [D -> SUBSET S] /\ of2[p] = new /\ \A q \in D : q # p => of2[q] = of[q]
    OBVIOUS
<1>4. ASSUME NEW q \in D, NEW k \in S PROVE q \in idx2[k] <=> k \in of2[q]
  <2>1. q \in idx[k] <=> k \in of[q]
    OBVIOUS
  <2>2. CASE q = p
    BY <1>1, <1>3, <2>1, <2>2
  <2>3. CASE q # p
    BY <1>1, <1>3, <2>1, <2>3
  <2>. QED BY <2>2, <2>3
<1>. QED BY <1>2, <1>3, <1>4

\* What is emitted when the indexes change leaves no old answer, unless it is not heard.
LEMMA EmitKeeps ==
    ASSUME SearchTyped, Searches!CacheFresh, NEW event, Searches!Emit(event)
    PROVE  clash' \in BOOLEAN /\ Searches!CacheFresh'
BY DEF SearchTyped, Searches!CacheFresh, Searches!Emit

LEMMA LiveCounts ==
    ASSUME Searches!IsFiniteSet(Work)
    PROVE  Searches!IsFiniteSet(Searches!Live) /\ Searches!Cardinality(Searches!Live) \in Nat
<1>1. Searches!Live \subseteq Work BY DEF Searches!Live
<1>. QED BY <1>1, SearchSubset, SearchNumber

LEMMA IndexProjectKeeps ==
    ASSUME Searches!IsFiniteSet(Work), SearchInv, NEW p \in Work, NEW ts \in SUBSET Word,
           NEW ks \in SUBSET Tag, ks # {}, Searches!IndexProject(p, ts, ks)
    PROVE  SearchInv'
<1>1. clash' \in BOOLEAN /\ Searches!CacheFresh'
  BY EmitKeeps DEF SearchInv, Searches!IndexProject
<1>2. /\ tokenIndex' = Searches!Entered(tokenIndex, p, words[p], ts) /\ words' = [words EXCEPT ![p] = ts]
      /\ keyIndex' = Searches!Entered(keyIndex, p, keysOf[p], ks) /\ keysOf' = [keysOf EXCEPT ![p] = ks]
    BY DEF Searches!IndexProject
<1>3. Inverses(Word, Work, tokenIndex, words) /\ Inverses(Tag, Work, keyIndex, keysOf)
    BY IndexInverses
<1>4. Inverses(Word, Work, tokenIndex', words') /\ Inverses(Tag, Work, keyIndex', keysOf')
  <2>1. ts \in SUBSET Word /\ ks \in SUBSET Tag
    OBVIOUS
  <2>2. Inverses(Word, Work, tokenIndex', words')
    BY <1>2, <1>3, <2>1, EntersKeep
  <2>3. Inverses(Tag, Work, keyIndex', keysOf')
    BY <1>2, <1>3, <2>1, EntersKeep
  <2>. QED BY <2>2, <2>3
<1>5. total' = Searches!Cardinality(Searches!Live')
  <2>1. Searches!Live' = Searches!Live \cup {p}
    BY <1>2 DEF Searches!Live, SearchInv, SearchTyped
  <2>2. total = Searches!Cardinality(Searches!Live) /\ total' = IF p \in Searches!Live THEN total ELSE total + 1
    BY DEF SearchInv, Searches!IndexesAgree, Searches!IndexProject
  <2>3. Searches!Cardinality(Searches!Live \cup {p}) = IF p \in Searches!Live THEN Searches!Cardinality(Searches!Live) ELSE Searches!Cardinality(Searches!Live) + 1
    BY LiveCounts, SearchAdd
  <2>. QED BY <2>1, <2>2, <2>3
<1>6. SearchTyped' /\ Searches!IndexesAgree'
    BY <1>1, <1>4, <1>5 DEF SearchTyped, Searches!IndexesAgree, Inverses
<1>. QED BY <1>1, <1>6 DEF SearchInv

LEMMA RemoveProjectKeeps ==
    ASSUME Searches!IsFiniteSet(Work), SearchInv, NEW p \in Work, Searches!RemoveProject(p)
    PROVE  SearchInv'
<1>1. clash' \in BOOLEAN /\ Searches!CacheFresh'
  BY EmitKeeps DEF SearchInv, Searches!RemoveProject
<1>2. /\ tokenIndex' = Searches!Entered(tokenIndex, p, words[p], {}) /\ words' = [words EXCEPT ![p] = {}]
      /\ keyIndex' = Searches!Entered(keyIndex, p, keysOf[p], {}) /\ keysOf' = [keysOf EXCEPT ![p] = {}]
    BY DEF Searches!RemoveProject
<1>3. Inverses(Word, Work, tokenIndex, words) /\ Inverses(Tag, Work, keyIndex, keysOf)
    BY IndexInverses
<1>4. Inverses(Word, Work, tokenIndex', words') /\ Inverses(Tag, Work, keyIndex', keysOf')
  <2>1. {} \in SUBSET Word /\ {} \in SUBSET Tag
    OBVIOUS
  <2>2. Inverses(Word, Work, tokenIndex', words')
    BY <1>2, <1>3, <2>1, EntersKeep
  <2>3. Inverses(Tag, Work, keyIndex', keysOf')
    BY <1>2, <1>3, <2>1, EntersKeep
  <2>. QED BY <2>2, <2>3
<1>5. total' = Searches!Cardinality(Searches!Live')
  <2>1. Searches!Live' = Searches!Live \ {p} BY <1>2 DEF Searches!Live, SearchInv, SearchTyped
  <2>2. total = Searches!Cardinality(Searches!Live) /\ total' = IF p \in Searches!Live THEN total - 1 ELSE total
    BY DEF SearchInv, Searches!IndexesAgree, Searches!RemoveProject
  <2>3. Searches!Cardinality(Searches!Live \ {p}) = IF p \in Searches!Live THEN Searches!Cardinality(Searches!Live) - 1 ELSE Searches!Cardinality(Searches!Live)
    BY LiveCounts, SearchRemove
  <2>. QED BY <2>1, <2>2, <2>3
<1>6. SearchTyped' /\ Searches!IndexesAgree'
    BY <1>1, <1>4, <1>5 DEF SearchTyped, Searches!IndexesAgree, Inverses
<1>. QED BY <1>1, <1>6 DEF SearchInv

LEMMA CubeIndexedKeeps ==
    ASSUME SearchInv, NEW p \in Work, NEW x \in Spot, Searches!CubeIndexed(p, x)
    PROVE  SearchInv'
<1>1. clash' \in BOOLEAN /\ Searches!CacheFresh'
  BY EmitKeeps DEF SearchInv, Searches!CubeIndexed
<1>2. UNCHANGED <<words, tokenIndex, keysOf, keyIndex, total>> BY DEF Searches!CubeIndexed
<1>. QED BY <1>1, <1>2 DEF SearchInv, SearchTyped, Searches!IndexesAgree, Searches!Live

LEMMA ReconcileKeeps == ASSUME SearchInv, Searches!Reconcile PROVE SearchInv'
<1>1. clash' \in BOOLEAN /\ Searches!CacheFresh' BY EmitKeeps DEF SearchInv, Searches!Reconcile
<1>2. /\ words' = [p \in Work |-> IF p \in Searches!Live THEN words[p] ELSE {}]
      /\ tokenIndex' = [t \in Word |-> tokenIndex[t] \cap Searches!Live]
      /\ keysOf' = keysOf /\ keyIndex' = keyIndex /\ total' = total
    BY DEF Searches!Reconcile
<1>3. words' \in [Work -> SUBSET Word] /\ tokenIndex' \in [Word -> SUBSET Work]
    BY <1>2 DEF SearchInv, SearchTyped
<1>4. \A p \in Work, t \in Word : p \in tokenIndex'[t] <=> t \in words'[p]
    BY <1>2 DEF SearchInv, Searches!IndexesAgree
<1>5. Searches!Live' = Searches!Live BY <1>2 DEF Searches!Live
<1>6. SearchTyped' BY <1>1, <1>2, <1>3 DEF SearchInv, SearchTyped
<1>7. Searches!IndexesAgree' BY <1>2, <1>4, <1>5 DEF SearchInv, Searches!IndexesAgree
<1>. QED BY <1>1, <1>6, <1>7 DEF SearchInv

\* A search, a forgotten answer and the clock leave the indexes and what they would answer.
LEMMA IndexesStill ==
    ASSUME SearchInv, UNCHANGED <<words, tokenIndex, keysOf, keyIndex, spotOf, total, clash>>,
           \A c \in answers' : c \in answers \/ c.ids = Searches!Answer(c.query)
    PROVE  SearchInv'
<1>1. Searches!Live' = Searches!Live BY DEF Searches!Live
<1>2. \A q : Searches!Answer(q)' = Searches!Answer(q)
  BY DEF Searches!Answer, Searches!Intersection
<1>3. Searches!CacheFresh' BY <1>2 DEF SearchInv, Searches!CacheFresh
<1>4. SearchTyped' BY DEF SearchInv, SearchTyped
<1>5. Searches!IndexesAgree' BY <1>1 DEF SearchInv, Searches!IndexesAgree
<1>. QED BY <1>3, <1>4, <1>5 DEF SearchInv

LEMMA SearchKeeps == ASSUME SearchInv, NEW q \in [tokens : AskedWords, keys : AskedTags, places : AskedSpots], Searches!Search(q) PROVE SearchInv'
<1>1. UNCHANGED <<words, tokenIndex, keysOf, keyIndex, spotOf, total, clash>>
  BY DEF Searches!Search
<1>2. \A c \in answers' : c \in answers \/ c.ids = Searches!Answer(c.query)
  BY DEF Searches!Search
<1>. QED BY <1>1, <1>2, IndexesStill

LEMMA SearchInit == ASSUME Searches!Init PROVE SearchInv
<1>1. SearchTyped /\ Searches!CacheFresh BY DEF Searches!Init, SearchTyped, Searches!CacheFresh
<1>2. Searches!Live = {} BY DEF Searches!Live, Searches!Init
<1>3. Searches!Cardinality({}) = 0 BY SearchEmpty
<1>4. Searches!IndexesAgree BY <1>2, <1>3 DEF Searches!Init, Searches!IndexesAgree
<1>. QED BY <1>1, <1>4 DEF SearchInv

\* IndexManager and SearchEngine: the maps of an index are each other's inverse and count the
\* projects, and a cached answer is the one the indexes give now, unless two changes of a
\* project fell into one millisecond.
THEOREM IndexesKept ==
    ASSUME Searches!IsFiniteSet(Work)
    PROVE  Searches!Spec => []SearchSound
<1>1. ASSUME Searches!Init PROVE SearchInv BY <1>1, SearchInit
<1>2. ASSUME SearchInv, [Searches!Next]_Searches!vars PROVE SearchInv'
  <2>1. CASE Searches!Forget
    <3>1. \A c \in answers' : c \in answers BY <2>1 DEF Searches!Forget
    <3>. QED BY <1>2, <2>1, <3>1, IndexesStill DEF Searches!Forget
  <2>2. CASE Searches!Tick
    <3>1. answers' = answers BY <2>2 DEF Searches!Tick
    <3>. QED BY <1>2, <2>2, <3>1, IndexesStill DEF Searches!Tick
  <2>3. CASE UNCHANGED Searches!vars BY <1>2, <2>3, IndexesStill DEF Searches!vars
  <2>4. CASE \E p \in Work, ts \in SUBSET Word, ks \in (SUBSET Tag) \ {{}} : Searches!IndexProject(p, ts, ks)
    BY <1>2, <2>4, IndexProjectKeeps
  <2>5. CASE \E p \in Work : Searches!RemoveProject(p)
    BY <1>2, <2>5, RemoveProjectKeeps
  <2>6. CASE \E p \in Work, x \in Spot : Searches!CubeIndexed(p, x)
    BY <1>2, <2>6, CubeIndexedKeeps
  <2>7. CASE Searches!Reconcile
    BY <1>2, <2>7, ReconcileKeeps
  <2>8. CASE \E q \in [tokens : AskedWords, keys : AskedTags, places : AskedSpots] : Searches!Search(q)
    BY <1>2, <2>8, SearchKeeps
  <2>. QED BY <1>2, <2>1, <2>2, <2>3, <2>4, <2>5, <2>6, <2>7, <2>8 DEF Searches!Next
<1>3. ASSUME SearchInv PROVE SearchSound BY <1>3 DEF SearchInv, SearchSound
<1>. QED BY <1>1, <1>2, <1>3, PTL DEF Searches!Spec

-----------------------------------------------------------------------------
\* main.ts: an identity that is missing or torn is none that was made.
ProcessAssumption ==
    /\ noIdentity \notin Nat /\ halfIdentity \notin Nat
    /\ MaxBoots \in Nat /\ MaxMisreads \in Nat

\* The identity of the process is what the file holds, and who served did so under it.
ProcessOwned ==
    /\ npRuns \in 0..MaxBoots /\ misreads \in Nat /\ npFile \in {noIdentity, halfIdentity} \union 1..MaxBoots
    /\ served \subseteq 1..MaxBoots
    /\ Program!Alive => identity = npFile /\ identity \in 1..MaxBoots
    /\ misreads = 0 => \A i \in served : npFile = i

\* What runs at which await of bootstrap, and what a stop has left running.
ProcessStarted ==
    Program!Alive =>
        /\ listening => npStage = "serving"
        /\ npStage \in {"mesh", "serving"} => observed
        /\ clients # {} => npStage = "serving"
        /\ npStopping > 0 \/ closing =>
              early \/ (npStage = "serving" /\ ~gossipUp /\ ~pulseUp)
        /\ closing => npStage = "serving" /\ ~listening /\ ~runtimeUp
ProcessOrdered == npStopping \in Nat /\ ProcessStarted /\ Program!CleanExit

\* What the clients of the stream have been sent.
ProcessSent ==
    /\ npTable \subseteq Contact /\ known \subseteq Contact /\ clients \subseteq Browser
    /\ npShown \in [Browser -> Nat] /\ npPulse \in Nat
    /\ believed \in [Browser -> SUBSET Contact] /\ before \in [Browser -> SUBSET Contact]
    /\ Program!StreamCurrent /\ Program!AnnouncedToAll

\* The identity: read, or made and written, at the start, and served under once the server is up.
LEMMA OwnedKept == ASSUME ProcessAssumption, ProcessOwned, [Program!Next]_Program!vars PROVE ProcessOwned'
<1>1. ASSUME UNCHANGED <<Program!identityVars, npRuns>>, Program!Alive' => Program!Alive PROVE ProcessOwned'
  <2>1. UNCHANGED <<npFile, identity, served, misreads, npRuns>>
    BY <1>1 DEF Program!identityVars
  <2>. QED BY <1>1, <2>1 DEF ProcessOwned
<1>2. ASSUME NEW misread \in BOOLEAN, NEW cut \in BOOLEAN, Program!Boot(misread, cut) PROVE ProcessOwned'
  <2>1. npRuns < MaxBoots /\ npRuns' = npRuns + 1 /\ served' = served /\ Program!Resolve(misread, cut)
        /\ exited' = IF cut THEN "killed" ELSE "no"
    BY <1>2 DEF Program!Boot
  <2>2. npRuns' \in 0..MaxBoots /\ npRuns + 1 \in 1..MaxBoots
    BY <2>1 DEF ProcessOwned, ProcessAssumption
  <2>3. CASE npFile \notin {noIdentity, halfIdentity} /\ ~misread
    <3>1. misreads' = misreads /\ identity' = npFile /\ npFile' = npFile
      BY <2>1, <2>3 DEF Program!Resolve, ProcessOwned
    <3>. QED BY <2>1, <2>2, <2>3, <3>1 DEF ProcessOwned, Program!Alive
  <2>4. CASE ~(npFile \notin {noIdentity, halfIdentity} /\ ~misread)
    <3>1. identity' = npRuns + 1 /\ npFile' = IF cut THEN halfIdentity ELSE npRuns + 1
      BY <2>1, <2>4 DEF Program!Resolve
    <3>2. misreads' \in Nat /\ (misreads' = 0 => misreads = 0 /\ npFile \in {noIdentity, halfIdentity})
      BY <2>1, <2>4 DEF Program!Resolve, ProcessOwned
    <3>3. ASSUME misreads' = 0 PROVE served = {}
      BY <3>2, <3>3 DEF ProcessOwned, ProcessAssumption
    <3>. QED BY <2>1, <2>2, <3>1, <3>2, <3>3 DEF ProcessOwned, Program!Alive
  <2>. QED BY <2>3, <2>4
<1>3. ASSUME NEW ok \in BOOLEAN, NEW portFree \in BOOLEAN, Program!MeshStarted(ok, portFree) PROVE ProcessOwned'
  <2>1. /\ Program!Alive /\ UNCHANGED <<npFile, identity, misreads, npRuns>>
        /\ served' = IF portFree THEN served \union {identity} ELSE served
    BY <1>3 DEF Program!MeshStarted
  <2>. QED BY <2>1 DEF ProcessOwned, Program!Alive
<1>4. CASE UNCHANGED Program!vars BY <1>1, <1>4 DEF Program!vars, Program!Alive
<1>5. CASE Program!RuntimeStarted \/ Program!GossipStarted \/ Program!AddressFound
    BY <1>1, <1>5 DEF Program!RuntimeStarted, Program!GossipStarted, Program!AddressFound,
       Program!Alive
<1>6. ASSUME NEW p \in Contact,
             Program!NewPeer(p) \/ Program!PeerDead(p) \/ Program!Goodbye(p) \/ Program!AddPeer(p) \/ Program!MeshMessage(p)
      PROVE  ProcessOwned'
    BY <1>1, <1>6 DEF Program!NewPeer, Program!PeerDead, Program!Goodbye, Program!AddPeer,
       Program!MeshMessage, Program!Alive
<1>7. CASE Program!TickBegins \/ Program!TickEnds
  BY <1>1, <1>7 DEF Program!TickBegins, Program!TickEnds, Program!Alive
<1>8. ASSUME NEW c \in Browser, Program!Connect(c) \/ Program!Disconnect(c) PROVE ProcessOwned'
    BY <1>1, <1>8 DEF Program!Connect, Program!Disconnect, Program!Alive
<1>9. CASE Program!Sigterm \/ Program!GoodbyeSaid \/ Program!Sigint \/ Program!RuntimeStopped
    BY <1>1, <1>9 DEF Program!Sigterm, Program!GoodbyeSaid, Program!Sigint,
       Program!RuntimeStopped, Program!Shutdown, Program!Alive
<1>. QED BY <1>2, <1>3, <1>4, <1>5, <1>6, <1>7, <1>8, <1>9 DEF Program!Next

\* The order of the start, and what a stop leaves.
LEMMA OrderedKept == ASSUME ProcessOrdered, [Program!Next]_Program!vars PROVE ProcessOrdered'
<1>. USE DEF ProcessOrdered, ProcessStarted, Program!CleanExit, Program!Alive
<1>1. ASSUME UNCHANGED <<npRuns, npStage, exited, Program!upVars, Program!stopVars, clients>> PROVE ProcessOrdered'
  <2>1. UNCHANGED <<npRuns, npStage, exited, clients, runtimeUp, gossipUp, pulseUp, observed, listening,
                    npStopping, closing, early>>
    BY <1>1 DEF Program!upVars, Program!stopVars
  <2>. QED BY <2>1
<1>2. ASSUME NEW misread \in BOOLEAN, NEW cut \in BOOLEAN, Program!Boot(misread, cut) PROVE ProcessOrdered'
    BY <1>2 DEF Program!Boot
<1>3. CASE Program!RuntimeStarted
  BY <1>3 DEF Program!RuntimeStarted, Program!stopVars, Program!streamVars
<1>4. CASE Program!GossipStarted
  BY <1>4 DEF Program!GossipStarted, Program!upVars, Program!stopVars, Program!streamVars
<1>5. CASE Program!AddressFound
  BY <1>5 DEF Program!AddressFound, Program!stopVars, Program!streamVars
<1>6. ASSUME NEW ok \in BOOLEAN, NEW portFree \in BOOLEAN, Program!MeshStarted(ok, portFree)
      PROVE  ProcessOrdered'
  <2>1. npStage = "mesh" /\ clients' = clients /\ npStage' = "serving" /\ observed' = observed
        /\ UNCHANGED <<signals, goodbyes, npStopping, closing, early>>
        /\ exited = "no" /\ exited' \in {"no", "failed"}
    BY <1>6 DEF Program!MeshStarted, Program!stopVars, Program!streamVars
  <2>. QED BY <2>1
<1>7. CASE UNCHANGED Program!vars BY <1>1, <1>7 DEF Program!vars, Program!streamVars
<1>8. ASSUME NEW p \in Contact,
             Program!NewPeer(p) \/ Program!PeerDead(p) \/ Program!Goodbye(p) \/ Program!AddPeer(p) \/ Program!MeshMessage(p)
      PROVE  ProcessOrdered'
    BY <1>1, <1>8 DEF Program!NewPeer, Program!PeerDead, Program!Goodbye, Program!AddPeer,
       Program!MeshMessage, Program!streamVars
<1>9. CASE Program!TickBegins
  BY <1>9 DEF Program!TickBegins, Program!stopVars, Program!streamVars
<1>10. CASE Program!TickEnds BY <1>10 DEF Program!TickEnds, Program!stopVars
<1>11. ASSUME NEW c \in Browser, Program!Connect(c) PROVE ProcessOrdered'
    BY <1>11 DEF Program!Connect, Program!upVars, Program!stopVars
<1>12. ASSUME NEW c \in Browser, Program!Disconnect(c) PROVE ProcessOrdered'
  <2>1. /\ c \in clients /\ clients' = clients \ {c} /\ exited = "no"
        /\ exited' = IF closing /\ clients = {c} THEN "stopped" ELSE "no"
        /\ UNCHANGED <<npRuns, npStage, runtimeUp, gossipUp, pulseUp, observed, listening,
                       npStopping, closing, early>>
    BY <1>12 DEF Program!Disconnect, Program!upVars, Program!stopVars
  <2>. QED BY <2>1
<1>13. CASE Program!Sigterm BY <1>13 DEF Program!Sigterm, Program!upVars, Program!streamVars
<1>14. ASSUME Program!Shutdown, Program!Alive PROVE ProcessOrdered'
  <2>1. /\ ~gossipUp' /\ ~pulseUp' /\ npStopping' = npStopping + 1
        /\ UNCHANGED <<npRuns, npStage, exited, runtimeUp, observed, listening, closing, clients>>
    BY <1>14 DEF Program!Shutdown, Program!streamVars
  <2>2. early' <=> (early \/ npStage # "serving")
    BY <1>14 DEF Program!Shutdown
  <2>. QED BY <1>14, <2>1, <2>2
<1>15. CASE Program!GoodbyeSaid \/ Program!Sigint
  BY <1>14, <1>15 DEF Program!GoodbyeSaid, Program!Sigint
<1>16. CASE Program!RuntimeStopped
  <2>1. /\ exited = "no" /\ npStopping > 0 /\ npStopping' = npStopping - 1
        /\ ~runtimeUp' /\ ~listening' /\ closing'
        /\ exited' = IF clients = {} THEN "stopped" ELSE "no"
        /\ UNCHANGED <<npRuns, npStage, gossipUp, pulseUp, observed, early, clients>>
    BY <1>16 DEF Program!RuntimeStopped, Program!streamVars
  <2>. QED BY <2>1
<1>. QED BY <1>2, <1>3, <1>4, <1>5, <1>6, <1>7, <1>8, <1>9, <1>10, <1>11, <1>12, <1>13, <1>15,
            <1>16 DEF Program!Next

\* What a client has been sent.
LEMMA SentKept == ASSUME ProcessSent, [Program!Next]_Program!vars PROVE ProcessSent'
<1>1. ASSUME UNCHANGED <<npTable, known, clients, npShown, npPulse, believed, before>> PROVE ProcessSent'
    BY <1>1 DEF ProcessSent, Program!StreamCurrent, Program!AnnouncedToAll
<1>2. ASSUME NEW misread \in BOOLEAN, NEW cut \in BOOLEAN, Program!Boot(misread, cut) PROVE ProcessSent'
    BY <1>2 DEF Program!Boot, ProcessSent, Program!StreamCurrent, Program!AnnouncedToAll
<1>3. ASSUME NEW p \in Contact, NEW a \in BOOLEAN, Program!Emit(p, a)
      PROVE  /\ believed' \in [Browser -> SUBSET Contact]
             /\ \A c \in clients : believed'[c] = IF a THEN believed[c] \union {p}
                                                  ELSE believed[c] \ {p}
  <2>1. believed \in [Browser -> SUBSET Contact] /\ clients \subseteq Browser BY DEF ProcessSent
  <2>2. believed' = [c \in Browser |-> IF c \notin clients THEN believed[c]
                       ELSE IF a THEN believed[c] \union {p} ELSE believed[c] \ {p}]
    BY <1>3 DEF Program!Emit
  <2>. QED BY <2>1, <2>2
<1>4. ASSUME NEW p \in Contact, npTable' \subseteq Contact, UNCHANGED <<npPulse, clients, npShown, before>>,
             believed' \in [Browser -> SUBSET Contact], known' \subseteq Contact,
             \A c \in clients : known' \subseteq believed'[c] \union before[c]
      PROVE  ProcessSent'
    BY <1>4 DEF ProcessSent, Program!StreamCurrent, Program!AnnouncedToAll
<1>5. ASSUME NEW p \in Contact, Program!NewPeer(p) PROVE ProcessSent'
  <2>1. /\ npTable' = npTable \union {p} /\ known' = known \union {p}
        /\ UNCHANGED <<npPulse, clients, npShown, before>>
    BY <1>5 DEF Program!NewPeer
  <2>2. CASE p \in known
    <3>1. believed' = believed BY <1>5, <2>2 DEF Program!NewPeer
    <3>. QED BY <1>4, <2>1, <2>2, <3>1 DEF ProcessSent, Program!AnnouncedToAll
  <2>3. CASE p \notin known
    <3>1. Program!Emit(p, TRUE) BY <1>5, <2>3 DEF Program!NewPeer
    <3>2. /\ believed' \in [Browser -> SUBSET Contact]
          /\ \A c \in clients : believed'[c] = believed[c] \union {p}
      BY <1>3, <3>1
    <3>. QED BY <1>4, <2>1, <3>2 DEF ProcessSent, Program!AnnouncedToAll
  <2>. QED BY <2>2, <2>3
<1>6. ASSUME NEW p \in Contact, Program!PeerDead(p) PROVE ProcessSent'
  <2>1. /\ npTable' = npTable \ {p} /\ known' = known \ {p} /\ Program!Emit(p, FALSE)
        /\ UNCHANGED <<npPulse, clients, npShown, before>>
    BY <1>6 DEF Program!PeerDead
  <2>2. /\ believed' \in [Browser -> SUBSET Contact]
        /\ \A c \in clients : believed'[c] = believed[c] \ {p}
    BY <1>3, <2>1
  <2>. QED BY <1>4, <2>1, <2>2 DEF ProcessSent, Program!AnnouncedToAll
<1>7. ASSUME NEW p \in Contact, Program!Goodbye(p) \/ Program!AddPeer(p) PROVE ProcessSent'
  <2>1. /\ npTable' \subseteq npTable \union {p} /\ known' = known \ {p}
        /\ UNCHANGED <<npPulse, clients, npShown, before, believed>>
    BY <1>7 DEF Program!Goodbye, Program!AddPeer, Program!streamVars
  <2>. QED BY <1>4, <2>1 DEF ProcessSent, Program!AnnouncedToAll
<1>8. ASSUME NEW p \in Contact, Program!MeshMessage(p) PROVE ProcessSent'
  <2>1. /\ npTable' = npTable \union {p} /\ known' = known /\ Program!Emit(p, TRUE)
        /\ UNCHANGED <<npPulse, clients, npShown, before>>
    BY <1>8 DEF Program!MeshMessage
  <2>2. /\ believed' \in [Browser -> SUBSET Contact]
        /\ \A c \in clients : believed'[c] = believed[c] \union {p}
    BY <1>3, <2>1
  <2>. QED BY <1>4, <2>1, <2>2 DEF ProcessSent, Program!AnnouncedToAll
<1>9. CASE Program!TickEnds
  <2>1. /\ npPulse' = npPulse + 1 /\ UNCHANGED <<npTable, known, clients, believed, before>>
        /\ npShown' = [c \in Browser |-> IF c \in clients THEN npPulse + 1 ELSE npShown[c]]
    BY <1>9 DEF Program!TickEnds, Program!peerVars
  <2>. QED BY <2>1 DEF ProcessSent, Program!StreamCurrent, Program!AnnouncedToAll
<1>10. ASSUME NEW c \in Browser, Program!Connect(c) PROVE ProcessSent'
  <2>1. /\ clients' = clients \union {c} /\ UNCHANGED <<npTable, known, npPulse>>
        /\ npShown' = [npShown EXCEPT ![c] = npPulse] /\ believed' = [believed EXCEPT ![c] = {}]
        /\ before' = [before EXCEPT ![c] = known]
    BY <1>10 DEF Program!Connect, Program!peerVars
  <2>2. /\ npShown' \in [Browser -> Nat] /\ believed' \in [Browser -> SUBSET Contact]
        /\ before' \in [Browser -> SUBSET Contact]
    BY <2>1 DEF ProcessSent
  <2>3. /\ npShown'[c] = npPulse /\ before'[c] = known
        /\ \A d \in Browser : d # c =>
              npShown'[d] = npShown[d] /\ believed'[d] = believed[d] /\ before'[d] = before[d]
    BY <2>1 DEF ProcessSent
  <2>. QED BY <2>1, <2>2, <2>3 DEF ProcessSent, Program!StreamCurrent, Program!AnnouncedToAll
<1>11. ASSUME NEW c \in Browser, Program!Disconnect(c) PROVE ProcessSent'
    BY <1>11 DEF Program!Disconnect, Program!peerVars, ProcessSent, Program!StreamCurrent,
       Program!AnnouncedToAll
<1>12. CASE UNCHANGED Program!vars
  BY <1>1, <1>12 DEF Program!vars, Program!peerVars, Program!streamVars
<1>13. CASE Program!RuntimeStarted \/ Program!GossipStarted \/ Program!AddressFound
    BY <1>1, <1>13 DEF Program!RuntimeStarted, Program!GossipStarted, Program!AddressFound,
       Program!peerVars, Program!streamVars
<1>14. ASSUME NEW ok \in BOOLEAN, NEW portFree \in BOOLEAN, Program!MeshStarted(ok, portFree) PROVE ProcessSent'
    BY <1>1, <1>14 DEF Program!MeshStarted, Program!peerVars, Program!streamVars
<1>15. CASE Program!TickBegins
  BY <1>1, <1>15 DEF Program!TickBegins, Program!peerVars, Program!streamVars
<1>16. CASE Program!Sigterm \/ Program!GoodbyeSaid \/ Program!Sigint \/ Program!RuntimeStopped
    BY <1>1, <1>16 DEF Program!Sigterm, Program!GoodbyeSaid, Program!Sigint,
       Program!RuntimeStopped, Program!Shutdown, Program!peerVars, Program!streamVars
<1>. QED BY <1>2, <1>5, <1>6, <1>7, <1>8, <1>9, <1>10, <1>11, <1>12, <1>13, <1>14, <1>15, <1>16
         DEF Program!Next

LEMMA ProcessInit == ASSUME ProcessAssumption, Program!Init PROVE ProcessOwned /\ ProcessOrdered /\ ProcessSent
<1>1. ProcessOwned BY DEF Program!Init, ProcessOwned, Program!Alive, ProcessAssumption
<1>2. ProcessOrdered
  BY DEF Program!Init, ProcessOrdered, ProcessStarted, Program!CleanExit, Program!Alive
<1>3. npShown \in [Browser -> Nat] /\ believed \in [Browser -> SUBSET Contact] /\ before \in [Browser -> SUBSET Contact]
    BY DEF Program!Init
<1>4. ProcessSent
  BY <1>3 DEF Program!Init, ProcessSent, Program!StreamCurrent, Program!AnnouncedToAll
<1>. QED BY <1>1, <1>2, <1>4

\* main.ts, through starts, kills and stops at any await: the identity is kept while the file
\* is readable, requests find what they need, every client of the stream has been sent the
\* pulse and the peers there are, and a stop that overtook no start leaves nothing running.
THEOREM ProcessKept ==
    ASSUME ProcessAssumption
    PROVE  Program!Spec => []NodeSound
<1> DEFINE ProcessInv == ProcessOwned /\ ProcessOrdered /\ ProcessSent
<1>1. ASSUME Program!Init PROVE ProcessInv BY <1>1, ProcessInit
<1>2. ASSUME ProcessInv, [Program!Next]_Program!vars PROVE ProcessInv'
  BY <1>2, OwnedKept, OrderedKept, SentKept
<1>3. ASSUME ProcessInv PROVE NodeSound
  <2>1. Program!TypeOK BY <1>3 DEF ProcessOwned, ProcessSent, Program!TypeOK
  <2>2. Program!IdentityKept BY <1>3 DEF ProcessOwned, Program!IdentityKept
  <2>3. Program!RequestsReady BY <1>3 DEF ProcessOrdered, ProcessStarted, Program!RequestsReady
  <2>. QED BY <1>3, <2>1, <2>2, <2>3 DEF ProcessOrdered, ProcessSent, NodeSound
<1>. QED BY <1>1, <1>2, <1>3, PTL DEF Program!Spec

-----------------------------------------------------------------------------
\* And in Dashboard.
LEMMA PageCounts ==
    \A S : Pages!Cardinality(S) = Cardinality(S) /\ (Pages!IsFiniteSet(S) <=> IsFiniteSet(S))
<1>1. \A S : Pages!Cardinality(S) = Cardinality(S)
    BY DEF Pages!Cardinality, Cardinality
<1>2. \A S : Pages!IsFiniteSet(S) <=> IsFiniteSet(S)
    BY DEF Pages!IsFiniteSet, IsFiniteSet
<1>. QED BY <1>1, <1>2

LEMMA PageEmpty == Pages!IsFiniteSet({}) /\ Pages!Cardinality({}) = 0
<1>1. IsFiniteSet({}) /\ Cardinality({}) = 0
    BY FS_EmptySet
<1>. QED BY <1>1, PageCounts

LEMMA PageNumber ==
    ASSUME NEW S, Pages!IsFiniteSet(S)
    PROVE  Pages!Cardinality(S) \in Nat
<1>1. IsFiniteSet(S)
    BY PageCounts
<1>2. Cardinality(S) \in Nat
    BY <1>1, FS_CardinalityType
<1>. QED BY <1>2, PageCounts

LEMMA PageAdd ==
    ASSUME NEW S, NEW x, Pages!IsFiniteSet(S)
    PROVE  /\ Pages!IsFiniteSet(S \cup {x})
           /\ Pages!Cardinality(S \cup {x}) =
                IF x \in S THEN Pages!Cardinality(S) ELSE Pages!Cardinality(S) + 1
<1>1. IsFiniteSet(S)
    BY PageCounts
<1>2. /\ IsFiniteSet(S \cup {x})
      /\ Cardinality(S \cup {x}) = IF x \in S THEN Cardinality(S) ELSE Cardinality(S) + 1
    BY <1>1, FS_AddElement
<1>. QED BY <1>2, PageCounts

LEMMA PageRemove ==
    ASSUME NEW S, NEW x, Pages!IsFiniteSet(S)
    PROVE  /\ Pages!IsFiniteSet(S \ {x})
           /\ Pages!Cardinality(S \ {x}) =
                IF x \in S THEN Pages!Cardinality(S) - 1 ELSE Pages!Cardinality(S)
<1>1. IsFiniteSet(S)
    BY PageCounts
<1>2. /\ IsFiniteSet(S \ {x})
      /\ Cardinality(S \ {x}) = IF x \in S THEN Cardinality(S) - 1 ELSE Cardinality(S)
    BY <1>1, FS_RemoveElement
<1>. QED BY <1>2, PageCounts

\* The pages: no answer is no pulse.
PagesAssumption == noIdentity \notin Int /\ MaxListed \in Nat /\ MaxAsked \in Nat

RefreshRecord == [at : {"health", "ranking"}, got : Nat \cup {noIdentity}]

\* Polls under way were asked for and are finitely many; refreshes are numbered as asked.
PagesTyped ==
    /\ asked \in 0..MaxAsked /\ pending \subseteq 1..asked /\ Pages!IsFiniteSet(pending)
    /\ label \in {"active", "offline"} /\ listedPeers \in 0..MaxListed /\ crashed \in BOOLEAN
    /\ failCount \in Nat /\ silent \in Nat
    /\ typed \in Nat /\ twoTyped \in BOOLEAN
    /\ pgPulse \in Nat /\ newest \in Nat /\ overtaken \in BOOLEAN
    /\ DOMAIN refreshes \subseteq 1..asked /\ refreshes \in [DOMAIN refreshes -> RefreshRecord]

\* A failure is of a poll that is no longer under way.
FailuresAsked == failCount + Pages!Cardinality(pending) <= asked
Failures == ~crashed => failCount = silent /\ (label = "offline" <=> silent >= 3)
\* Unless two queries were under way at once, only the last one typed is, and shown.
LastSearched == ~twoTyped => results.of = typed /\ searching \subseteq {typed}

\* The answers on their way are in order, and none is older than what is shown.
AnswersInOrder ==
    /\ newest <= pgPulse
    /\ \A r \in DOMAIN refreshes : refreshes[r].got # noIdentity => refreshes[r].got <= pgPulse
    /\ ~overtaken =>
        /\ number # noIdentity => number = newest
        /\ \A r \in DOMAIN refreshes :
              refreshes[r].at = "health" /\ refreshes[r].got # noIdentity => refreshes[r].got >= newest
        /\ \A r, s \in DOMAIN refreshes :
              r < s /\ refreshes[s].got # noIdentity =>
                  refreshes[r].got # noIdentity /\ refreshes[r].got <= refreshes[s].got

PagesInv == PagesTyped /\ FailuresAsked /\ Failures /\ LastSearched /\ AnswersInOrder

LEMMA PagesInit == ASSUME PagesAssumption, Pages!Init PROVE PagesInv
<1>1. refreshes = [r \in {} |-> noIdentity] /\ DOMAIN refreshes = {} BY DEF Pages!Init
<1>2. Pages!IsFiniteSet({}) /\ Pages!Cardinality({}) = 0 BY PageEmpty
<1>3. PagesTyped
  <2>1. refreshes \in [DOMAIN refreshes -> RefreshRecord] BY <1>1
  <2>2. asked \in 0..MaxAsked /\ listedPeers \in 0..MaxListed BY DEF Pages!Init, PagesAssumption
  <2>3. pending = {} /\ asked = 0 BY DEF Pages!Init
  <2>4. label \in {"active", "offline"} /\ crashed \in BOOLEAN /\ failCount \in Nat /\ silent \in Nat
    BY DEF Pages!Init
  <2>5. /\ typed \in Nat /\ twoTyped \in BOOLEAN
        /\ pgPulse \in Nat /\ newest \in Nat /\ overtaken \in BOOLEAN
    BY DEF Pages!Init
  <2>. QED BY <1>1, <1>2, <2>1, <2>2, <2>3, <2>4, <2>5 DEF PagesTyped
<1>4. FailuresAsked BY <1>2 DEF Pages!Init, FailuresAsked
<1>5. Failures /\ LastSearched BY DEF Pages!Init, Failures, LastSearched
<1>6. AnswersInOrder BY <1>1 DEF Pages!Init, AnswersInOrder
<1>. QED BY <1>3, <1>4, <1>5, <1>6 DEF PagesInv

LEMMA PollKeeps == ASSUME PagesAssumption, PagesInv, Pages!Poll PROVE PagesInv'
<1>1. /\ asked < MaxAsked /\ asked' = asked + 1 /\ pending' = pending \cup {asked + 1}
      /\ UNCHANGED <<page, label, listedPeers, failCount, silent, crashed>>
      /\ UNCHANGED <<typed, searching, results, twoTyped>>
      /\ UNCHANGED <<pgPulse, refreshes, dot, number, newest, overtaken>>
    BY DEF Pages!Poll, Pages!searchVars, Pages!appVars
<1>2. asked \in Nat /\ pending \subseteq 1..asked /\ Pages!IsFiniteSet(pending) /\ asked + 1 \notin pending
    BY DEF PagesInv, PagesTyped, PagesAssumption
<1>3. Pages!Cardinality(pending \cup {asked + 1}) = Pages!Cardinality(pending) + 1
      /\ Pages!IsFiniteSet(pending \cup {asked + 1}) /\ Pages!Cardinality(pending) \in Nat
    BY <1>2, PageAdd, PageNumber
<1>4. PagesTyped'
  <2>1. pending' \subseteq 1..asked' /\ asked' \in 0..MaxAsked /\ Pages!IsFiniteSet(pending')
    BY <1>1, <1>2, <1>3 DEF PagesAssumption
  <2>2. DOMAIN refreshes \subseteq 1..asked' BY <1>1, <1>2 DEF PagesInv, PagesTyped
  <2>. QED BY <1>1, <2>1, <2>2 DEF PagesInv, PagesTyped
<1>5. FailuresAsked' BY <1>1, <1>2, <1>3 DEF PagesInv, PagesTyped, FailuresAsked
<1>6. Failures' /\ LastSearched' /\ AnswersInOrder'
  BY <1>1 DEF PagesInv, Failures, LastSearched, AnswersInOrder
<1>. QED BY <1>4, <1>5, <1>6 DEF PagesInv

LEMMA CheckHealthKeeps == ASSUME PagesAssumption, PagesInv, NEW p \in pending, Pages!CheckHealth(p) PROVE PagesInv'
<1>1. /\ pending' = pending \ {p}
      /\ UNCHANGED <<page, asked>> /\ UNCHANGED <<typed, searching, results, twoTyped>>
      /\ UNCHANGED <<pgPulse, refreshes, dot, number, newest, overtaken>>
    BY DEF Pages!CheckHealth, Pages!searchVars, Pages!appVars
<1>2. /\ Pages!Cardinality(pending \ {p}) = Pages!Cardinality(pending) - 1 /\ Pages!IsFiniteSet(pending \ {p})
      /\ Pages!Cardinality(pending) \in Nat
    BY PageRemove, PageNumber DEF PagesInv, PagesTyped
<1>3. LastSearched' /\ AnswersInOrder' BY <1>1 DEF PagesInv, LastSearched, AnswersInOrder
<1>4. /\ label' \in {"active", "offline"} /\ listedPeers' \in 0..MaxListed /\ crashed' \in BOOLEAN
      /\ failCount' \in Nat /\ silent' \in Nat /\ failCount' <= failCount + 1
      /\ Failures'
  <2>1. CASE \E n \in 0..MaxListed : Pages!HealthArrives(n)
    <3>1. PICK n \in 0..MaxListed : Pages!HealthArrives(n) BY <2>1
    <3>2. listedPeers' = (IF n = 0 THEN listedPeers ELSE n) /\ silent' = 0
      BY <3>1 DEF Pages!HealthArrives
    <3>3. listedPeers' \in 0..MaxListed BY <3>2 DEF PagesInv, PagesTyped
    <3>4. CASE Pages!Renders(listedPeers')
      <4>1. failCount' = 0 /\ label' = "active" /\ crashed' = crashed
        BY <3>1, <3>2, <3>4 DEF Pages!HealthArrives, Pages!Labelled
      <4>. QED BY <3>2, <3>3, <4>1 DEF PagesInv, PagesTyped, Failures
    <3>5. CASE ~Pages!Renders(listedPeers')
      <4>1. failCount' = failCount + 1 /\ crashed' = TRUE /\ label' \in {"active", "offline"}
        BY <3>1, <3>2, <3>5 DEF Pages!HealthArrives, Pages!Labelled
      <4>. QED BY <3>2, <3>3, <4>1 DEF PagesInv, PagesTyped, Failures
    <3>. QED BY <3>4, <3>5
  <2>2. CASE Pages!PollFailed /\ silent' = silent + 1 /\ UNCHANGED <<listedPeers, crashed>>
    <3>1. /\ failCount' = failCount + 1 /\ silent' = silent + 1 /\ crashed' = crashed
          /\ listedPeers' = listedPeers
          /\ label' = IF failCount + 1 >= 3 THEN "offline" ELSE label
      BY <2>2 DEF Pages!PollFailed, Pages!Labelled
    <3>. QED BY <3>1 DEF PagesInv, PagesTyped, Failures
  <2>. QED BY <2>1, <2>2 DEF Pages!CheckHealth
<1>5. FailuresAsked'
  <2>1. failCount + Pages!Cardinality(pending) <= asked /\ failCount \in Nat /\ asked \in Nat
    BY DEF PagesInv, PagesTyped, FailuresAsked, PagesAssumption
  <2>. QED BY <1>1, <1>2, <1>4, <2>1 DEF FailuresAsked
<1>6. PagesTyped' BY <1>1, <1>2, <1>4 DEF PagesInv, PagesTyped
<1>. QED BY <1>3, <1>4, <1>5, <1>6 DEF PagesInv

\* A step of the search leaves the polls and the refreshes.
LEMMA SearchingKeepsPages ==
    ASSUME PagesInv, UNCHANGED <<page, Pages!healthVars, Pages!appVars>>, typed' \in Nat, twoTyped' \in BOOLEAN,
           LastSearched'
    PROVE  PagesInv'
<1>1. /\ UNCHANGED <<asked, pending, label, listedPeers, failCount, silent, crashed>>
      /\ UNCHANGED <<pgPulse, refreshes, dot, number, newest, overtaken>>
    BY DEF Pages!healthVars, Pages!appVars
<1>. QED BY <1>1 DEF PagesInv, PagesTyped, FailuresAsked, Failures, AnswersInOrder

LEMMA DoSearchKeeps == ASSUME PagesInv, Pages!DoSearch PROVE PagesInv'
<1>1. /\ typed' = typed + 1 /\ searching' = searching \cup {typed + 1}
      /\ twoTyped' = (twoTyped \/ searching # {}) /\ results'.of = typed + 1
      /\ UNCHANGED <<page, Pages!healthVars, Pages!appVars>>
    BY DEF Pages!DoSearch
<1>2. typed' \in Nat /\ twoTyped' \in BOOLEAN BY <1>1 DEF PagesInv, PagesTyped
<1>3. LastSearched' BY <1>1 DEF PagesInv, LastSearched
<1>. QED BY <1>1, <1>2, <1>3, SearchingKeepsPages

LEMMA SearchAnsweredKeeps ==
    ASSUME PagesInv, NEW q \in searching, NEW kind, Pages!SearchAnswered(q, kind) PROVE PagesInv'
<1>1. /\ searching' = searching \ {q} /\ results'.of = q /\ typed' = typed
      /\ twoTyped' = twoTyped /\ UNCHANGED <<page, Pages!healthVars, Pages!appVars>>
    BY DEF Pages!SearchAnswered, Pages!healthVars, Pages!appVars
<1>2. typed' \in Nat /\ twoTyped' \in BOOLEAN BY <1>1 DEF PagesInv, PagesTyped
<1>3. LastSearched' BY <1>1 DEF PagesInv, LastSearched
<1>. QED BY <1>1, <1>2, <1>3, SearchingKeepsPages

\* A step of the other page leaves polls and searches.
LEMMA AppKeepsPages ==
    ASSUME PagesAssumption, PagesInv, UNCHANGED <<pending, label, listedPeers, failCount,
    silent, crashed>>,
           UNCHANGED Pages!searchVars, asked' \in 0..MaxAsked, asked <= asked',
           pgPulse' \in Nat, newest' \in Nat, overtaken' \in BOOLEAN,
           DOMAIN refreshes' \subseteq 1..asked', refreshes' \in [DOMAIN refreshes' -> RefreshRecord],
           AnswersInOrder'
    PROVE  PagesInv'
<1>1. UNCHANGED <<typed, searching, results, twoTyped>> BY DEF Pages!searchVars
<1>2. asked \in Nat /\ asked' \in Nat /\ pending \subseteq 1..asked /\ Pages!IsFiniteSet(pending)
    BY DEF PagesInv, PagesTyped, PagesAssumption
<1>3. Pages!Cardinality(pending) \in Nat BY <1>2, PageNumber
<1>4. pending' \subseteq 1..asked' BY <1>2
<1>5. PagesTyped' BY <1>1, <1>4 DEF PagesInv, PagesTyped
<1>6. FailuresAsked' BY <1>2, <1>3 DEF PagesInv, PagesTyped, FailuresAsked
<1>7. Failures' /\ LastSearched' BY <1>1 DEF PagesInv, Failures, LastSearched
<1>. QED BY <1>5, <1>6, <1>7 DEF PagesInv

LEMMA RefreshKeeps == ASSUME PagesAssumption, PagesInv, Pages!Refresh PROVE PagesInv'
<1>1. PICK n : n = asked + 1
    OBVIOUS
<1>2. /\ asked < MaxAsked /\ asked' = n
      /\ refreshes' = [r \in DOMAIN refreshes \cup {n} |->
                          IF r = n THEN [at |-> "health", got |-> noIdentity] ELSE refreshes[r]]
      /\ UNCHANGED <<pending, label, listedPeers, failCount, silent, crashed>> /\ UNCHANGED Pages!searchVars
      /\ UNCHANGED <<pgPulse, dot, number, newest, overtaken>>
    BY <1>1 DEF Pages!Refresh
<1>3. asked \in Nat /\ n \in Nat /\ asked' \in 0..MaxAsked /\ asked <= n
    BY <1>1, <1>2 DEF PagesInv, PagesTyped, PagesAssumption
<1>4. \A r \in DOMAIN refreshes : r \in Nat /\ r < n
    BY <1>1, <1>3 DEF PagesInv, PagesTyped
<1>5. DOMAIN refreshes' = DOMAIN refreshes \cup {n} /\ DOMAIN refreshes' \subseteq 1..n
    BY <1>1, <1>2, <1>3 DEF PagesInv, PagesTyped
<1>6. [at |-> "health", got |-> noIdentity] \in RefreshRecord BY DEF RefreshRecord
<1>7. refreshes' \in [DOMAIN refreshes' -> RefreshRecord]
  BY <1>2, <1>5, <1>6 DEF PagesInv, PagesTyped
<1>8. refreshes'[n].got = noIdentity /\ \A r \in DOMAIN refreshes : refreshes'[r] = refreshes[r]
    BY <1>2, <1>4
<1>9. AnswersInOrder'
  <2>1. newest' <= pgPulse' BY <1>2 DEF PagesInv, AnswersInOrder
  <2>2. \A r \in DOMAIN refreshes' : refreshes'[r].got # noIdentity => refreshes'[r].got <= pgPulse'
    BY <1>2, <1>5, <1>8 DEF PagesInv, AnswersInOrder
  <2>3. ASSUME ~overtaken'
        PROVE  /\ number' # noIdentity => number' = newest'
               /\ \A r \in DOMAIN refreshes' :
                    refreshes'[r].at = "health" /\ refreshes'[r].got # noIdentity =>
                        refreshes'[r].got >= newest'
    BY <1>2, <1>5, <1>8, <2>3 DEF PagesInv, AnswersInOrder
  <2>4. ASSUME ~overtaken', NEW r \in DOMAIN refreshes', NEW s \in DOMAIN refreshes', r < s,
               refreshes'[s].got # noIdentity
        PROVE  refreshes'[r].got # noIdentity /\ refreshes'[r].got <= refreshes'[s].got
    <3>1. s # n BY <1>8, <2>4
    <3>2. s \in DOMAIN refreshes /\ r # n BY <1>3, <1>4, <1>5, <2>4, <3>1
    <3>3. r \in DOMAIN refreshes BY <1>5, <3>2
    <3>. QED BY <1>2, <1>8, <2>4, <3>2, <3>3 DEF PagesInv, AnswersInOrder
  <2>. QED BY <2>1, <2>2, <2>3, <2>4 DEF AnswersInOrder
<1>10. pgPulse' \in Nat /\ newest' \in Nat /\ overtaken' \in BOOLEAN
  BY <1>2 DEF PagesInv, PagesTyped
<1>. QED BY <1>2, <1>3, <1>5, <1>7, <1>9, <1>10, AppKeepsPages

\* What the other steps of the page leave.
LEMMA PagesStill ==
    ASSUME PagesAssumption, PagesInv
    PROVE  asked \in 0..MaxAsked /\ asked <= asked
BY DEF PagesInv, PagesTyped, PagesAssumption

LEMMA NodeAnswersKeeps ==
    ASSUME PagesAssumption, PagesInv, NEW r \in DOMAIN refreshes, Pages!NodeAnswers(r) PROVE PagesInv'
<1>1. /\ refreshes[r].at = "health" /\ refreshes[r].got = noIdentity
      /\ refreshes' = [refreshes EXCEPT ![r].got = pgPulse]
      /\ overtaken' = (overtaken \/ \E s \in DOMAIN refreshes : s < r /\ refreshes[s].got = noIdentity)
      /\ UNCHANGED <<page, pgPulse, dot, number, newest>>
      /\ UNCHANGED <<asked, pending, label, listedPeers, failCount, silent, crashed>>
      /\ UNCHANGED Pages!searchVars
    BY DEF Pages!NodeAnswers, Pages!healthVars
<1>2. pgPulse \in Nat /\ newest \in Nat /\ overtaken' \in BOOLEAN /\ newest <= pgPulse
    BY <1>1 DEF PagesInv, PagesTyped, AnswersInOrder
<1>3. refreshes[r] \in RefreshRecord /\ DOMAIN refreshes' = DOMAIN refreshes
    BY <1>1 DEF PagesInv, PagesTyped
<1>4. refreshes'[r] = [refreshes[r] EXCEPT !.got = pgPulse] BY <1>1
<1>5. refreshes'[r] \in RefreshRecord /\ refreshes'[r].got = pgPulse /\ pgPulse # noIdentity
    BY <1>2, <1>3, <1>4 DEF RefreshRecord, PagesAssumption
<1>6. \A s \in DOMAIN refreshes : s # r => refreshes'[s] = refreshes[s] BY <1>1
<1>7. refreshes' \in [DOMAIN refreshes' -> RefreshRecord]
    BY <1>1, <1>3, <1>5, <1>6 DEF PagesInv, PagesTyped
<1>8. \A s, t \in DOMAIN refreshes : s \in Nat /\ t \in Nat /\ refreshes[s].got \in Nat \cup {noIdentity}
    BY DEF PagesInv, PagesTyped, RefreshRecord
<1>9. AnswersInOrder'
  <2>1. \A s \in DOMAIN refreshes' : refreshes'[s].got # noIdentity => refreshes'[s].got <= pgPulse'
    BY <1>1, <1>2, <1>3, <1>5, <1>6 DEF PagesInv, AnswersInOrder
  <2>2. ASSUME ~overtaken'
        PROVE  /\ number' # noIdentity => number' = newest'
               /\ \A s \in DOMAIN refreshes' :
                    refreshes'[s].at = "health" /\ refreshes'[s].got # noIdentity =>
                        refreshes'[s].got >= newest'
    BY <1>1, <1>2, <1>3, <1>5, <1>6, <2>2 DEF PagesInv, AnswersInOrder
  <2>3. ASSUME ~overtaken', NEW s \in DOMAIN refreshes', NEW t \in DOMAIN refreshes', s < t,
               refreshes'[t].got # noIdentity
        PROVE  refreshes'[s].got # noIdentity /\ refreshes'[s].got <= refreshes'[t].got
    <3>1. s \in DOMAIN refreshes /\ t \in DOMAIN refreshes /\ ~overtaken BY <1>1, <1>3, <2>3
    <3>2. CASE t = r
      <4>1. refreshes[s].got # noIdentity BY <1>1, <2>3, <3>1, <3>2
      <4>2. s # r BY <1>8, <2>3, <3>1, <3>2
      <4>. QED BY <1>5, <1>6, <3>1, <3>2, <4>1, <4>2 DEF PagesInv, AnswersInOrder
    <3>3. CASE t # r
      <4>1. refreshes[t].got # noIdentity /\ refreshes'[t] = refreshes[t]
        BY <1>6, <2>3, <3>1, <3>3
      <4>2. refreshes[s].got # noIdentity BY <2>3, <3>1, <4>1 DEF PagesInv, AnswersInOrder
      <4>3. s # r BY <1>1, <4>2
      <4>. QED BY <1>6, <2>3, <3>1, <4>1, <4>3 DEF PagesInv, AnswersInOrder
    <3>. QED BY <3>2, <3>3
  <2>. QED BY <1>1, <1>2, <2>1, <2>2, <2>3 DEF AnswersInOrder
<1>10. DOMAIN refreshes' \subseteq 1..asked' BY <1>1, <1>3 DEF PagesInv, PagesTyped
<1>. QED BY <1>1, <1>2, <1>7, <1>9, <1>10, PagesStill, AppKeepsPages

LEMMA HealthShownKeeps ==
    ASSUME PagesAssumption, PagesInv, NEW r \in DOMAIN refreshes, Pages!HealthShown(r) PROVE PagesInv'
<1>1. /\ refreshes[r].at = "health" /\ refreshes[r].got # noIdentity
      /\ number' = refreshes[r].got
      /\ newest' = (IF refreshes[r].got > newest THEN refreshes[r].got ELSE newest)
      /\ overtaken' = (overtaken \/ \E s \in DOMAIN refreshes : s < r /\ refreshes[s].at = "health")
      /\ refreshes' = [refreshes EXCEPT ![r].at = "ranking"]
      /\ UNCHANGED <<page, pgPulse>> /\ UNCHANGED Pages!searchVars
      /\ UNCHANGED <<asked, pending, label, listedPeers, failCount, silent, crashed>>
    BY DEF Pages!HealthShown, Pages!healthVars
<1>2. /\ refreshes[r] \in RefreshRecord /\ DOMAIN refreshes' = DOMAIN refreshes
      /\ refreshes[r].got \in Nat /\ overtaken' \in BOOLEAN /\ pgPulse \in Nat /\ newest \in Nat
      /\ refreshes[r].got <= pgPulse /\ newest <= pgPulse
    BY <1>1 DEF PagesInv, PagesTyped, RefreshRecord, AnswersInOrder
<1>3. newest' \in Nat /\ newest' <= pgPulse BY <1>1, <1>2
<1>4. refreshes'[r] = [refreshes[r] EXCEPT !.at = "ranking"] BY <1>1
<1>5. refreshes'[r] \in RefreshRecord /\ refreshes'[r].at = "ranking" /\ refreshes'[r].got = refreshes[r].got
    BY <1>2, <1>4 DEF RefreshRecord
<1>6. \A s \in DOMAIN refreshes : s # r => refreshes'[s] = refreshes[s] BY <1>1
<1>7. refreshes' \in [DOMAIN refreshes' -> RefreshRecord]
    BY <1>1, <1>2, <1>5, <1>6 DEF PagesInv, PagesTyped
<1>8. \A s \in DOMAIN refreshes : refreshes'[s].got = refreshes[s].got BY <1>5, <1>6
<1>9. \A s \in DOMAIN refreshes : s \in Nat /\ refreshes[s].got \in Nat \cup {noIdentity}
    BY DEF PagesInv, PagesTyped, RefreshRecord
<1>10. AnswersInOrder'
  <2>1. \A s \in DOMAIN refreshes' : refreshes'[s].got # noIdentity => refreshes'[s].got <= pgPulse'
    BY <1>1, <1>2, <1>8 DEF PagesInv, AnswersInOrder
  <2>2. ASSUME ~overtaken' PROVE number' = newest' /\ newest' = refreshes[r].got
    <3>1. refreshes[r].got >= newest BY <1>1, <2>2 DEF PagesInv, AnswersInOrder
    <3>. QED BY <1>1, <1>2, <3>1
  <2>3. ASSUME ~overtaken', NEW s \in DOMAIN refreshes', refreshes'[s].at = "health",
               refreshes'[s].got # noIdentity
        PROVE  refreshes'[s].got >= newest'
    <3>1. s \in DOMAIN refreshes /\ s # r /\ refreshes[s].at = "health" /\ refreshes[s].got # noIdentity
      BY <1>2, <1>5, <1>6, <2>3
    <3>2. r < s
      <4>1. ~(s < r) BY <1>1, <2>3, <3>1
      <4>2. r \in Nat /\ s \in Nat BY <1>9, <3>1
      <4>. QED BY <3>1, <4>1, <4>2
    <3>3. refreshes[r].got <= refreshes[s].got
      BY <1>1, <2>3, <3>1, <3>2 DEF PagesInv, AnswersInOrder
    <3>4. refreshes[s].got \in Nat BY <1>9, <3>1
    <3>. QED BY <1>2, <1>8, <2>2, <2>3, <3>1, <3>3, <3>4
  <2>4. ASSUME ~overtaken', NEW s \in DOMAIN refreshes', NEW t \in DOMAIN refreshes', s < t,
               refreshes'[t].got # noIdentity
        PROVE  refreshes'[s].got # noIdentity /\ refreshes'[s].got <= refreshes'[t].got
    BY <1>1, <1>2, <1>8, <2>4 DEF PagesInv, AnswersInOrder
  <2>. QED BY <1>1, <1>3, <2>1, <2>2, <2>3, <2>4 DEF AnswersInOrder
<1>11. DOMAIN refreshes' \subseteq 1..asked' BY <1>1, <1>2 DEF PagesInv, PagesTyped
<1>. QED BY <1>1, <1>2, <1>3, <1>7, <1>10, <1>11, PagesStill, AppKeepsPages

LEMMA RefreshEndsKeeps ==
    ASSUME PagesAssumption, PagesInv, NEW r \in DOMAIN refreshes, NEW failed, Pages!RefreshEnds(r, failed)
    PROVE  PagesInv'
<1>1. /\ refreshes' = [s \in DOMAIN refreshes \ {r} |-> refreshes[s]]
      /\ UNCHANGED <<page, pgPulse, number, newest, overtaken>> /\ UNCHANGED Pages!searchVars
      /\ UNCHANGED <<asked, pending, label, listedPeers, failCount, silent, crashed>>
    BY DEF Pages!RefreshEnds, Pages!healthVars
<1>2. /\ DOMAIN refreshes' = DOMAIN refreshes \ {r}
      /\ \A s \in DOMAIN refreshes' : s \in DOMAIN refreshes /\ refreshes'[s] = refreshes[s]
    BY <1>1
<1>3. refreshes' \in [DOMAIN refreshes' -> RefreshRecord]
    BY <1>1, <1>2 DEF PagesInv, PagesTyped
<1>4. AnswersInOrder' BY <1>1, <1>2 DEF PagesInv, AnswersInOrder
<1>5. DOMAIN refreshes' \subseteq 1..asked' BY <1>1, <1>2 DEF PagesInv, PagesTyped
<1>6. pgPulse' \in Nat /\ newest' \in Nat /\ overtaken' \in BOOLEAN
  BY <1>1 DEF PagesInv, PagesTyped
<1>. QED BY <1>1, <1>3, <1>4, <1>5, <1>6, PagesStill, AppKeepsPages

LEMMA PulseTicksKeeps == ASSUME PagesAssumption, PagesInv, Pages!PulseTicks PROVE PagesInv'
<1>1. /\ pgPulse' = pgPulse + 1
      /\ UNCHANGED <<page, refreshes, dot, number, newest, overtaken>> /\ UNCHANGED Pages!searchVars
      /\ UNCHANGED <<asked, pending, label, listedPeers, failCount, silent, crashed>>
    BY DEF Pages!PulseTicks, Pages!healthVars
<1>2. pgPulse \in Nat /\ pgPulse' \in Nat /\ newest' \in Nat /\ overtaken' \in BOOLEAN
    BY <1>1 DEF PagesInv, PagesTyped
<1>3. \A s \in DOMAIN refreshes : refreshes[s].got \in Nat \cup {noIdentity}
    BY DEF PagesInv, PagesTyped, RefreshRecord
<1>4. AnswersInOrder'
  <2>1. newest' <= pgPulse' BY <1>1, <1>2 DEF PagesInv, AnswersInOrder
  <2>2. \A s \in DOMAIN refreshes' : refreshes'[s].got # noIdentity => refreshes'[s].got <= pgPulse'
    BY <1>1, <1>2, <1>3 DEF PagesInv, AnswersInOrder
  <2>. QED BY <1>1, <2>1, <2>2 DEF PagesInv, AnswersInOrder
<1>5. DOMAIN refreshes' \subseteq 1..asked' /\ refreshes' \in [DOMAIN refreshes' -> RefreshRecord]
    BY <1>1 DEF PagesInv, PagesTyped
<1>. QED BY <1>1, <1>2, <1>4, <1>5, PagesStill, AppKeepsPages

\* The pages, whatever order the answers come in: OFFLINE after three polls without an answer
\* and not before, the results of the last search, and a pulse that does not go back.
THEOREM PagesKept ==
    ASSUME PagesAssumption
    PROVE  Pages!Spec => []PageSound
<1>1. ASSUME Pages!Init PROVE PagesInv BY <1>1, PagesInit
<1>2. ASSUME PagesInv, [Pages!Next]_Pages!vars PROVE PagesInv'
  <2>1. CASE UNCHANGED Pages!vars
    <3>1. /\ UNCHANGED <<asked, pending, label, listedPeers, failCount, silent, crashed>>
          /\ UNCHANGED <<typed, searching, results, twoTyped>>
          /\ UNCHANGED <<pgPulse, refreshes, dot, number, newest, overtaken>>
      BY <2>1 DEF Pages!vars, Pages!healthVars, Pages!searchVars, Pages!appVars
    <3>. QED BY <1>2, <3>1 DEF PagesInv, PagesTyped, FailuresAsked, Failures, LastSearched,
                AnswersInOrder
  <2>. QED BY <1>2, <2>1, PollKeeps, CheckHealthKeeps, DoSearchKeeps, SearchAnsweredKeeps,
              RefreshKeeps,
              NodeAnswersKeeps, HealthShownKeeps, RefreshEndsKeeps,
              PulseTicksKeeps DEF Pages!Next
<1>3. ASSUME PagesInv PROVE PageSound
  <2>1. Pages!Cardinality(pending) \in Nat BY <1>3, PageNumber DEF PagesInv, PagesTyped
  <2>2. failCount \in 0..MaxAsked
    BY <1>3, <2>1 DEF PagesInv, PagesTyped, FailuresAsked, PagesAssumption
  <2>3. Pages!TypeOK BY <1>3, <2>2 DEF PagesInv, PagesTyped, Pages!TypeOK
  <2>. QED BY <1>3, <2>3 DEF PagesInv, Failures, LastSearched, AnswersInOrder,
              Pages!OfflineHonest,
                             Pages!ResultsOfLast, Pages!PulseForward, PageSound
<1>. QED BY <1>1, <1>2, <1>3, PTL DEF Pages!Spec

-----------------------------------------------------------------------------
\* What is proved of a component for every value of its constants holds of its
\* instance here: the other scenes leave its variables alone.
LEMMA LocksRun == PlatformSpec => Spec
<1>1. PlatformInit => Init
    BY DEF PlatformInit
<1>2. [PlatformNext]_platformVars => [Next]_vars
    BY DEF PlatformNext, Only, platformVars
<1>. QED BY <1>1, <1>2, PTL DEF PlatformSpec, Spec

LEMMA BusRuns == PlatformSpec => Cube!Bus!Spec
<1>1. PlatformInit => Cube!Bus!Init
    BY DEF PlatformInit
<1>2. [PlatformNext]_platformVars => [Cube!Bus!Next]_Cube!Bus!vars
    BY DEF PlatformNext, Only, platformVars, busVars, Cube!Bus!vars
<1>. QED BY <1>1, <1>2, PTL DEF PlatformSpec, Cube!Bus!Spec

LEMMA CubeRuns == PlatformSpec => Cube!Spec
<1>1. PlatformInit => Cube!Init
    BY DEF PlatformInit
<1>2. [PlatformNext]_platformVars => [Cube!Next]_Cube!vars
    BY DEF PlatformNext, Only, platformVars, cubeVars, Cube!vars
<1>. QED BY <1>1, <1>2, PTL DEF PlatformSpec, Cube!Spec

LEMMA PulseRuns == PlatformSpec => Cube!Ranks!Spec
<1>1. PlatformInit => Cube!Ranks!Init
    BY DEF PlatformInit
<1>2. [PlatformNext]_platformVars => [Cube!Ranks!Next]_Cube!Ranks!vars
    BY DEF PlatformNext, Only, platformVars, pulseVars, Cube!Ranks!vars
<1>. QED BY <1>1, <1>2, PTL DEF PlatformSpec, Cube!Ranks!Spec

LEMMA CellsRun == PlatformSpec => Cube!Flat!Spec
<1>1. PlatformInit => Cube!Flat!Init
    BY DEF PlatformInit
<1>2. [PlatformNext]_platformVars => [Cube!Flat!Next]_Cube!Flat!vars
    BY DEF PlatformNext, Only, platformVars, cellVars, Cube!Flat!vars
<1>. QED BY <1>1, <1>2, PTL DEF PlatformSpec, Cube!Flat!Spec

LEMMA ProjectsRun == PlatformSpec => Works!Spec
<1>1. PlatformInit => Works!Init
    BY DEF PlatformInit
<1>2. [PlatformNext]_platformVars => [Works!Next]_Works!vars
    BY DEF PlatformNext, Only, platformVars, projectVars, Works!vars
<1>. QED BY <1>1, <1>2, PTL DEF PlatformSpec, Works!Spec

LEMMA ChannelsRun == PlatformSpec => Shops!Spec
<1>1. PlatformInit => Shops!Init
    BY DEF PlatformInit
<1>2. [PlatformNext]_platformVars => [Shops!Next]_Shops!vars
    BY DEF PlatformNext, Only, platformVars, channelVars, Shops!vars
<1>. QED BY <1>1, <1>2, PTL DEF PlatformSpec, Shops!Spec

LEMMA FilesRun == PlatformSpec => Files!Spec
<1>1. PlatformInit => Files!Init
    BY DEF PlatformInit
<1>2. [PlatformNext]_platformVars => [Files!Next]_Files!vars
    BY DEF PlatformNext, Only, platformVars, assetVars, Files!vars
<1>. QED BY <1>1, <1>2, PTL DEF PlatformSpec, Files!Spec

LEMMA SearchRuns == PlatformSpec => Searches!Spec
<1>1. PlatformInit => Searches!Init
    BY DEF PlatformInit
<1>2. [PlatformNext]_platformVars => [Searches!Next]_Searches!vars
    BY DEF PlatformNext, Only, platformVars, searchVars, Searches!vars
<1>. QED BY <1>1, <1>2, PTL DEF PlatformSpec, Searches!Spec

LEMMA ProcessRuns == PlatformSpec => Program!Spec
<1>1. PlatformInit => Program!Init
    BY DEF PlatformInit
<1>2. [PlatformNext]_platformVars => [Program!Next]_Program!vars
    BY DEF PlatformNext, Only, platformVars, processVars, Program!vars,
       Program!identityVars, Program!stopVars,
       Program!peerVars, Program!streamVars, Program!upVars
<1>. QED BY <1>1, <1>2, PTL DEF PlatformSpec, Program!Spec

LEMMA PagesRun == PlatformSpec => Pages!Spec
<1>1. PlatformInit => Pages!Init
    BY DEF PlatformInit
<1>2. [PlatformNext]_platformVars => [Pages!Next]_Pages!vars
    BY DEF PlatformNext, Only, platformVars, pageVars, Pages!vars, Pages!healthVars,
       Pages!searchVars,
       Pages!appVars
<1>. QED BY <1>1, <1>2, PTL DEF PlatformSpec, Pages!Spec

\* NodeLockManager as the process runs it: one holder for a path, nobody lost or
\* overtaken, a lock without an owner only after a timeout.
THEOREM LocksInOrder ==
    ASSUME Watchdog = FALSE
    PROVE  PlatformSpec =>
             /\ [](TypeOK /\ MutualExclusion /\ NoLostWaiter /\ LockedHasOwner /\ Fifo)
             /\ ImplementsMutex
<1>1. Spec => [](TypeOK /\ MutualExclusion /\ NoLostWaiter /\ LockedHasOwner /\ Fifo)
    BY TypeCorrect, NodeLockMutualExclusion, NoWaiterLost, LockLostOnlyByTimeout,
       FirstComeFirstServed, PTL
<1>2. Spec => ImplementsMutex
    BY NodeLockImplementsMutex
<1>. QED BY <1>1, <1>2, LocksRun

\* EventBus as the process runs it: events with a key are handled once unless the key
\* was evicted, no INDEX handler raises a CORE event, and the order is kept.
THEOREM EventsInOrder == PlatformSpec => []BusSound
<1>1. Cube!BusAssumption
    BY PlatformAssumption DEF Cube!BusAssumption
<1>2. Cube!Bus!Spec => []Cube!Bus!BusSound
    BY <1>1, Cube!BusStaysSound
<1>. QED BY <1>2, BusRuns, PTL DEF BusSound

\* CubeEngine as the process runs it: cells and index say the same of every project,
\* and no cell is above its capacity.
THEOREM CellsInOrder == PlatformSpec => []CellsSound
<1> DEFINE q == <<p1, p2, p3, p4>>
<1>1. q \in Seq({p1, p2, p3, p4}) /\ Len(q) = 4
      /\ q[1] = p1 /\ q[2] = p2 /\ q[3] = p3 /\ q[4] = p4
    OBVIOUS
<1>. HIDE DEF q
<1>2. Cube!IsFiniteSet({p1, p2, p3, p4})
    BY <1>1 DEF Cube!IsFiniteSet
<1>3. Cube!CellsAssumption
    BY <1>2, PlatformAssumption DEF Cube!CellsAssumption
<1>4. Cube!Flat!Spec => []Cube!Flat!CellsSound
    BY <1>3, Cube!CellsStaySound
<1>. QED BY <1>4, CellsRun, PTL DEF CellsSound

LEMMA EnginesAssumed == Cube!CubeAssumption /\ Cube!PulseAssumption
<1>1. Cube!CubeAssumption
    BY PlatformAssumption DEF Cube!CubeAssumption
<1> DEFINE q == <<p1, p2>>
<1>2. q \in Seq({p1, p2}) /\ DOMAIN q = {1, 2} /\ q[1] = p1 /\ q[2] = p2
    OBVIOUS
<1>. HIDE DEF q
<1>3. Cube!Ranks!IsInjective(q)
    BY <1>2, PlatformAssumption DEF Cube!Ranks!IsInjective
<1>4. [p \in {p1, p2} |-> IF p = p1 THEN 1 ELSE 0] \in [{p1, p2} -> Int]
    OBVIOUS
<1>. QED BY <1>1, <1>2, <1>3, <1>4, PlatformAssumption DEF Cube!PulseAssumption, q

\* Both cube engines as the process runs them: cells and index agree, the registry points
\* to where projects are, serial calls keep tree and registry in agreement, locks come back.
THEOREM CubeInOrder == PlatformSpec => []CubeSound
<1>1. /\ Cube!Spec => [](Cube!TypeOK /\ Cube!RegisteredIsPlaced)
      /\ Cube!Spec => []Cube!SerialCallsAgree
      /\ Cube!Spec => []Cube!LocksComeBack
    BY EnginesAssumed, Cube!RegisteredStaysPlaced, Cube!SerialCallsKeepAgreement,
       Cube!LocksReturned
<1>. QED BY <1>1, CubeRuns, CellsInOrder, PTL DEF CubeSound, TreeSound

\* PulseScheduler as the process runs it: who ranks first is rotated away from the top
\* in time, and nobody is shown twice.
THEOREM PulseInOrder == PlatformSpec => []PulseSound
<1>1. Cube!Ranks!Spec =>
        [](Cube!Ranks!TypeOK /\ Cube!Ranks!RankedTopRotates /\ Cube!Ranks!ShownOnce)
    BY EnginesAssumed, Cube!TopRotates
<1>. QED BY <1>1, PulseRuns, PTL DEF PulseSound

\* Splits and merges unregister nobody, and a restart of the pulse changes no record.
THEOREM MaintenanceKeeps == PlatformSpec => KeptThroughMaintenance
<1>1. /\ Cube!Spec => Cube!OnlyOwnCallsUnregister
      /\ Cube!Ranks!Spec => Cube!Ranks!RestartKeepsFairness
    BY EnginesAssumed, Cube!OthersStayRegistered, Cube!RestartsKeepRecords
<1>. QED BY <1>1, CubeRuns, PulseRuns DEF KeptThroughMaintenance

LEMMA RecordsAssumed ==
    WorksAssumption /\ ShopsAssumption /\ FilesAssumption /\ Searches!IsFiniteSet(Work)
<1>1. WorksAssumption
    BY PlatformAssumption DEF WorksAssumption, WorkRows
<1>2. ShopsAssumption
    BY PlatformAssumption DEF ShopsAssumption
<1>3. Searches!IsFiniteSet(Work)
    BY PlatformAssumption, ShopCounts, SearchCounts
<1>4. FilesAssumption
    BY PlatformAssumption DEF FilesAssumption
<1>. QED BY <1>1, <1>2, <1>3, <1>4

\* The services over repositories and indexes as the process runs them: search, archive,
\* slugs, releases, followers, files and cached answers agree with the rows, and serial calls
\* keep the limits.
THEOREM RecordsInOrder == PlatformSpec => []RecordsSound
<1>1. Works!Spec => []ProjectsSound
    BY RecordsAssumed, ProjectsKept
<1>2. Shops!Spec => []ChannelsSound
    BY RecordsAssumed, ChannelsKept
<1>3. Searches!Spec => []SearchSound
    BY RecordsAssumed, IndexesKept
<1>4. Files!Spec => []FilesSound
    BY RecordsAssumed, FilesKept
<1>. QED BY <1>1, <1>2, <1>3, <1>4, ProjectsRun, ChannelsRun, SearchRuns, FilesRun, PTL
         DEF RecordsSound

LEMMA ProcessAssumed == ProcessAssumption /\ PagesAssumption
BY PlatformAssumption DEF ProcessAssumption, PagesAssumption

\* main.ts and its pages: what a node serves under, announces, sends, shows and leaves
\* behind is sound, whatever starts, stops, kills and answers overtake one another.
THEOREM ProcessInOrder == PlatformSpec => []ProcessSound
<1>1. Program!Spec => []NodeSound
    BY ProcessAssumed, ProcessKept
<1>2. Pages!Spec => []PageSound
    BY ProcessAssumed, PagesKept
<1>. QED BY <1>1, <1>2, ProcessRuns, PagesRun, PTL DEF ProcessSound
=============================================================================
