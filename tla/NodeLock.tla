------------------------------ MODULE NodeLock ------------------------------
(***************************************************************************)
(* NodeLockManager (cube_engine/node-lock.ts): the logical mutex per cube  *)
(* node that FractalCubeEngine takes around index, remove and move.        *)
(*                                                                         *)
(* A request is one call of acquire(path).  JavaScript runs one callback   *)
(* at a time, so each action is one uninterrupted stretch of the code: the *)
(* call of acquire, the call of a release closure, the firing of a         *)
(* request's timer, one sweep of releaseStale.                             *)
(*                                                                         *)
(* An entry of the map `locks` exists exactly while its path is locked     *)
(* (acquire creates it and locks it at once, _doRelease deletes it), so    *)
(* `locked` stands for the entry and its flag.                             *)
(***************************************************************************)
EXTENDS Naturals, Sequences

CONSTANTS Req,      \* the acquire() calls, each made once
          Path,     \* the node paths
          NoReq,    \* no request
          Watchdog  \* does anybody call releaseStale()?

ASSUME NodeLockAssumption ==
    /\ NoReq \notin Req
    /\ Watchdog \in BOOLEAN

VARIABLES
    target,   \* target[r]: the path acquire() is called with
    status,   \* where the caller of acquire() is
    locked,   \* entry.locked
    queue,    \* entry.queue: the wake-up callbacks, by the request they wake
    aged,     \* Date.now() - entry.acquiredAt > maxAgeMs
    granted,  \* history: the request the lock was last handed to
    ahead     \* history: ahead[r] was waiting for the same path when r came

vars == <<target, status, locked, queue, aged, granted, ahead>>

Status == {"idle", "waiting", "holding", "released", "failed"}

Init ==
    /\ target \in [Req -> Path]
    /\ status = [r \in Req |-> "idle"]
    /\ locked = [p \in Path |-> FALSE]
    /\ queue = [p \in Path |-> <<>>]
    /\ aged = [p \in Path |-> FALSE]
    /\ granted = [p \in Path |-> NoReq]
    /\ ahead = [r \in Req |-> {}]

-----------------------------------------------------------------------------
Waiting(p) == {r \in Req : status[r] = "waiting" /\ target[r] = p}

\* Mutant: the flag is not looked at.
AcquireFreeBarges(r) ==
    LET p == target[r] IN
    /\ status[r] = "idle"
    /\ status' = [status EXCEPT ![r] = "holding"]
    /\ locked' = [locked EXCEPT ![p] = TRUE]
    /\ granted' = [granted EXCEPT ![p] = r]
    /\ ahead' = [ahead EXCEPT ![r] = Waiting(p)]
    /\ UNCHANGED <<target, queue, aged>>

\* acquire() on a free path: the lock is taken at once.
AcquireFree(r) ==
    LET p == target[r] IN
    /\ status[r] = "idle"
    /\ ~locked[p]
    /\ status' = [status EXCEPT ![r] = "holding"]
    /\ locked' = [locked EXCEPT ![p] = TRUE]
    /\ granted' = [granted EXCEPT ![p] = r]
    /\ ahead' = [ahead EXCEPT ![r] = Waiting(p)]
    /\ UNCHANGED <<target, queue, aged>>

\* acquire() on a locked path, with q the queue it leaves behind.
Enqueue(r, q) ==
    /\ status[r] = "idle"
    /\ locked[target[r]]
    /\ status' = [status EXCEPT ![r] = "waiting"]
    /\ queue' = [queue EXCEPT ![target[r]] = q]
    /\ ahead' = [ahead EXCEPT ![r] = Waiting(target[r])]
    /\ UNCHANGED <<target, locked, aged, granted>>

\* Mutants: the callback goes to the front; the callback wakes nobody.
AcquireBusyInFront(r) == Enqueue(r, <<r>> \o queue[target[r]])
AcquireBusyAnonymous(r) == Enqueue(r, Append(queue[target[r]], NoReq))

\* acquire() on a locked path: a timer is started and a callback queued.
AcquireBusy(r) == Enqueue(r, Append(queue[target[r]], r))

\* Mutant: the rejection is inside `if (idx !== -1)`, which never holds.
TimeoutFiresIfFound(r) == FALSE /\ UNCHANGED vars

\* The timer of a waiting request fires and its promise is rejected.  The
\* handler looks for `resolve` in a queue of wrapper functions, never finds
\* it, and so removes nothing: the request stays in the queue.
TimeoutFires(r) ==
    /\ status[r] = "waiting"
    /\ status' = [status EXCEPT ![r] = "failed"]
    /\ UNCHANGED <<target, locked, queue, aged, granted, ahead>>

\* Mutant: the flag is cleared although the lock is handed on.
DoReleaseUnlocks(S) ==
    /\ locked' = [p \in Path |-> locked[p] /\ p \notin S]
    /\ granted' = [p \in Path |->
           IF p \notin S THEN granted[p]
           ELSE IF queue[p] # <<>> THEN Head(queue[p]) ELSE NoReq]
    /\ queue' = [p \in Path |->
           IF p \in S /\ queue[p] # <<>> THEN Tail(queue[p]) ELSE queue[p]]
    /\ aged' = [p \in Path |-> aged[p] /\ p \notin S]

\* _doRelease on every path of S: hand the lock to the first queued callback,
\* or unlock the path and delete its entry.
DoRelease(S) ==
    /\ locked' = [p \in Path |-> IF p \in S THEN queue[p] # <<>> ELSE locked[p]]
    /\ granted' = [p \in Path |->
           IF p \notin S THEN granted[p]
           ELSE IF queue[p] # <<>> THEN Head(queue[p]) ELSE NoReq]
    /\ queue' = [p \in Path |->
           IF p \in S /\ queue[p] # <<>> THEN Tail(queue[p]) ELSE queue[p]]
    /\ aged' = [p \in Path |-> aged[p] /\ p \notin S]

\* Mutant: the callback is taken from the queue and not called.
WokenNever(S) == {}

\* The requests whose callbacks DoRelease(S) runs.  Resolving a promise that
\* was already rejected has no effect, so only a waiting one becomes a holder.
Woken(S) == {r \in Req : \E p \in S : queue[p] # <<>> /\ r = Head(queue[p])}

Wake(S, st) ==
    [r \in Req |-> IF r \in Woken(S) /\ st[r] = "waiting" THEN "holding" ELSE st[r]]

\* The holder calls its release closure (the `finally` of its caller).  The
\* closure works once, but it does not ask whether the lock is still its own.
Release(r) ==
    /\ status[r] = "holding"
    /\ status' = Wake({target[r]}, [status EXCEPT ![r] = "released"])
    /\ DoRelease({target[r]})
    /\ UNCHANGED <<target, ahead>>

\* The lock of p has been held for more than maxAgeMs.
Age(p) ==
    /\ Watchdog
    /\ locked[p]
    /\ ~aged[p]
    /\ aged' = [aged EXCEPT ![p] = TRUE]
    /\ UNCHANGED <<target, status, locked, queue, granted, ahead>>

\* releaseStale(): every lock held for too long is released by force.
ReleaseStale ==
    LET stale == {p \in Path : locked[p] /\ aged[p]} IN
    /\ Watchdog
    /\ stale # {}
    /\ status' = Wake(stale, status)
    /\ DoRelease(stale)
    /\ UNCHANGED <<target, ahead>>

Next ==
    \/ \E r \in Req : AcquireFree(r) \/ AcquireBusy(r) \/ TimeoutFires(r) \/ Release(r)
    \/ \E p \in Path : Age(p)
    \/ ReleaseStale

Spec == Init /\ [][Next]_vars

\* Timers fire: the event loop runs a due timer sooner or later.
TimerFairness == \A r \in Req : WF_vars(TimeoutFires(r))

\* ... and every caller releases in a `finally` block, as the class comment
\* prescribes and all callers do.
CallerFairness == \A r \in Req : WF_vars(Release(r))

TimedSpec == Spec /\ TimerFairness
FairSpec == TimedSpec /\ CallerFairness

-----------------------------------------------------------------------------
TypeOK ==
    /\ target \in [Req -> Path]
    /\ status \in [Req -> Status]
    /\ locked \in [Path -> BOOLEAN]
    /\ queue \in [Path -> Seq(Req)]
    /\ aged \in [Path -> BOOLEAN]
    /\ granted \in [Path -> Req \cup {NoReq}]
    /\ ahead \in [Req -> SUBSET Req]

Holders(p) == {r \in Req : status[r] = "holding" /\ target[r] = p}

\* The class comment's "logical mutex per node": two callers are never inside
\* the critical section of the same path, whatever timers fire in between.
MutualExclusion ==
    \A p \in Path : \A r, s \in Holders(p) : r = s

\* No lost wake-up: who is still waiting has exactly one callback in the queue
\* of its own path, and that path is locked, so some release will come to it.
NoLostWaiter ==
    \A r \in Req : status[r] = "waiting" =>
        /\ locked[target[r]]
        /\ \E i \in DOMAIN queue[target[r]] :
              \A p \in Path : \A j \in DOMAIN queue[p] :
                  queue[p][j] = r <=> (p = target[r] /\ j = i)

\* A lock without a live holder was handed to a request that had timed out:
\* no other interleaving of acquire, timeout and release loses a lock.
LockedHasOwner ==
    \A p \in Path : locked[p] =>
        /\ granted[p] \in Req
        /\ target[granted[p]] = p
        /\ status[granted[p]] \in {"holding", "failed"}

\* FIFO (node-lock.ts:14): whoever got the lock did not overtake a request
\* that had been waiting for the same path since before it asked.
Fifo ==
    \A r \in Req : status[r] \in {"holding", "released"} =>
        \A s \in ahead[r] : status[s] # "waiting"

\* Every acquire() settles: a waiting caller gets the lock or an error.
AcquireSettles ==
    \A r \in Req : (status[r] = "waiting") ~> (status[r] # "waiting")

\* What makes NoLostWaiter inductive: only a locked path has a queue; it holds
\* requests for this path that wait or have timed out, each once; and every
\* waiting request is in it.
QueueSound ==
    /\ \A p \in Path : queue[p] # <<>> => locked[p]
    /\ \A p \in Path : \A i \in DOMAIN queue[p] :
          /\ target[queue[p][i]] = p
          /\ status[queue[p][i]] \in {"waiting", "failed"}
    /\ \A p \in Path : \A i, j \in DOMAIN queue[p] :
          queue[p][i] = queue[p][j] => i = j
    /\ \A r \in Req : status[r] = "waiting" =>
          \E i \in DOMAIN queue[target[r]] : queue[target[r]][i] = r

\* What makes MutualExclusion inductive without the watchdog: the holder of a
\* path is the request the lock was last handed to.
HolderOwns ==
    \A r \in Req : status[r] = "holding" =>
        locked[target[r]] /\ granted[target[r]] = r

\* Implements Mutex: the abstract holder is the request inside, if any, and a
\* request is used up when it gets the lock.
Inside(p) == IF Holders(p) = {} THEN NoReq ELSE CHOOSE r \in Holders(p) : TRUE

HolderOf == [p \in Path |-> Inside(p)]

Served == {r \in Req : status[r] \in {"holding", "released"}}

M == INSTANCE Mutex WITH holder <- HolderOf, used <- Served

ImplementsMutex == M!Spec

-----------------------------------------------------------------------------
(* What the source says and its code does not do. *)

=============================================================================
