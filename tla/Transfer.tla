------------------------------ MODULE Transfer ------------------------------
(***************************************************************************)
(* TransferEngine (p2p/transfer/transfer-engine.ts) of one node: download  *)
(* calls for one content id, whose chunks are asked for in parallel, each  *)
(* with a timer and a bounded number of attempts, under a semaphore.       *)
(*                                                                         *)
(* What the engine shares between its calls is here a variable: the map    *)
(* of resolvers, the chunk store and the registry's list of providers.     *)
(* The providers are other nodes: a provider has the right chunks, another *)
(* version of them, chunks that reach us torn, or none.                    *)
(*                                                                         *)
(* Every timer has the same delay, so timers fire in the order in which    *)
(* they were set.  A continuation that only waits for microtasks (an       *)
(* acquired permit, a settled promise) is a step of its own.               *)
(***************************************************************************)
EXTENDS Naturals, Sequences, FiniteSets

CONSTANTS Download,     \* the calls of download(), all for the same CID
          Peer,         \* the providers that may announce the CID
          Right, Wrong, Torn,  \* what they hold; the others have nothing
          Known,        \* the providers announced at first, a sequence
          Chunks,       \* address.chunks
          Concurrency,  \* cfg.concurrency
          MaxTries,     \* cfg.maxRetries
          Lossy         \* may a message be dropped?

ASSUME TransferAssumption ==
    /\ {Right, Wrong, Torn} \subseteq SUBSET Peer
    /\ Right \cap Wrong = {} /\ Right \cap Torn = {} /\ Wrong \cap Torn = {}
    /\ Known \in Seq(Peer)
    /\ \A i, j \in 1..Len(Known) : Known[i] = Known[j] => i = j
    /\ Chunks \in Nat \ {0}
    /\ Concurrency \in Nat \ {0}
    /\ MaxTries \in Nat
    /\ Lossy \in BOOLEAN

VARIABLES
    peers,    \* location.peers: the registry's array, which running calls share
    store,    \* store[k]: the chunk k of the CID in the chunk store
    call,     \* call[d]: what has become of download d
    fetch,    \* fetch[d][k]: the downloadOne of d for chunk k
    free,     \* free[d]: the permits left in d's semaphore
    queue,    \* queue[d]: the chunks waiting for a permit
    pending,  \* pending[k]: the resolver under the key of chunk k, if any
    timers,   \* the request timers that run, the oldest first
    msgs      \* chunk:request and chunk:response in flight

vars == <<peers, store, call, fetch, free, queue, pending, timers, msgs>>

Chunk == 0..(Chunks - 1)

Copy == {"right", "wrong", "torn"}

Idle == [at |-> "idle", data |-> "none", cached |-> FALSE]

Off == [at |-> "off", try |-> 0, peer |-> "nobody", got |-> "nothing"]

Init ==
    /\ peers = Known
    /\ store = [k \in Chunk |-> "none"]
    /\ call = [d \in Download |-> Idle]
    /\ fetch = [d \in Download |-> [k \in Chunk |-> Off]]
    /\ free = [d \in Download |-> Concurrency]
    /\ queue = [d \in Download |-> <<>>]
    /\ pending = [k \in Chunk |-> {}]
    /\ timers = <<>>
    /\ msgs = {}

-----------------------------------------------------------------------------
\* isComplete
Complete == \A k \in Chunk : store[k] # "none"

\* assemble: right only if every chunk is; the CID tells.
Assembled == IF \A k \in Chunk : store[k] = "right" THEN "right" ELSE "wrong"

\* The chunks from i on, in order.
From(i) == [j \in 1..(Chunks - i) |-> i + j - 1]

\* The chunks whose acquire() finds a permit at once.
AtOnce == {k \in Chunk : k < Concurrency}

\* download(), up to _downloadChunks: every downloadOne asks for a permit in turn.
Start(d) ==
    /\ call[d].at = "idle"
    /\ IF peers = <<>>
       THEN /\ call' = [call EXCEPT ![d].at = "failed"]
            /\ UNCHANGED <<fetch, free, queue>>
       ELSE IF Complete
       THEN /\ call' = [call EXCEPT ![d] = [at |-> "ok", data |-> Assembled, cached |-> TRUE]]
            /\ UNCHANGED <<fetch, free, queue>>
       ELSE /\ call' = [call EXCEPT ![d].at = "running"]
            /\ fetch' = [fetch EXCEPT ![d] =
                            [k \in Chunk |->
                                [Off EXCEPT !.at = IF k \in AtOnce THEN "ready" ELSE "queued"]]]
            /\ free' = [free EXCEPT ![d] = @ - Cardinality(AtOnce)]
            /\ queue' = [queue EXCEPT ![d] = From(Cardinality(AtOnce))]
    /\ UNCHANGED <<peers, store, pending, timers, msgs>>

\* Mutant: the next in line is not woken.
SettleSilently(d, k, f) ==
    /\ fetch' = [fetch EXCEPT ![d][k] = f]
    /\ free' = [free EXCEPT ![d] = @ + 1]
    /\ UNCHANGED queue

\* Mutant: the permit is handed over and given back.
SettleTwice(d, k, f) ==
    /\ free' = [free EXCEPT ![d] = @ + 1]
    /\ IF queue[d] = <<>>
       THEN /\ fetch' = [fetch EXCEPT ![d][k] = f]
            /\ UNCHANGED queue
       ELSE /\ fetch' = [fetch EXCEPT ![d][k] = f, ![d][Head(queue[d])].at = "ready"]
            /\ queue' = [queue EXCEPT ![d] = Tail(@)]

\* downloadOne of chunk k ends as f, and releases its permit to the next in line.
Settle(d, k, f) ==
    IF queue[d] = <<>>
    THEN /\ fetch' = [fetch EXCEPT ![d][k] = f]
         /\ free' = [free EXCEPT ![d] = @ + 1]
         /\ UNCHANGED queue
    ELSE /\ fetch' = [fetch EXCEPT ![d][k] = f, ![d][Head(queue[d])].at = "ready"]
         /\ queue' = [queue EXCEPT ![d] = Tail(@)]
         /\ UNCHANGED free

\* Mutant: every attempt asks the same provider.
ProviderSame(k, t) == peers[(k % Len(peers)) + 1]

\* Round robin: the provider of attempt t for chunk k.
Provider(k, t) == peers[((k + t) % Len(peers)) + 1]

\* Mutant: one attempt too few.
AttemptLess(d, k, t) ==
    IF t + 1 < MaxTries
    THEN LET p == Provider(k, t)
         IN  /\ fetch' = [fetch EXCEPT ![d][k] =
                             [at |-> "asking", try |-> t, peer |-> p, got |-> "nothing"]]
             /\ pending' = [pending EXCEPT ![k] = {<<d, t>>}]
             /\ timers' = Append(timers, <<d, k, t>>)
             /\ msgs' = msgs \cup {[type |-> "request", peer |-> p, d |-> d, k |-> k, try |-> t]}
             /\ UNCHANGED <<free, queue>>
    ELSE /\ Settle(d, k, [fetch[d][k] EXCEPT !.at = "gaveup", !.try = t])
         /\ UNCHANGED <<pending, timers, msgs>>

\* The loop of _downloadChunk at attempt t: _requestChunk, or the end.
Attempt(d, k, t) ==
    IF t < MaxTries
    THEN LET p == Provider(k, t)
         IN  /\ fetch' = [fetch EXCEPT ![d][k] =
                             [at |-> "asking", try |-> t, peer |-> p, got |-> "nothing"]]
             /\ pending' = [pending EXCEPT ![k] = {<<d, t>>}]
             /\ timers' = Append(timers, <<d, k, t>>)
             /\ msgs' = msgs \cup {[type |-> "request", peer |-> p, d |-> d, k |-> k, try |-> t]}
             /\ UNCHANGED <<free, queue>>
    ELSE /\ Settle(d, k, [fetch[d][k] EXCEPT !.at = "gaveup", !.try = t])
         /\ UNCHANGED <<pending, timers, msgs>>

\* A permit acquired.
Begin(d, k) ==
    /\ fetch[d][k].at = "ready"
    /\ Attempt(d, k, 0)
    /\ UNCHANGED <<peers, store, call>>

\* _requestChunk has returned: the chunk's own hash is checked, and the chunk kept.
Process(d, k) ==
    LET f == fetch[d][k]
    IN  /\ f.at = "got"
        /\ IF f.got \in {"nothing", "torn"}
           THEN Attempt(d, k, f.try + 1) /\ UNCHANGED store
           ELSE /\ store' = [store EXCEPT ![k] = f.got]
                /\ Settle(d, k, [f EXCEPT !.at = "done"])
                /\ UNCHANGED <<pending, timers, msgs>>
        /\ UNCHANGED <<peers, call>>

Settled(d) == \A k \in Chunk : fetch[d][k].at \in {"done", "gaveup"}

\* download(), after _downloadChunks: the whole is compared with the CID.
Finish(d) ==
    /\ call[d].at = "running"
    /\ Settled(d)
    /\ call' = [call EXCEPT ![d] =
                   IF Complete /\ Assembled = "right"
                   THEN [at |-> "ok", data |-> Assembled, cached |-> FALSE]
                   ELSE [@ EXCEPT !.at = "failed"]]
    /\ UNCHANGED <<peers, store, fetch, free, queue, pending, timers, msgs>>

\* The promise of resolver r for chunk k settles, if it has not already.
Resolve(r, k, got) ==
    fetch' = [fetch EXCEPT ![r[1]][k] =
                 IF @.at = "asking" /\ @.try = r[2]
                 THEN [@ EXCEPT !.at = "got", !.got = got] ELSE @]

\* Mutant: a timer leaves the resolver where it is.
TimerFiresLeaving ==
    /\ timers # <<>>
    /\ timers' = Tail(timers)
    /\ LET d == Head(timers)[1]
           k == Head(timers)[2]
           t == Head(timers)[3]
       IN  IF pending[k] = {} THEN UNCHANGED <<fetch, pending>>
           ELSE /\ Resolve(<<d, t>>, k, "nothing")
                /\ UNCHANGED pending
    /\ UNCHANGED <<peers, store, call, free, queue, msgs>>

\* Mutant: a timer that removes the resolver does not call it.
TimerFiresMute ==
    /\ timers # <<>>
    /\ timers' = Tail(timers)
    /\ pending' = [pending EXCEPT ![Head(timers)[2]] = {}]
    /\ UNCHANGED <<peers, store, call, fetch, free, queue, msgs>>

\* The timer of a request removes whatever resolver is there, and resolves its own.
TimerFires ==
    /\ timers # <<>>
    /\ timers' = Tail(timers)
    /\ LET d == Head(timers)[1]
           k == Head(timers)[2]
           t == Head(timers)[3]
       IN  IF pending[k] = {} THEN UNCHANGED <<fetch, pending>>
           ELSE /\ Resolve(<<d, t>>, k, "nothing")
                /\ pending' = [pending EXCEPT ![k] = {}]
    /\ UNCHANGED <<peers, store, call, free, queue, msgs>>

\* _handleChunkResponse: the resolver that is there now takes the chunk.
Receive(m) ==
    /\ m.type = "response"
    /\ msgs' = msgs \ {m}
    /\ IF pending[m.k] = {} THEN UNCHANGED <<fetch, pending>>
       ELSE /\ \E r \in pending[m.k] : Resolve(r, m.k, m.copy)
            /\ pending' = [pending EXCEPT ![m.k] = {}]
    /\ UNCHANGED <<peers, store, call, free, queue, timers>>

CopyOf(p) == IF p \in Right THEN "right" ELSE IF p \in Wrong THEN "wrong" ELSE "torn"

\* _handleChunkRequest at a provider.  A chunk:not_found is ignored on arrival.
Answer(m) ==
    /\ m.type = "request"
    /\ msgs' = (msgs \ {m}) \cup
                 (IF m.peer \in Right \cup Wrong \cup Torn
                  THEN {[type |-> "response", copy |-> CopyOf(m.peer),
                         d |-> m.d, k |-> m.k, try |-> m.try]}
                  ELSE {})
    /\ UNCHANGED <<peers, store, call, fetch, free, queue, pending, timers>>

Lose(m) ==
    /\ Lossy
    /\ msgs' = msgs \ {m}
    /\ UNCHANGED <<peers, store, call, fetch, free, queue, pending, timers>>

\* content:announce from a provider that is not listed yet.
Announce(p) ==
    /\ \A i \in 1..Len(peers) : peers[i] # p
    /\ peers' = Append(peers, p)
    /\ UNCHANGED <<store, call, fetch, free, queue, pending, timers, msgs>>

Next ==
    \/ \E d \in Download :
          \/ Start(d) \/ Finish(d)
          \/ \E k \in Chunk : Begin(d, k) \/ Process(d, k)
    \/ TimerFires
    \/ \E m \in msgs : Receive(m) \/ Answer(m) \/ Lose(m)
    \/ \E p \in Peer : Announce(p)

Spec == Init /\ [][Next]_vars

-----------------------------------------------------------------------------
(* Properties.                                                             *)

Fetch ==
    [at : {"off", "queued", "ready", "asking", "got", "done", "gaveup"}, try : 0..MaxTries,
     peer : Peer \cup {"nobody"}, got : Copy \cup {"nothing"}]

Message ==
    [type : {"request"}, peer : Peer, d : Download, k : Chunk, try : Nat]
      \cup [type : {"response"}, copy : Copy, d : Download, k : Chunk, try : Nat]

\* Every variable holds what its TypeScript type promises, no chunk that came
\* torn is kept, and a semaphore never has more permits than it was made with.
TypeOK ==
    /\ peers \in Seq(Peer)
    /\ store \in [Chunk -> {"none", "right", "wrong"}]
    /\ call \in [Download -> [at : {"idle", "running", "ok", "failed"},
                              data : {"none", "right", "wrong"}, cached : BOOLEAN]]
    /\ fetch \in [Download -> [Chunk -> Fetch]]
    /\ free \in [Download -> 0..Concurrency]
    /\ queue \in [Download -> Seq(Chunk)]
    /\ pending \in [Chunk -> SUBSET (Download \X Nat)]
    /\ timers \in Seq(Download \X Chunk \X Nat)
    /\ msgs \subseteq Message

Busy(d) == {k \in Chunk : fetch[d][k].at \in {"ready", "asking", "got"}}

\* No permit is lost or made, and nobody queues for one that is free.
PermitsKept ==
    \A d \in Download :
        /\ free[d] + Cardinality(Busy(d)) = Concurrency
        /\ queue[d] # <<>> => free[d] = 0

\* A resolver belongs to a request that still waits, and to its latest attempt.
ResolverServes ==
    \A k \in Chunk : \A r \in pending[k] :
        fetch[r[1]][k].at = "asking" /\ fetch[r[1]][k].try = r[2]

\* A request that waits can still be answered: its resolver is under its key.
NoOrphan ==
    \A d \in Download : \A k \in Chunk :
        fetch[d][k].at = "asking" => pending[k] = {<<d, fetch[d][k].try>>}

\* A lone download fails only if nobody was listed, if a chunk was asked for as
\* often as allowed, or if some provider has another version.
FailsForReason ==
    \A d \in Download : call[d].at = "failed" =>
        \/ \A k \in Chunk : fetch[d][k].at = "off"
        \/ \E k \in Chunk : fetch[d][k].at = "gaveup" /\ fetch[d][k].try = MaxTries
        \/ \E k \in Chunk : store[k] = "wrong"

\* With two providers or more, a chunk that failed is asked of another one
\* ("basarisiz chunk -> farkli peer'dan dene"), unless an announcement has shifted
\* the round robin since: what failed is still what the list gives for that attempt.
RetryElsewhere ==
    [][\A d \in Download : \A k \in Chunk :
          /\ fetch'[d][k].at = "asking"
          /\ fetch[d][k].try < fetch'[d][k].try
          /\ Len(peers) > 1
          /\ fetch[d][k].peer = Provider(k, fetch[d][k].try)
          => fetch'[d][k].peer # fetch[d][k].peer]_vars

\* Timers fire, and settled promises are processed.
Fair ==
    /\ WF_vars(TimerFires)
    /\ \A d \in Download :
          /\ WF_vars(Finish(d))
          /\ \A k \in Chunk : WF_vars(Begin(d, k)) /\ WF_vars(Process(d, k))

FairSpec == Spec /\ Fair

\* Every download comes to an end, with the content or with an error.
DownloadSettles ==
    \A d \in Download : call[d].at = "running" ~> call[d].at \in {"ok", "failed"}
=============================================================================
