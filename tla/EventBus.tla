------------------------------ MODULE EventBus ------------------------------
(***************************************************************************)
(* EventBus (core/event-bus.ts): one FIFO queue of events, drained by the  *)
(* outermost emit; idempotency keys; the guard that keeps handlers of      *)
(* INDEX events from emitting CORE and CUBE events.                        *)
(*                                                                         *)
(* A dispatch is cut between the call of the handlers and their return,    *)
(* so that a handler can emit in the middle of it.  What an async handler  *)
(* emits after its first await comes when no handler runs.                 *)
(***************************************************************************)
EXTENDS Naturals, Sequences, FiniteSets, SequencesExt

CONSTANTS Key,              \* idempotency keys
          NoKey,            \* an event without one
          MaxProcessedKeys,
          EvictBatch,       \* the keys one eviction drops: a quarter of the above
          MaxLogSize,
          MaxEvents         \* bound: events put into the queue

Scope == {"core", "index"}  \* CUBE events are treated as CORE ones

VARIABLES
    fifo,       \* fifoQueue; `from`: scope of the handler an event came from
    processing, \* _processing
    current,    \* the event whose handlers run, or <<>>
    keys,       \* processedKeys, oldest first
    log,        \* eventLog
    emitted,    \* history: how many events were queued
    evicted,    \* history: the keys ever thrown out of processedKeys
    seen        \* history: the first-attempt events dispatched, per key

vars == <<fifo, processing, current, keys, log, emitted, evicted, seen>>

Init ==
    /\ fifo = <<>> /\ processing = FALSE /\ current = <<>>
    /\ keys = <<>> /\ log = <<>>
    /\ emitted = 0 /\ evicted = {} /\ seen = [k \in Key |-> 0]

-----------------------------------------------------------------------------
CurrentScope == IF current = <<>> THEN "none" ELSE current[1].scope

Known(k) == k # NoKey /\ Contains(keys, k)

\* Mutant: the guard is forgotten.
AllowedAlways(scope) == scope \in Scope

\* The scope guard of emit().
Allowed(scope) == ~(CurrentScope = "index" /\ scope # "index")

\* emit(): queued, and drained at once unless an outer emit is draining.
Emit(scope, k) ==
    /\ emitted < MaxEvents
    /\ Allowed(scope)
    /\ ~Known(k)
    /\ current = <<>> => ~processing
    /\ fifo' = Append(fifo, [scope |-> scope, key |-> k, attempt |-> 1,
                             n |-> emitted + 1, from |-> CurrentScope])
    /\ processing' = TRUE
    /\ emitted' = emitted + 1
    /\ UNCHANGED <<current, keys, log, evicted, seen>>

\* replay(n): the last n events of the log again, without their keys.
Replay(n) ==
    LET again == [i \in 1 .. n |->
            [log[Len(log) - n + i] EXCEPT !.key = NoKey, !.attempt = @ + 1,
                                          !.n = emitted + i]]
    IN  /\ n <= Len(log) /\ emitted + n <= MaxEvents
        /\ current = <<>> => ~processing
        /\ fifo' = fifo \o again
        /\ processing' = TRUE
        /\ emitted' = emitted + n
        /\ UNCHANGED <<current, keys, log, evicted, seen>>

\* Mutant: a key is remembered when its handlers are done, not before.
RememberedLate(k) == keys

\* The key is remembered; an overfull set loses its oldest ones.
Remembered(k) ==
    LET ks == Append(keys, k) IN
    IF k = NoKey THEN keys
    ELSE IF Len(ks) > MaxProcessedKeys
         THEN SubSeq(ks, EvictBatch + 1, Len(ks)) ELSE ks

NextEvent == Head(fifo)

\* _dispatch of the next event: skipped if its key is known by now, else
\* remembered, logged and, if anybody listens, handed to the handlers.
Dispatch ==
    LET e == NextEvent
        duplicate == Known(e.key)
    IN  /\ processing /\ current = <<>> /\ fifo # <<>>
        /\ fifo' = Tail(fifo)
        /\ IF duplicate THEN UNCHANGED <<keys, log, evicted, seen, current>>
           ELSE /\ keys' = Remembered(e.key)
                /\ evicted' = evicted \cup (ToSet(keys) \ ToSet(keys'))
                /\ log' = LET l == Append(log, e) IN
                          IF Len(l) > MaxLogSize THEN Tail(l) ELSE l
                /\ seen' = IF e.key = NoKey THEN seen ELSE [seen EXCEPT ![e.key] = @ + 1]
                /\ current' \in {<<e>>, <<>>}
        /\ UNCHANGED <<processing, emitted>>

\* Mutant: what a handler throws leaves the drain loop, which never goes on.
HandlersThrow == FALSE /\ UNCHANGED vars

\* The handlers return, or throw and are caught one by one.
HandlersDone ==
    /\ current # <<>>
    /\ current' = <<>>
    /\ UNCHANGED <<fifo, processing, keys, log, emitted, evicted, seen>>

\* The drain loop ends.
Drained ==
    /\ processing /\ current = <<>> /\ fifo = <<>>
    /\ processing' = FALSE
    /\ UNCHANGED <<fifo, current, keys, log, emitted, evicted, seen>>

Next ==
    \/ \E s \in Scope, k \in Key \cup {NoKey} : Emit(s, k)
    \/ \E n \in 1 .. MaxLogSize : Replay(n)
    \/ Dispatch \/ HandlersDone \/ Drained

Spec == Init /\ [][Next]_vars

-----------------------------------------------------------------------------
TypeOK ==
    /\ processing \in BOOLEAN
    /\ Len(current) <= 1 /\ Len(log) <= MaxLogSize
    /\ keys \in Seq(Key) /\ Len(keys) <= MaxProcessedKeys

\* An event with a key reaches the handlers once, also when it is emitted
\* again while the first one is still queued; a second time only if its key
\* was thrown out of the bounded set in between.
OnceUnlessEvicted == \A k \in Key : seen[k] > 1 => k \in evicted

\* Nothing that a handler of an INDEX event emits while it runs becomes a CORE
\* event, however emits are nested and queued.
IndexRaisesNoCore ==
    \A i \in DOMAIN fifo : fifo[i].from = "index" => fifo[i].scope = "index"

\* Events reach the handlers in the order in which they were emitted, nested
\* emits and replays included.
FirstInFirstOut ==
    \A i \in DOMAIN log, j \in DOMAIN log : i < j => log[i].n < log[j].n

\* The promises of the bus about single events and their order.
BusSound == TypeOK /\ OnceUnlessEvicted /\ IndexRaisesNoCore /\ FirstInFirstOut

\* The bus never stays busy: a drain that was begun ends, whatever handlers do.
DrainEnds == processing ~> ~processing
=============================================================================
