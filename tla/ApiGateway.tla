----------------------------- MODULE ApiGateway -----------------------------
(***************************************************************************)
(* The HTTP interface of the search (api/): ApiServer dispatches requests  *)
(* to the handlers, RateLimiter grants them tokens, RequestValidator looks *)
(* at what they ask, SearchAdapter and StreamEngine ask the search engine. *)
(*                                                                         *)
(* A request is its method, path and client headers, and of its body or    *)
(* query the numbers that are checked: a text is its length, a field that  *)
(* is absent is not in the DOMAIN, None is a value of another type (no     *)
(* number, null).  The engine answers before any timer may fire, for it    *)
(* awaits nothing; so the time-outs of the adapter and of the stream never *)
(* win, and a request waits only for its body and for the port.            *)
(***************************************************************************)
EXTENDS Integers, Sequences, FiniteSets, FiniteSetsExt, Functions

CONSTANTS Request,           \* requests
          Input,             \* what a request may be
          RequestsPerMinute, \* tokens of a full bucket
          BurstLimit,        \* the most a check costs
          Refill,            \* tokens per unit of time
          BucketTtl,         \* a bucket untouched for longer is dropped
          MaxTime,           \* bound: the clock
          MaxStarts,         \* bound: calls of start and of stop
          None

VARIABLES server,    \* "closed", "opening", "open" or "closing"
          started,   \* _started
          cleanup,   \* whether the interval of the limiter runs
          buckets,   \* client -> [tokens, lastRefill]
          now,
          input,     \* request -> what it is
          stage,     \* request -> "new", "reading" or "answered"
          answer,    \* request -> its statuses and events, in the order of writing
          allowance, \* client -> tokens that are left of those it was ever promised
          calls      \* calls of start and of stop so far

limiterVars == <<cleanup, buckets, allowance>>
requestVars == <<input, stage, answer>>
vars == <<server, started, now, limiterVars, requestVars, calls>>

-----------------------------------------------------------------------------
(* RequestValidator. *)

QueryLength == 2..500
Limits == 1..100
Offsets == 0..10000
TagsMax == 20
TagLengths == 0..64
Coords == 0..10
Weights == 0..100        \* hundredths
WeightFields == {"semantic", "structural", "metadata", "recency"}

Has(b, field) == field \in DOMAIN b
\* _validateString, with a text that has to be there; _validateInt, of a number
\* that has a default.
Text(b, field, lengths) == Has(b, field) /\ b[field] # None /\ b[field] \in lengths
Whole(b, field, default, range) == ~Has(b, field) \/ (b[field] # None /\ b[field] \in range)

ValidateFilter(f) ==
    IF f = None THEN "invalid"
    ELSE IF Has(f, "coord") /\ f.coord = None THEN "throws"
    ELSE IF /\ Has(f, "tags") => /\ f.tags # None /\ Len(f.tags) <= TagsMax
                                 /\ \A i \in DOMAIN f.tags : f.tags[i] \in TagLengths
            /\ Has(f, "coord") => \A i \in 1..3 : f.coord[i] # None /\ f.coord[i] \in Coords
    THEN "ok" ELSE "invalid"

\* A weight that is none is an error by itself and not in the sum.
ValidateWeights(w) ==
    /\ w # None
    /\ \A field \in DOMAIN w \intersect WeightFields : w[field] # None /\ w[field] \in Weights
    /\ MapThenSumSet(LAMBDA field : w[field], DOMAIN w \intersect WeightFields) <= 105

\* validateSearch: a body that is no object is refused before its fields are looked at.
ValidateSearch(b) ==
    IF b = None THEN "invalid"
    ELSE LET filter == IF Has(b, "filter") THEN ValidateFilter(b.filter) ELSE "ok" IN
         IF filter = "throws" THEN "throws"
         ELSE IF /\ Text(b, "query", QueryLength)
                 /\ Whole(b, "limit", 20, Limits) /\ Whole(b, "offset", 0, Offsets)
                 /\ filter = "ok" /\ (Has(b, "weights") => ValidateWeights(b.weights))
         THEN "ok" ELSE "invalid"

ValidateStream(q) ==
    IF Text(q, "query", QueryLength) /\ Whole(q, "limit", 20, Limits)
    THEN "ok" ELSE "invalid"

-----------------------------------------------------------------------------
(* RateLimiter: what a client has left, and a check that takes of it. *)

ExtractKey(r) == IF r.forwarded # <<>> THEN r.forwarded[1]
                 ELSE IF r.real # None THEN r.real ELSE "unknown"

GetBucket(key) ==
    IF key \in DOMAIN buckets THEN buckets[key]
    ELSE [tokens |-> RequestsPerMinute, lastRefill |-> now]

AtMost(a, b) == IF a < b THEN a ELSE b

Refilled(bucket) ==
    [tokens |-> AtMost(bucket.tokens + (now - bucket.lastRefill) * Refill, RequestsPerMinute),
     lastRefill |-> now]

Cost(path) == AtMost(IF path = "/search/stream" THEN 2 ELSE 1, BurstLimit)

Put(f, k, v) == [x \in DOMAIN f \union {k} |-> IF x = k THEN v ELSE f[x]]

\* check: a refusal costs nothing, but the bucket is there and refilled.
Checked(key, cost) == Refilled(GetBucket(key)).tokens >= cost
Check(key, cost) ==
    LET bucket == Refilled(GetBucket(key))
        paid == IF bucket.tokens < cost THEN 0 ELSE cost
    IN  /\ buckets' = Put(buckets, key, [bucket EXCEPT !.tokens = @ - paid])
        /\ allowance' = [allowance EXCEPT ![key] = @ - paid]
        /\ UNCHANGED cleanup

Cleanup ==
    /\ cleanup
    /\ LET kept == {k \in DOMAIN buckets : buckets[k].lastRefill >= now - BucketTtl} IN
       /\ kept # DOMAIN buckets /\ buckets' = Restrict(buckets, kept)
    /\ UNCHANGED <<server, started, now, cleanup, allowance, requestVars, calls>>

Tick ==
    /\ now < MaxTime /\ now' = now + 1
    /\ allowance' = [k \in DOMAIN allowance |-> AtMost(allowance[k] + Refill, RequestsPerMinute)]
    /\ UNCHANGED <<server, started, cleanup, buckets, requestVars, calls>>

-----------------------------------------------------------------------------
(* The handlers: what they answer. *)

\* ErrorHandler with ERROR_STATUS_MAP: what is no SystemError is an error of the server.
StatusOf == [ok |-> "200", invalid |-> "400", limited |-> "429", throws |-> "500"]

\* StreamEngine.stream: the events of an answer that comes at once.
StreamEvents == <<"heartbeat", "candidate", "scoring", "ranking", "final">>
FailedEvents == <<"heartbeat", "error">>

\* The SearchEngine: it throws where it is broken.
Asked(r) == IF r.breaks THEN "throws" ELSE "ok"

\* handleSearch.
HandleSearch(r) ==
    LET valid == ValidateSearch(r.body) IN
    IF ~Checked(ExtractKey(r), Cost(r.path)) THEN "limited"
    ELSE IF valid # "ok" THEN valid ELSE Asked(r)

\* handleStream: the status went out before; a refusal is an event.
HandleStream(r) ==
    IF ~Checked(ExtractKey(r), Cost(r.path)) \/ ValidateStream(r.query) # "ok"
    THEN <<"200", "error">>
    ELSE <<"200">> \o (IF r.breaks THEN FailedEvents ELSE StreamEvents)

\* handleResolve.
HandleResolve(r) ==
    IF ~Checked(ExtractKey(r), Cost(r.path)) THEN "limited"
    ELSE IF ~Has(r.query, "query") \/ r.query.query < 2 THEN "invalid" ELSE Asked(r)

-----------------------------------------------------------------------------
(* ApiServer. *)

Init ==
    /\ server = "closed" /\ started = FALSE /\ cleanup = TRUE /\ buckets = <<>> /\ now = 0
    /\ input \in [Request -> Input] /\ stage = [r \in Request |-> "new"]
    /\ answer = [r \in Request |-> <<>>]
    /\ allowance = [k \in {ExtractKey(r) : r \in Input} |-> RequestsPerMinute]
    /\ calls = 0

Called == calls < MaxStarts /\ calls' = calls + 1

\* start: a server that listens already throws.
Start ==
    /\ Called /\ server' = IF server = "closed" THEN "opening" ELSE server
    /\ UNCHANGED <<started, now, limiterVars, requestVars>>

Listening ==
    /\ server = "opening" /\ server' = "open" /\ started' = TRUE
    /\ UNCHANGED <<now, limiterVars, requestVars, calls>>

\* The port is taken: "error" rejects.
ListenFails ==
    /\ server = "opening" /\ server' = "closed"
    /\ UNCHANGED <<started, now, limiterVars, requestVars, calls>>

\* stop: the limiter cleans up no more, whether the server was open or not.
Stop ==
    /\ Called /\ server # "opening"
    /\ cleanup' = FALSE /\ server' = IF server = "open" THEN "closing" ELSE server
    /\ UNCHANGED <<started, now, buckets, allowance, requestVars>>

\* The callback of close, once no request is under way.
Closed ==
    /\ server = "closing" /\ \A r \in Request : stage[r] # "reading"
    /\ server' = "closed" /\ started' = FALSE
    /\ UNCHANGED <<now, limiterVars, requestVars, calls>>

Answers(r, what) ==
    stage' = [stage EXCEPT ![r] = "answered"] /\ answer' = [answer EXCEPT ![r] = @ \o what]

\* _dispatch, up to the first await.
Dispatch(r) ==
    LET req == input[r] route == <<req.method, req.path>> IN
    /\ server = "open" /\ stage[r] = "new"
    /\ IF route = <<"POST", "/search">>
       THEN stage' = [stage EXCEPT ![r] = "reading"] /\ UNCHANGED <<answer, limiterVars>>
       ELSE IF route = <<"GET", "/search/stream">>
       THEN Check(ExtractKey(req), Cost(req.path)) /\ Answers(r, HandleStream(req))
       ELSE IF route = <<"GET", "/search/resolve">>
       THEN Check(ExtractKey(req), Cost(req.path)) /\ Answers(r, <<StatusOf[HandleResolve(req)]>>)
       ELSE /\ Answers(r, <<IF req.method = "OPTIONS" THEN "204"
                            ELSE IF route = <<"GET", "/health">> THEN "200" ELSE "404">>)
            /\ UNCHANGED limiterVars
    /\ UNCHANGED <<server, started, now, input, calls>>

\* _readBody ends: what cannot be parsed is an empty object.  The token is taken now.
BodyRead(r) ==
    LET req == input[r] IN
    /\ stage[r] = "reading" /\ Check(ExtractKey(req), Cost(req.path))
    /\ Answers(r, <<StatusOf[HandleSearch(req)]>>)
    /\ UNCHANGED <<server, started, now, input, calls>>

\* The connection breaks: _dispatch rejects, and the answer of the handler of
\* createServer goes nowhere.
BodyFails(r) ==
    /\ stage[r] = "reading" /\ Answers(r, <<"500">>)
    /\ UNCHANGED <<server, started, now, limiterVars, input, calls>>

Next ==
    \/ Tick \/ Cleanup \/ Start \/ Listening \/ ListenFails \/ Stop \/ Closed
    \/ \E r \in Request : Dispatch(r) \/ BodyRead(r) \/ BodyFails(r)

Spec == Init /\ [][Next]_vars

-----------------------------------------------------------------------------
\* RateLimiter: to drop a bucket is to lose nothing: whenever a client comes, it
\* has the tokens it has of one bucket that is refilled all the time, and never
\* dropped; what was refused took none.
AllowanceKept ==
    \A k \in DOMAIN allowance : Refilled(GetBucket(k)).tokens = allowance[k] /\ allowance[k] >= 0

\* ApiServer: isRunning tells the truth, and a server that has closed left no
\* request without its answer.
ClosedWhenDone ==
    /\ started <=> server \in {"open", "closing"}
    /\ server \in {"closed", "opening"} => \A r \in Request : stage[r] # "reading"

\* Every request is answered once: with one status, and a stream with "final" or
\* one "error" at its end.
AnsweredOnce ==
    \A r \in Request :
        IF stage[r] # "answered" THEN answer[r] = <<>>
        ELSE IF <<input[r].method, input[r].path>> = <<"GET", "/search/stream">>
        THEN /\ answer[r][1] = "200" /\ answer[r][Len(answer[r])] \in {"final", "error"}
             /\ \A i \in 1..Len(answer[r]) - 1 : answer[r][i] \notin {"final", "error"}
        ELSE Len(answer[r]) = 1

\* What the engine is asked is valid, whatever the body: an answer 200 had a query of
\* the length allowed, and a request is refused as one too many only where another
\* request took a token.
OnlyValidAsked ==
    \A r \in Request :
        LET req == input[r] IN
        /\ req.path = "/search" /\ answer[r] = <<"200">> => req.body # None /\ req.body.query >= 2
        /\ answer[r] = <<"429">> =>
             \E s \in Request \ {r} : answer[s] # <<>> /\ ExtractKey(input[s]) = ExtractKey(req)
=============================================================================
