------------------------------ MODULE Dashboard ------------------------------
(***************************************************************************)
(* The two pages a node serves: ui/app/index.html, which polls /health and *)
(* searches, and /app, which polls /health and then /api/pulse.  Neither   *)
(* waits for one request before it makes the next, and answers arrive in   *)
(* any order.  The node answers what it likes: with the number of its      *)
(* peers, with a pulse that never falls, or not at all.                    *)
(***************************************************************************)
EXTENDS Integers, Sequences, FiniteSets

CONSTANTS MaxPolls,      \* polls a page makes while it is open
          MaxPending,    \* of which may be under way (every 3 s, for 4 s at most)
          MaxPeers, MaxPulse, MaxSearches, None

VARIABLES page,                       \* the page that is open
          asked, pending, label, peers, failCount,    \* index.html: health
          silent, crashed,            \* polls in a row the node did not answer; a failed render
          typed, searching, results, overlapped,      \* index.html: search
          pulse,                      \* the node's pulse
          refreshes, dot, number,     \* /app: refreshes under way, what it shows
          newest, overtaken

healthVars == <<asked, pending, label, peers, failCount, silent, crashed>>
searchVars == <<typed, searching, results, overlapped>>
appVars == <<pulse, refreshes, dot, number, newest, overtaken>>
vars == <<page, healthVars, searchVars, appVars>>

\* loadDemoData: until the node answers, and where it never does, the page shows itself a
\* leader with three sample peers (here 0).
Init ==
    /\ page \in {"index", "app"}
    /\ asked = 0 /\ pending = {} /\ label = "active" /\ peers = 0 /\ failCount = 0
    /\ silent = 0 /\ crashed = FALSE
    /\ typed = 0 /\ searching = {} /\ results = [kind |-> "none", of |-> 0] /\ overlapped = FALSE
    /\ pulse = 1 /\ refreshes = [r \in {} |-> None] /\ dot = "on" /\ number = None
    /\ newest = 0 /\ overtaken = FALSE

--------------------------------------------------------------------------------
\* connectEventStream, pollFallback: the first poll at once, the others by the interval.
Poll ==
    /\ page = "index" /\ asked < MaxPolls /\ Cardinality(pending) < MaxPending
    /\ asked' = asked + 1 /\ pending' = pending \union {asked + 1}
    /\ UNCHANGED <<page, label, peers, failCount, silent, crashed, searchVars, appVars>>

\* updateNodeStatus.
Labelled(status) == label' = IF status = "offline" THEN "offline" ELSE "active"
\* The catch of checkHealth: offline at the third failure in a row.
PollFailed ==
    /\ failCount' = failCount + 1
    /\ IF failCount + 1 >= 3 THEN Labelled("offline") ELSE UNCHANGED label
\* renderPeers goes through a list; a number has no items, but zero leaves what was there.
Renders(shown) == shown = 0
\* checkHealth, answered: the label turns active, the peers are drawn and the count starts
\* again; where the drawing throws, the answer counts as a failure.
HealthArrives(n) ==
    LET now == IF n = 0 THEN peers ELSE n IN
    /\ peers' = now /\ silent' = 0
    /\ IF Renders(now) THEN /\ failCount' = 0 /\ Labelled("active") /\ UNCHANGED crashed
       ELSE /\ failCount' = failCount + 1 /\ crashed' = TRUE
            /\ Labelled(IF failCount + 1 >= 3 THEN "offline" ELSE "active")
CheckHealth(p) ==
    /\ p \in pending /\ pending' = pending \ {p}
    /\ \/ \E n \in 0..MaxPeers : HealthArrives(n)
       \/ PollFailed /\ silent' = silent + 1 /\ UNCHANGED <<peers, crashed>>
    /\ UNCHANGED <<page, asked, searchVars, appVars>>

--------------------------------------------------------------------------------
\* doSearch: the field is not locked, so a second query may be typed while one is under way.
DoSearch ==
    /\ page = "index" /\ typed < MaxSearches
    /\ typed' = typed + 1 /\ searching' = searching \union {typed + 1}
    /\ overlapped' = (overlapped \/ searching # {})
    /\ results' = [kind |-> "waiting", of |-> typed + 1]
    /\ UNCHANGED <<page, healthVars, appVars>>
\* Its answer, whichever query the field now holds: hits, none (what /search of main.ts
\* sends has no length), or demo data where one of the samples has the word.
SearchAnswered(q, kind) ==
    /\ q \in searching /\ searching' = searching \ {q}
    /\ results' = [kind |-> kind, of |-> q]
    /\ UNCHANGED <<page, healthVars, typed, overlapped, appVars>>

--------------------------------------------------------------------------------
\* /app: refresh, and every 3 s again; a fetch here has no timeout.
Refresh ==
    /\ page = "app" /\ asked < MaxPolls /\ Cardinality(DOMAIN refreshes) < MaxPending
    /\ asked' = asked + 1
    /\ refreshes' = [r \in DOMAIN refreshes \union {asked + 1} |->
                        IF r = asked + 1 THEN [at |-> "health", got |-> None] ELSE refreshes[r]]
    /\ UNCHANGED <<page, pending, label, peers, failCount, silent, crashed, searchVars, pulse,
                   dot, number, newest, overtaken>>
\* The node answers with its pulse of that moment, and the answer is on its way.
NodeAnswers(r) ==
    /\ r \in DOMAIN refreshes /\ refreshes[r] = [at |-> "health", got |-> None]
    /\ refreshes' = [refreshes EXCEPT ![r].got = pulse]
    /\ overtaken' = (overtaken \/ \E s \in DOMAIN refreshes : s < r /\ refreshes[s].got = None)
    /\ UNCHANGED <<page, healthVars, searchVars, pulse, dot, number, newest>>
\* It is shown, and the ranking is asked for.
HealthShown(r) ==
    /\ r \in DOMAIN refreshes /\ refreshes[r].at = "health" /\ refreshes[r].got # None
    /\ dot' = "on" /\ number' = refreshes[r].got
    /\ newest' = IF refreshes[r].got > newest THEN refreshes[r].got ELSE newest
    /\ overtaken' = (overtaken \/ \E s \in DOMAIN refreshes : s < r /\ refreshes[s].at = "health")
    /\ refreshes' = [refreshes EXCEPT ![r].at = "ranking"]
    /\ UNCHANGED <<page, healthVars, searchVars, pulse>>
\* The end of a refresh, with the list or with an error of either fetch.
RefreshEnds(r, failed) ==
    /\ r \in DOMAIN refreshes /\ (failed \/ refreshes[r].at = "ranking")
    /\ refreshes' = [s \in DOMAIN refreshes \ {r} |-> refreshes[s]]
    /\ dot' = IF failed THEN "off" ELSE dot
    /\ UNCHANGED <<page, healthVars, searchVars, pulse, number, newest, overtaken>>
PulseTicks ==
    /\ page = "app" /\ pulse < MaxPulse /\ pulse' = pulse + 1
    /\ UNCHANGED <<page, healthVars, searchVars, refreshes, dot, number, newest, overtaken>>

Next ==
    \/ Poll \/ \E p \in pending : CheckHealth(p)
    \/ DoSearch
    \/ \E q \in searching, kind \in {"hits", "empty", "error", "demo"} : SearchAnswered(q, kind)
    \/ Refresh \/ PulseTicks
    \/ \E r \in DOMAIN refreshes :
           NodeAnswers(r) \/ HealthShown(r) \/ \E failed \in BOOLEAN : RefreshEnds(r, failed)

Spec == Init /\ [][Next]_vars
--------------------------------------------------------------------------------
TypeOK ==
    /\ label \in {"active", "offline"} /\ peers \in 0..MaxPeers
    /\ failCount \in 0..MaxPolls /\ pending \subseteq 1..asked

\* index.html:1067, "offline when it fails three times in a row": the page says OFFLINE
\* exactly when the node left three polls in a row unanswered, in whatever order they came
\* back; but for a page that could not draw the number of peers it was given.
OfflineHonest == ~crashed => (label = "offline" <=> silent >= 3)

\* index.html, doSearch: what is shown belongs to the last query typed, unless two queries
\* were under way at once.
ResultsOfLast == ~overlapped => results.of = typed

\* /app: the pulse shown never goes back, unless a refresh overtook an earlier one.
PulseForward == ~overtaken /\ number # None => number = newest
================================================================================
