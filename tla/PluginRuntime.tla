--------------------------- MODULE PluginRuntime ---------------------------
(***************************************************************************)
(* PluginRuntime (plugin/runtime/plugin-runtime.ts) with its dependency    *)
(* graph and circuit breaker, and HotSwapManager (plugin-hotswap.ts).      *)
(*                                                                         *)
(* An invoke() walks the live map of plugins and waits for one handler at  *)
(* a time, at most until its timer fires; everything else may happen in    *)
(* between.  Every plugin extends the extension point that is invoked.     *)
(* The record of a plugin that is uninstalled lives on in the loops that   *)
(* hold it, so that records are counted by generation.                     *)
(***************************************************************************)
EXTENDS Naturals, FiniteSets

CONSTANTS Plugin,
          Deps,          \* manifest deps: [Plugin -> SUBSET Plugin]
          Threshold,     \* CB_THRESHOLD
          Caller,        \* those who invoke, one invoke() at a time
          Hangs,         \* the plugins whose handlers never settle
          MaxInvokes,    \* bound: invoke() calls of one caller
          MaxGen,        \* bound: registrations of one name
          MaxChanges,    \* bound: registrations, transitions, uninstalls, swaps
          Nobody

VARIABLES
    state,     \* record.state by name, "uninstalled" without a record
    gen,       \* how often the name was registered
    errors,    \* record.errors, by name and generation
    old,       \* CB_RESET_MS have passed since record.lastError
    visited,   \* per caller, the names its loop has called
    waitsFor,  \* per caller, the <<name, generation>> it awaits, or Nobody
    invokes,
    swap,      \* the swap() under way: <<old name, new name>>, or <<>>
    quiet,     \* history: nobody else changed a plugin since the swap began
    changes

vars == <<state, gen, errors, old, visited, waitsFor, invokes, swap, quiet, changes>>
loopVars == <<visited, waitsFor, invokes>>

Gen == 1 .. MaxGen
Registered == {p \in Plugin : state[p] # "uninstalled"}
Serving == {p \in Plugin : state[p] \in {"running", "degraded"}}

ValidTransitions ==
    [uninstalled |-> {},
     registered  |-> {"installed", "uninstalled"},
     installed   |-> {"initialized", "uninstalled"},
     initialized |-> {"running", "stopped"},
     running     |-> {"degraded", "stopped"},
     degraded    |-> {"running", "quarantined", "stopped"},
     quarantined |-> {"stopped"},
     stopped     |-> {"initialized", "uninstalled"}]

Init ==
    /\ state = [p \in Plugin |-> "uninstalled"]
    /\ gen = [p \in Plugin |-> 0]
    /\ errors = [p \in Plugin |-> [g \in Gen |-> 0]]
    /\ old = [p \in Plugin |-> [g \in Gen |-> FALSE]]
    /\ visited = [c \in Caller |-> {}]
    /\ waitsFor = [c \in Caller |-> Nobody]
    /\ invokes = [c \in Caller |-> 0]
    /\ swap = <<>> /\ quiet = TRUE /\ changes = 0

-----------------------------------------------------------------------------
\* transition(): refused without a word of it to most callers.
Moved(s, p, to) == IF to \in ValidTransitions[s[p]] THEN [s EXCEPT ![p] = to] ELSE s

Change == changes < MaxChanges /\ changes' = changes + 1

\* register(): the name is free and the dependencies are there.  A new name has
\* no dependents, so that it closes a cycle only if it depends on itself.
CanRegister(p) ==
    p \notin Registered /\ gen[p] < MaxGen /\ Deps[p] \subseteq Registered \ {p}

Register(p) ==
    /\ Change /\ CanRegister(p)
    /\ state' = [state EXCEPT ![p] = "registered"]
    /\ gen' = [gen EXCEPT ![p] = @ + 1]
    /\ quiet' = FALSE
    /\ UNCHANGED <<errors, old, loopVars, swap>>

\* transition() by the owner; "uninstalled" alone does not take the record away,
\* and is left to uninstall().
Transition(p, to) ==
    /\ Change /\ p \in Registered /\ to # "uninstalled"
    /\ to \in ValidTransitions[state[p]]
    /\ state' = Moved(state, p, to)
    /\ quiet' = FALSE
    /\ UNCHANGED <<gen, errors, old, loopVars, swap>>

\* Mutant: the dependents are not asked for.
CanUninstallAnyway(p) == p \in Registered

\* uninstall() is refused while others depend on the plugin.
CanUninstall(p) == p \in Registered /\ \A q \in Registered : p \notin Deps[q]

Uninstall(p) ==
    /\ Change /\ CanUninstall(p)
    /\ state' = [state EXCEPT ![p] = "uninstalled"]
    /\ quiet' = FALSE
    /\ UNCHANGED <<gen, errors, old, loopVars, swap>>

-----------------------------------------------------------------------------
(* invoke()                                                                *)

\* Mutant: the age of the last error is compared the wrong way.
TrippedWhenOld(e, o, p) == e[p][gen[p]] >= Threshold /\ o[p][gen[p]]

\* The breaker is open: shouldTrip.
Tripped(e, o, p) == e[p][gen[p]] >= Threshold /\ ~o[p][gen[p]]

\* The loop goes on from the state s with the errors e: to any plugin it has
\* not called yet, that serves and whose breaker is not open (after a reset,
\* shouldReset, it starts with no errors), or to its end.
GoOn(c, seen, s, e, o) ==
    LET open == {p \in Plugin \ seen :
                   s[p] \in {"running", "degraded"} /\ ~Tripped(e, o, p)}
    IN  IF open = {}
        THEN /\ waitsFor' = [waitsFor EXCEPT ![c] = Nobody]
             /\ visited' = [visited EXCEPT ![c] = {}]
             /\ state' = s /\ errors' = e
        ELSE \E p \in open :
               LET resets == e[p][gen[p]] >= Threshold /\ o[p][gen[p]] IN
               /\ waitsFor' = [waitsFor EXCEPT ![c] = <<p, gen[p]>>]
               /\ visited' = [visited EXCEPT ![c] = seen \cup {p}]
               /\ errors' = IF resets THEN [e EXCEPT ![p][gen[p]] = 0] ELSE e
               /\ state' = IF resets THEN Moved(s, p, "running") ELSE s

\* The call of invoke().
Invoke(c) ==
    /\ waitsFor[c] = Nobody /\ invokes[c] < MaxInvokes
    /\ Serving # {}
    /\ invokes' = [invokes EXCEPT ![c] = @ + 1]
    /\ GoOn(c, {}, state, errors, old)
    /\ UNCHANGED <<gen, old, swap, quiet, changes>>

\* The handler answers.
Answers(c) ==
    /\ waitsFor[c] # Nobody /\ waitsFor[c][1] \notin Hangs
    /\ GoOn(c, visited[c], state, errors, old)
    /\ UNCHANGED <<gen, old, invokes, swap, quiet, changes>>

\* Mutant: there is no timer.
FailsByThrow(c) == FALSE /\ UNCHANGED vars

\* The handler throws, or the timer fires: the error is booked to the record
\* the loop holds; the transition goes to whoever has the name now.
Fails(c) ==
    LET p == waitsFor[c][1]
        g == waitsFor[c][2]
        e == [errors EXCEPT ![p][g] = IF @ < Threshold + Cardinality(Caller) THEN @ + 1 ELSE @]
        o == [old EXCEPT ![p][g] = FALSE]
        s == IF e[p][g] >= Threshold THEN Moved(state, p, "degraded") ELSE state
    IN  /\ waitsFor[c] # Nobody
        /\ old' = o
        /\ GoOn(c, visited[c], s, e, o)
        /\ UNCHANGED <<gen, invokes, swap, quiet, changes>>

\* CB_RESET_MS pass without an error.
Cools(p) ==
    /\ p \in Registered /\ errors[p][gen[p]] > 0 /\ ~old[p][gen[p]]
    /\ old' = [old EXCEPT ![p][gen[p]] = TRUE]
    /\ UNCHANGED <<state, gen, errors, loopVars, swap, quiet, changes>>

-----------------------------------------------------------------------------
\* Mutant: the old version is stopped before the new one runs.
SwapStopsFirst(p, q) ==
    /\ Change /\ swap = <<>> /\ CanRegister(q) /\ p # q
    /\ state' = [Moved(state, p, "stopped") EXCEPT ![q] = "initialized"]
    /\ gen' = [gen EXCEPT ![q] = @ + 1]
    /\ swap' = <<p, q>> /\ quiet' = (p \in Serving)
    /\ UNCHANGED <<errors, old, loopVars>>

\* swap(p, q): the new version is registered and brought up to running before
\* the old one drains.
SwapBegins(p, q) ==
    /\ Change /\ swap = <<>> /\ CanRegister(q) /\ p # q
    /\ state' = [state EXCEPT ![q] = "running"]
    /\ gen' = [gen EXCEPT ![q] = @ + 1]
    /\ swap' = <<p, q>> /\ quiet' = (p \in Serving)
    /\ UNCHANGED <<errors, old, loopVars>>

\* After the drain time the old version is stopped and, unless others depend on
\* it, uninstalled.
SwapEnds ==
    LET p == swap[1]
        s == IF p \in Serving THEN Moved(state, p, "stopped") ELSE state
    IN  /\ swap # <<>>
        /\ state' = IF s[p] = "stopped" /\ CanUninstall(p)
                    THEN [s EXCEPT ![p] = "uninstalled"] ELSE s
        /\ swap' = <<>>
        /\ UNCHANGED <<gen, errors, old, loopVars, quiet, changes>>

Next ==
    \/ \E p \in Plugin :
         \/ Register(p) \/ Uninstall(p) \/ Cools(p)
         \/ \E to \in DOMAIN ValidTransitions : Transition(p, to)
         \/ \E q \in Plugin : SwapBegins(p, q)
    \/ \E c \in Caller : Invoke(c) \/ Answers(c) \/ Fails(c)
    \/ SwapEnds

Spec == Init /\ [][Next]_vars

-----------------------------------------------------------------------------
TypeOK ==
    /\ state \in [Plugin -> DOMAIN ValidTransitions]
    /\ gen \in [Plugin -> 0 .. MaxGen]
    /\ waitsFor \in [Caller -> (Plugin \X Gen) \cup {Nobody}]
    /\ visited \in [Caller -> SUBSET Plugin]

\* Whatever is registered, uninstalled and swapped, the dependencies of a
\* registered plugin are registered.
DepsThere == \A p \in Registered : Deps[p] \subseteq Registered

\* The breaker holds however many invocations overlap: a record collects no
\* more errors than the threshold and one for each other caller.
BreakerBounds ==
    \A p \in Plugin, g \in Gen : errors[p][g] < Threshold + Cardinality(Caller)

\* While a swap that nobody disturbs drains, one of the two versions serves.
SwapLeavesNoGap ==
    swap # <<>> /\ quiet => swap[1] \in Serving \/ swap[2] \in Serving

\* Every invoke() ends, even if handlers hang and plugins come and go meanwhile.
InvokeEnds == \A c \in Caller : waitsFor[c] # Nobody ~> waitsFor[c] = Nobody
=============================================================================
