--------------------------- MODULE PluginRegistry ---------------------------
(***************************************************************************)
(* PluginRegistry (plugin/registry/): registration checked by the security *)
(* layer and the graph resolver, activation and deactivation by the        *)
(* lifecycle manager and the sandbox runner, the graph of subscriptions.   *)
(*                                                                         *)
(* activate and deactivate are cut where they wait for the plugin's own    *)
(* init and shutdown; any other call may come in between.                  *)
(***************************************************************************)
EXTENDS Naturals, FiniteSets

CONSTANTS Plugin,
          Manifest,   \* [Plugin -> [version, dependencies, platform, points, provides,
                      \*             permissions, isolation]]
          Platform,   \* cfg.platformVersion
          Adapter,    \* the name of the sandbox adapter
          Faulty,     \* the plugins whose init() and shutdown() throw
          MaxPlugins,
          MaxCalls    \* bound: calls of activate, deactivate and suspend

VARIABLES
    status,     \* lifecycle entry's status, "none" without one
    graph,      \* PluginDependencyGraph.edges: <<subscriber, publisher>>
    memory,     \* PluginSandboxRunner.memories
    inits,      \* init() calls under way, per plugin
    stops,      \* shutdown() calls under way, per plugin
    calls,
    overlapped  \* history: a call was made while another about the same plugin waited

vars == <<status, graph, memory, inits, stops, calls, overlapped>>

Status == {"none", "registered", "initializing", "active", "failed",
           "shutting_down", "stopped", "suspended"}

Registered == {p \in Plugin : status[p] # "none"}

Init ==
    /\ status = [p \in Plugin |-> "none"]
    /\ graph = {} /\ memory = {}
    /\ inits = [p \in Plugin |-> 0] /\ stops = [p \in Plugin |-> 0]
    /\ calls = 0 /\ overlapped = {}

-----------------------------------------------------------------------------
\* The isolation that an adapter declares, and whom it is enough for.
Rank == [none |-> 0, simulated |-> 1, process |-> 2, container |-> 3, vm |-> 4]
ProvidedBy(adapter) ==
    CASE adapter = "mock" -> "simulated" [] adapter = "process" -> "process" [] OTHER -> "none"
Isolated == {p \in Plugin : Rank[ProvidedBy(Adapter)] >= Rank[Manifest[p].isolation]}

\* A version has the numbers at; of a pre-release, or of a range that names one, the
\* patch is not a number, and compares as false.
PatchFrom(v, r) == ~v.pre /\ ~r.pre /\ v.at[3] >= r.at[3]
FromMinor(v, r) == v.at[2] > r.at[2] \/ (v.at[2] = r.at[2] /\ PatchFrom(v, r))

\* satisfiesVersion: caret, tilde, at least; anything else is an exact version.
Satisfies(v, r) ==
    CASE r.op = "^" /\ v.at[1] = 0 ->
             r.at[1] = 0 /\ v.at[2] = r.at[2] /\ PatchFrom(v, r)
      [] r.op = "^" /\ v.at[1] # 0 -> v.at[1] = r.at[1] /\ FromMinor(v, r)
      [] r.op = "~"  -> v.at[1] = r.at[1] /\ v.at[2] = r.at[2] /\ PatchFrom(v, r)
      [] r.op = ">=" -> v.at[1] > r.at[1] \/ (v.at[1] = r.at[1] /\ FromMinor(v, r))
      [] OTHER -> v.at = r.at /\ ~v.pre /\ ~r.pre

\* validateManifest: a scoring permission needs the extension point it scores for.
ValidManifest(m) ==
    /\ m.points # {}
    /\ "write:pulse_score" \in m.permissions => "pulse_hook" \in m.points
    /\ "write:search_score" \in m.permissions => "search" \in m.points

\* _validateImplementations
Implemented(m) == m.provides = m.points

Dependencies(p) == DOMAIN Manifest[p].dependencies
Met(p, q) == Satisfies(Manifest[q].version, Manifest[p].dependencies[q])

\* Mutant: a dependency may come later.
ValidEarly(p) == p \notin Registered /\ Cardinality(Registered) < MaxPlugins

\* validateForRegistration: room, a new name, a platform and dependencies that fit.
Valid(p) ==
    /\ p \notin Registered
    /\ Cardinality(Registered) < MaxPlugins
    /\ ValidManifest(Manifest[p]) /\ Implemented(Manifest[p])
    /\ Satisfies(Platform, Manifest[p].platform)
    /\ \A q \in Dependencies(p) : q \in Registered /\ Met(p, q)

\* Is there a path in g?  (_findPath)  Then b is in whatever is closed under g from a on.
Reaches(g, a, b) ==
    \A S \in SUBSET Plugin :
        (\A e \in g : e[1] \in S \cup {a} => e[2] \in S) => b \in S

\* applySubscriptions takes all of them, or none if one closes a cycle.
Subscribes(p, targets) == \A t \in targets : t # p /\ ~Reaches(graph, t, p)

\* register(): the targets of subscriptions have to be registered already.
Register(p, targets) ==
    /\ Valid(p)
    /\ targets \subseteq Registered
    /\ Subscribes(p, targets)
    /\ graph' = graph \cup {<<p, t>> : t \in targets}
    /\ status' = [status EXCEPT ![p] = "registered"]
    /\ UNCHANGED <<memory, inits, stops, calls, overlapped>>

Call(p) ==
    /\ calls < MaxCalls /\ calls' = calls + 1
    /\ overlapped' = IF inits[p] + stops[p] > 0 THEN overlapped \cup {p} ELSE overlapped

\* Mutant: the isolation is not looked at.
ActivateAnywhere(p) ==
    /\ Call(p) /\ p \in Registered /\ status[p] # "active"
    /\ status' = [status EXCEPT ![p] = "initializing"]
    /\ memory' = memory \cup {p} /\ inits' = [inits EXCEPT ![p] = @ + 1]
    /\ UNCHANGED <<graph, stops>>

\* activate(), up to the await of init(); nothing for an active plugin.
Activate(p) ==
    /\ Call(p) /\ p \in Registered /\ status[p] # "active"
    /\ IF p \in Isolated
       THEN /\ status' = [status EXCEPT ![p] = "initializing"]
            /\ memory' = memory \cup {p}
            /\ inits' = [inits EXCEPT ![p] = @ + 1]
       ELSE /\ status' = [status EXCEPT ![p] = "failed"]
            /\ UNCHANGED <<memory, inits>>
    /\ UNCHANGED <<graph, stops>>

\* Mutant: nobody waits for an init() that throws.
InitThrowsThrough(p) ==
    /\ inits[p] > 0 /\ p \notin Faulty
    /\ inits' = [inits EXCEPT ![p] = @ - 1]
    /\ status' = [status EXCEPT ![p] = "active"]
    /\ UNCHANGED <<graph, memory, stops, calls, overlapped>>

\* activate(), after the await: the status is set whatever became of it meanwhile.
Activated(p) ==
    status' = [status EXCEPT ![p] = IF p \in Faulty THEN "failed" ELSE "active"]

\* init() returns, throws or runs out of time.
InitSettles(p) ==
    /\ inits[p] > 0
    /\ inits' = [inits EXCEPT ![p] = @ - 1]
    /\ Activated(p)
    /\ UNCHANGED <<graph, memory, stops, calls, overlapped>>

\* deactivate(), in any state, up to the await of shutdown().
Deactivate(p) ==
    /\ Call(p) /\ p \in Registered
    /\ status' = [status EXCEPT ![p] = "shutting_down"]
    /\ stops' = [stops EXCEPT ![p] = @ + 1]
    /\ UNCHANGED <<graph, memory, inits>>

\* removeAllForPlugin.
WithoutEdges(p) == {e \in graph : p \notin {e[1], e[2]}}

\* Mutant: a shutdown() that throws leaves the memory.
ShutdownKeepsMemory(p) ==
    /\ stops[p] > 0
    /\ stops' = [stops EXCEPT ![p] = @ - 1]
    /\ memory' = IF p \in Faulty THEN memory ELSE memory \ {p}
    /\ status' = [status EXCEPT ![p] = "stopped"]
    /\ graph' = WithoutEdges(p)
    /\ UNCHANGED <<inits, calls, overlapped>>

\* shutdown() returns or throws: either way the memory goes, and the plugin
\* leaves the graph.
ShutdownSettles(p) ==
    /\ stops[p] > 0
    /\ stops' = [stops EXCEPT ![p] = @ - 1]
    /\ memory' = memory \ {p}
    /\ status' = [status EXCEPT ![p] = "stopped"]
    /\ graph' = WithoutEdges(p)
    /\ UNCHANGED <<inits, calls, overlapped>>

Suspend(p) ==
    /\ Call(p) /\ p \in Registered
    /\ status' = [status EXCEPT ![p] = "suspended"]
    /\ UNCHANGED <<graph, memory, inits, stops>>

Next ==
    \E p \in Plugin :
        \/ \E ts \in SUBSET (Plugin \ {p}) : Register(p, ts)
        \/ Activate(p) \/ Deactivate(p) \/ Suspend(p)
        \/ InitSettles(p) \/ ShutdownSettles(p)

Spec == Init /\ [][Next]_vars

-----------------------------------------------------------------------------
TypeOK ==
    /\ status \in [Plugin -> Status]
    /\ graph \subseteq Plugin \X Plugin
    /\ memory \subseteq Plugin
    /\ inits \in [Plugin -> 0 .. MaxCalls] /\ stops \in [Plugin -> 0 .. MaxCalls]

\* What a plugin depends on or listens to is registered, and no plugin listens
\* to itself through others.
GraphSound ==
    /\ \A p \in Registered : Dependencies(p) \subseteq Registered
    /\ \A e \in graph : {e[1], e[2]} \subseteq Registered
    /\ \A p \in Plugin : ~Reaches(graph, p, p)

\* A range takes the releases from its own version up to the next that may break
\* (the minor one below 1.0.0), and a pre-release only if it takes the release before.
Releases == {[at |-> <<x, y, z>>, pre |-> FALSE] : x, y, z \in 0..2}
Number(v) == 100 * v.at[1] + 10 * v.at[2] + v.at[3]
Breaks(r) ==
    CASE r.op = "^" /\ r.at[1] > 0 -> 100 * (r.at[1] + 1)
      [] r.op = "~" \/ (r.op = "^" /\ r.at[1] = 0) -> 100 * r.at[1] + 10 * (r.at[2] + 1)
      [] r.op = ">=" -> 1000 [] OTHER -> Number(r) + 1
RangesOrdered ==
    (calls = 0 /\ Registered = {}) =>
    \A v, w \in Releases, op \in {"^", "~", ">=", "="} :
        LET r == [op |-> op, at |-> w.at, pre |-> FALSE] IN
        /\ Satisfies(v, r) <=> Number(w) <= Number(v) /\ Number(v) < Breaks(r)
        /\ Satisfies([v EXCEPT !.pre = TRUE], r) => Satisfies([v EXCEPT !.at[3] = 0], r)

\* No plugin runs in a weaker isolation than it asked for, whatever calls
\* overlap.
NeverWeaker == \A p \in Plugin : status[p] = "active" => p \in Isolated

\* If the calls about a plugin never overlap, its status tells the truth: an
\* active plugin has its memory, a stopped one has neither memory nor edges to
\* the plugins it listened to.
StatusTrue ==
    \A p \in Plugin \ overlapped :
        /\ status[p] = "active" => p \in memory
        /\ status[p] = "stopped" => p \notin memory /\ \A t \in Plugin : <<p, t>> \notin graph

\* Initialising and shutting down come to an end when the plugin's own code does.
TransitionsEnd ==
    \A p \in Plugin : status[p] \in {"initializing", "shutting_down"} ~>
                      status[p] \notin {"initializing", "shutting_down"}
=============================================================================
