--------------------------- MODULE PluginAutonomy ---------------------------
(***************************************************************************)
(* What keeps plugins in check (plugin/autonomy/, plugin/coordination/,    *)
(* plugin/runtime/plugin-telemetry.ts and plugin-intelligence.ts,          *)
(* stability/drift-detector.ts).  ExecutionBudgetManager counts the calls  *)
(* of a minute, InteractionGuard isolates a plugin that makes others fail, *)
(* StabilityGovernor and ControlledAutonomyLayer react to the share of     *)
(* degraded plugins; PluginTelemetry and AdaptiveCircuitBreaker watch the  *)
(* calls, PolicyEngine decides, AutoRollbackEngine picks the way back and  *)
(* DriftDetector compares with the beginning.  Nothing in the sources      *)
(* composes them: their callers are any, one call at a time.               *)
(*                                                                         *)
(* A call is fast or takes the second at which the latency score is zero.  *)
(* Risks and ratios are in tenths; rates of the breaker in parts of One.   *)
(***************************************************************************)
EXTENDS Integers, Sequences, FiniteSets, SequencesExt, FiniteSetsExt, Functions

CONSTANTS Plugin, None,
          BudgetWindow, BaseQuota, MinQuota, MaxQuota,
          CascadeWindow, CascadeThreshold, IsolationWindow,
          ModeHistoryMax, ActionsMax, RollbackWindow, RollbacksMax,
          WindowSize, BurstWindow, BaselineSize, MinSamples, SamplesMax,
          Added,          \* rules that may be added to the policy
          MaxTime,        \* bound: the clock
          MaxCalls        \* bound: calls, records and decisions

VARIABLES now, calls,
          budgets, pending,            \* plugin -> budget; calls let through and not yet counted
          crowded, spent,              \* history: let through together or lowered; times of calls
          events, isolated,            \* InteractionGuard
          failed, banned, verdict,     \* history: all failures; until when; the last answer
          mode, modeHistory, total, degraded,              \* StabilityGovernor
          actions, groups,             \* ControlledAutonomyLayer; history: groups isolated
          windows, ewma, variance,     \* PluginTelemetry, AdaptiveCircuitBreaker
          rules, rollbacks, stable, fallbacks,             \* PolicyEngine, AutoRollbackEngine
          samples, baselines,          \* DriftDetector
          told, whole, flipped,        \* history: calls since cleared; since the reset; breaker
          done, forgotten              \* history: rollbacks; whose were cut within the window

budgetVars == <<budgets, pending, crowded, spent>>
guardVars == <<events, isolated, failed, banned, verdict>>
governorVars == <<mode, modeHistory, total, degraded, actions, groups>>
watchVars == <<windows, ewma, variance, samples, baselines, told, whole, flipped>>
policyVars == <<rules, rollbacks, stable, fallbacks, done, forgotten>>
vars == <<now, calls, budgetVars, guardVars, governorVars, watchVars, policyVars>>

One == 1000000
Always(x) == [p \in Plugin |-> x]
Pair == {q \in Plugin \X Plugin : q[1] # q[2]}

\* The rules there are from the start, safety first.
Rule(name, layer, action, priority) ==
    [name |-> name, layer |-> layer, action |-> action, priority |-> priority]
DefaultRules ==
    <<Rule("cb_safety", "safety", "quarantine", 100),
      Rule("critical_health", "safety", "rollback", 90),
      Rule("high_risk_throttle", "optimization", "throttle", 60),
      Rule("burst_rollback", "optimization", "rollback", 70)>>

Init ==
    /\ now = 0 /\ calls = 0
    /\ budgets = Always(None) /\ pending = Always(0) /\ crowded = {}
    /\ spent = Always(<<>>)
    /\ events = <<>> /\ isolated = Always(0)
    /\ failed = [q \in Pair |-> <<>>] /\ banned = Always(0) /\ verdict = None
    /\ mode = "normal" /\ modeHistory = <<>> /\ total = 0 /\ degraded = 0 /\ actions = <<>> /\ groups = 0
    /\ windows = Always(<<>>) /\ ewma = Always(0) /\ variance = Always(0)
    /\ samples = Always(<<>>) /\ baselines = Always(None)
    /\ told = Always(<<>>) /\ whole = Always(<<>>) /\ flipped = None
    /\ rules = DefaultRules /\ rollbacks = <<>>
    /\ stable = {} /\ fallbacks = {}
    /\ done = Always(<<>>) /\ forgotten = {}

Counted == calls < MaxCalls /\ calls' = calls + 1

Tick ==
    /\ now < MaxTime /\ now' = now + 1 /\ verdict' = None
    /\ UNCHANGED <<calls, budgetVars, events, isolated, failed, banned, governorVars,
                   watchVars, policyVars>>

-----------------------------------------------------------------------------
(* ExecutionBudgetManager. *)

\* _resetWindowIfNeeded.
Window(p) ==
    IF budgets[p] # None /\ now - budgets[p].windowStart >= BudgetWindow
    THEN [budgets[p] EXCEPT !.used = 0, !.windowStart = now] ELSE budgets[p]
DefaultBudget == [quota |-> BaseQuota, used |-> 0, windowStart |-> now]
Budget(p) == IF Window(p) = None THEN DefaultBudget ELSE Window(p)

\* setBudget: the riskier, the fewer.
QuotaOf(risk) == Max({MinQuota, Min({MaxQuota, (BaseQuota * (10 - risk)) \div 10 + MinQuota})})
SetBudget(p, risk) ==
    /\ Counted
    /\ budgets' = [budgets EXCEPT ![p] = [Budget(p) EXCEPT !.quota = QuotaOf(risk)]]
    /\ crowded' = IF QuotaOf(risk) < Budget(p).quota THEN crowded \union {p}
                  ELSE IF budgets[p] # Window(p) /\ pending[p] <= 1 THEN crowded \ {p}
                  ELSE crowded
    /\ UNCHANGED <<now, pending, spent, guardVars, governorVars, watchVars, policyVars>>

\* canInvoke: the caller goes on to its call.
CanInvoke(p) ==
    /\ pending[p] < 2 /\ Counted
    /\ Window(p) # None => Window(p).used < Window(p).quota
    /\ budgets' = [budgets EXCEPT ![p] = Window(p)]
    /\ pending' = [pending EXCEPT ![p] = @ + 1]
    /\ crowded' = IF pending[p] > 0 THEN crowded \union {p}
                  ELSE IF budgets[p] # Window(p) THEN crowded \ {p} ELSE crowded
    /\ UNCHANGED <<now, spent, guardVars, governorVars, watchVars, policyVars>>

\* consume, once the call was made.
Consume(p) ==
    /\ pending[p] > 0 /\ pending' = [pending EXCEPT ![p] = @ - 1]
    /\ budgets' = [budgets EXCEPT ![p] = [Budget(p) EXCEPT !.used = @ + 1]]
    /\ spent' = [spent EXCEPT ![p] = Append(@, now)]
    /\ UNCHANGED <<now, calls, crowded, guardVars, governorVars, watchVars, policyVars>>

-----------------------------------------------------------------------------
(* InteractionGuard. *)

\* _cascadeCount.
CascadeCount(es, q) ==
    Len(SelectSeq(es, LAMBDA e : e.pair = q /\ e.triggered /\ e.ts > now - CascadeWindow))

\* _checkCascade: the caller is isolated, whatever time it had left.
CheckCascade(kept, q) ==
    isolated' = IF CascadeCount(kept, q) >= CascadeThreshold
                THEN [isolated EXCEPT ![q[1]] = now + IsolationWindow] ELSE isolated

\* record: what is older than two windows goes.
RecordInteraction(q, triggered) ==
    /\ Counted
    /\ LET recorded == Append(events, [pair |-> q, ts |-> now, triggered |-> triggered])
           kept == SelectSeq(recorded, LAMBDA e : e.ts > now - 2 * CascadeWindow)
       IN  /\ events' = kept
           /\ IF triggered THEN CheckCascade(kept, q) ELSE UNCHANGED isolated
    /\ failed' = IF triggered THEN [failed EXCEPT ![q] = Append(@, now)] ELSE failed
    /\ LET recent == SelectSeq(failed'[q], LAMBDA t : t > now - CascadeWindow) IN
       banned' = IF triggered /\ Len(recent) >= CascadeThreshold
                 THEN [banned EXCEPT ![q[1]] = now + IsolationWindow] ELSE banned
    /\ verdict' = None
    /\ UNCHANGED <<now, budgetVars, governorVars, watchVars, policyVars>>

\* check, in which _isIsolated forgets an isolation that is over.
IsIsolated(p) == isolated[p] # 0 /\ now < isolated[p]
CheckInteraction(q) ==
    /\ LET out == IsIsolated(q[1]) IN
       /\ isolated' = IF out THEN isolated ELSE [isolated EXCEPT ![q[1]] = 0]
       /\ verdict' = [pair |-> q,
                      allowed |-> ~out /\ CascadeCount(events, q) < CascadeThreshold]
    /\ UNCHANGED <<now, calls, budgetVars, events, failed, banned, governorVars, watchVars,
                   policyVars>>

\* isolate, which may shorten what a cascade brought, and release.
Isolate(p, duration) ==
    /\ Counted /\ verdict' = None
    /\ isolated' = [isolated EXCEPT ![p] = now + duration]
    /\ banned' = [banned EXCEPT ![p] = now + duration]
    /\ UNCHANGED <<now, budgetVars, events, failed, governorVars, watchVars, policyVars>>
Release(p) ==
    /\ isolated[p] # 0 /\ Counted /\ verdict' = None
    /\ isolated' = [isolated EXCEPT ![p] = 0] /\ banned' = [banned EXCEPT ![p] = 0]
    /\ UNCHANGED <<now, budgetVars, events, failed, governorVars, watchVars, policyVars>>

-----------------------------------------------------------------------------
(* StabilityGovernor and ControlledAutonomyLayer. *)

Bounded(s, max) == IF Len(s) > max THEN Tail(s) ELSE s

\* updateSystemState: from 3 in 10 cautious, from 5 in 10 soft.
UpdateSystemState(all, bad) ==
    /\ Counted
    /\ total' = all /\ degraded' = bad
    /\ mode' = IF all > 0 /\ 10 * bad >= 5 * all THEN "soft"
               ELSE IF all > 0 /\ 10 * bad >= 3 * all THEN "cautious"
               ELSE IF mode = "soft" THEN "recovery" ELSE "normal"
    /\ modeHistory' = IF mode' # mode THEN Bounded(Append(modeHistory, mode'), ModeHistoryMax)
                      ELSE modeHistory
    /\ UNCHANGED <<now, budgetVars, guardVars, actions, groups, watchVars, policyVars>>

\* evaluate: in soft mode a spent budget is not asked for.
Decision(allowed, action) == [allowed |-> allowed, action |-> action]
Evaluate(m, signal) ==
    IF signal.cbTripped \/ signal.cascadeRisk >= 7 THEN Decision(FALSE, "isolate")
    ELSE IF m = "soft" THEN
         IF signal.riskScore >= 5 THEN Decision(FALSE, "degrade") ELSE Decision(TRUE, "throttle")
    ELSE IF signal.budgetUsage >= 10 THEN Decision(FALSE, "throttle")
    ELSE IF signal.riskScore >= 8 THEN Decision(TRUE, "recommend_rollback")
    ELSE Decision(TRUE, "allow")
\* _latencyBudget, in milliseconds.
LatencyBudget(m, signal) ==
    ((IF m = "soft" THEN 1000 ELSE IF m = "cautious" THEN 3000 ELSE 5000)
       * (20 - signal.riskScore)) \div 20

Signal == [cbTripped : BOOLEAN, riskScore : {0, 5, 8}, cascadeRisk : {0, 7},
           budgetUsage : {0, 10}]

\* _mapAction: the others keep their names.
MapAction(action) == IF action = "isolate" THEN "isolate_group" ELSE action

\* act, on the decision the governor made of a signal; and isolateGroup, which does
\* not shorten the history.
Act(p, signal) ==
    LET d == Evaluate(mode, signal) IN
        /\ d.action # "allow" /\ Counted
        /\ actions' = Bounded(Append(actions, <<p, MapAction(d.action)>>), ActionsMax)
        /\ UNCHANGED <<now, budgetVars, guardVars, mode, modeHistory, total, degraded, groups,
                       watchVars, policyVars>>
IsolateGroup(group) ==
    /\ Counted /\ groups' = groups + 1
    /\ actions' = actions \o [i \in DOMAIN group |-> <<group[i], "isolate_group">>]
    /\ UNCHANGED <<now, budgetVars, guardVars, mode, modeHistory, total, degraded,
                   watchVars, policyVars>>

-----------------------------------------------------------------------------
(* PluginTelemetry, AdaptiveCircuitBreaker and DriftDetector see every call. *)

Fails(s) == Len(SelectSeq(s, LAMBDA c : ~c.success))
LastOf(s, n) == SubSeq(s, Max({1, Len(s) - n + 1}), Len(s))

\* shouldTrip: a variance above a half counts as a half.
Trips(rate, v) == rate > (3 * (One + Min({v, One \div 2}))) \div 10
Successes(s) == Len(s) - Fails(s)

\* PluginTelemetry.record, AdaptiveCircuitBreaker.record, DriftDetector.recordInvocation.
TelemetryRecord(p, c) == windows' = [windows EXCEPT ![p] = Bounded(Append(@, c), WindowSize)]
BreakerRecord(p, success) ==
    LET new == IF success THEN 0 ELSE One
        diff == (new - ewma[p]) \div 1000
    IN  /\ ewma' = [ewma EXCEPT ![p] = (15 * new + 85 * @) \div 100]
        /\ variance' = [variance EXCEPT ![p] = (15 * diff * diff + 85 * @) \div 100]
        /\ flipped' = [success |-> success, before |-> Trips(ewma[p], variance[p]),
                       after |-> Trips(ewma'[p], variance'[p])]
DriftRecord(p, c) ==
    LET all == Bounded(Append(samples[p], c), SamplesMax) IN
    /\ samples' = [samples EXCEPT ![p] = all]
    /\ baselines' = IF baselines[p] = None /\ Len(all) >= BaselineSize
                    THEN [baselines EXCEPT ![p] = Successes(SubSeq(all, 1, BaselineSize))]
                    ELSE baselines

\* All three are told of a call.
RecordCall(p, success, slow) ==
    LET sample == [success |-> success, slow |-> slow] IN
    /\ Counted
    /\ TelemetryRecord(p, sample) /\ BreakerRecord(p, success) /\ DriftRecord(p, sample)
    /\ told' = [told EXCEPT ![p] = Append(@, sample)]
    /\ whole' = [whole EXCEPT ![p] = Append(@, sample)]
    /\ UNCHANGED <<now, budgetVars, guardVars, governorVars, policyVars>>

\* analyze: six tenths of health are success, four latency.
HealthScore(w) == 6 * Successes(w) + 4 * Len(SelectSeq(w, LAMBDA c : ~c.slow))
RiskLevel(p) ==
    LET n == Len(windows[p]) IN
    IF n = 0 \/ HealthScore(windows[p]) >= 8 * n THEN "low"
    ELSE IF HealthScore(windows[p]) >= 6 * n THEN "medium"
    ELSE IF HealthScore(windows[p]) >= 4 * n THEN "high" ELSE "critical"
ErrorBurst(p) ==
    LET recent == LastOf(windows[p], BurstWindow)
    IN  Len(recent) >= BurstWindow /\ 2 * Fails(recent) > Len(recent)
ShouldTrip(p) == Trips(ewma[p], variance[p])

\* _driftRatio is above a quarter; nothing is off a baseline of zero.
DriftRatio(recent, base) ==
    base # 0 /\ 4 * (IF recent > base THEN recent - base ELSE base - recent) > base

\* analyzePlugin for the rate of successes.
Drifts(p) ==
    /\ baselines[p] # None /\ Len(samples[p]) >= MinSamples
    /\ DriftRatio(Successes(LastOf(samples[p], MinSamples)) * BaselineSize,
                  baselines[p] * MinSamples)

\* PluginTelemetry.clear, AdaptiveCircuitBreaker.reset and DriftDetector.resetBaseline.
ClearTelemetry(p) ==
    /\ windows[p] # <<>> /\ Counted /\ flipped' = None
    /\ windows' = [windows EXCEPT ![p] = <<>>] /\ told' = [told EXCEPT ![p] = <<>>]
    /\ UNCHANGED <<now, budgetVars, guardVars, governorVars, ewma, variance, samples,
                   baselines, whole, policyVars>>
ResetBreaker(p) ==
    /\ ewma[p] # 0 /\ Counted /\ flipped' = None
    /\ ewma' = [ewma EXCEPT ![p] = 0] /\ variance' = [variance EXCEPT ![p] = 0]
    /\ UNCHANGED <<now, budgetVars, guardVars, governorVars, windows, samples, baselines,
                   told, whole, policyVars>>
ResetBaseline(p) ==
    /\ samples[p] # <<>> /\ Counted /\ flipped' = None
    /\ samples' = [samples EXCEPT ![p] = <<>>] /\ baselines' = [baselines EXCEPT ![p] = None]
    /\ whole' = [whole EXCEPT ![p] = <<>>]
    /\ UNCHANGED <<now, budgetVars, guardVars, governorVars, windows, ewma, variance, told,
                   policyVars>>

-----------------------------------------------------------------------------
(* PolicyEngine and AutoRollbackEngine. *)

\* The rules that speak of a plugin; an added one always does.
Speaks(rule, p) ==
    CASE rule.name = "cb_safety" -> ShouldTrip(p)
      [] rule.name = "critical_health" -> ~ShouldTrip(p) /\ RiskLevel(p) = "critical"
      [] rule.name = "high_risk_throttle" -> ~ShouldTrip(p) /\ RiskLevel(p) = "high"
      [] rule.name = "burst_rollback" -> ~ShouldTrip(p) /\ ErrorBurst(p)
      [] OTHER -> TRUE

\* decide: safety before optimization, then the first of the highest priority.
Decide(p) ==
    LET speaking == SelectSeq(rules, LAMBDA r : Speaks(r, p))
        safety == SelectSeq(speaking, LAMBDA r : r.layer = "safety")
        asked == IF safety # <<>> THEN safety ELSE speaking
        first(i) == \A j \in DOMAIN asked : asked[i].priority >= asked[j].priority
    IN  IF asked = <<>> THEN [action |-> "continue", layer |-> "policy"]
        ELSE asked[Min({i \in DOMAIN asked : first(i)})]

AddRule(rule) ==
    /\ rule \notin Range(rules) /\ Counted /\ rules' = Append(rules, rule)
    /\ UNCHANGED <<now, budgetVars, guardVars, governorVars, watchVars, rollbacks, stable,
                   fallbacks, done, forgotten>>

MarkStable(p) ==
    /\ stable' = stable \union {p} /\ stable' # stable /\ Counted
    /\ UNCHANGED <<now, budgetVars, guardVars, governorVars, watchVars, rules, rollbacks,
                   fallbacks, done, forgotten>>
RegisterFallback(p) ==
    /\ fallbacks' = fallbacks \union {p} /\ fallbacks' # fallbacks /\ Counted
    /\ UNCHANGED <<now, budgetVars, guardVars, governorVars, watchVars, rules, rollbacks,
                   stable, done, forgotten>>

\* evaluate, when the policy asks for a rollback or the breaker is open: not a third
\* time while two are remembered.
WayBack(p) == IF p \in stable THEN "restore_snapshot"
              ELSE IF p \in fallbacks THEN "activate_fallback" ELSE "disable"
Rollback(p) ==
    /\ Decide(p).action \in {"rollback", "quarantine"} /\ Counted
    /\ Len(SelectSeq(rollbacks, LAMBDA r : r.plugin = p /\ now - r.ts < RollbackWindow)) < 2
    /\ LET all == Append(rollbacks, [plugin |-> p, ts |-> now, action |-> WayBack(p)]) IN
       /\ rollbacks' = Bounded(all, RollbacksMax)
       /\ forgotten' = IF Len(all) > RollbacksMax /\ now - all[1].ts < RollbackWindow
                       THEN forgotten \union {all[1].plugin} ELSE forgotten
    /\ done' = [done EXCEPT ![p] = Append(@, now)]
    /\ UNCHANGED <<now, budgetVars, guardVars, governorVars, watchVars, rules, stable, fallbacks>>

-----------------------------------------------------------------------------
BudgetNext ==
    \/ Tick
    \/ \E p \in Plugin : CanInvoke(p) \/ Consume(p) \/ \E risk \in {0, 10} : SetBudget(p, risk)

GuardNext ==
    \/ Tick
    \/ \E q \in Pair :
         CheckInteraction(q) \/ \E triggered \in BOOLEAN : RecordInteraction(q, triggered)
    \/ \E p \in Plugin : Release(p) \/ Isolate(p, 1)

GovernorNext ==
    \/ \E all \in {0, 10}, bad \in {0, 3, 5} : bad <= all /\ UpdateSystemState(all, bad)
    \/ \E p \in Plugin, signal \in Signal : Act(p, signal)
    \/ IsolateGroup(SetToSeq(Plugin))

WatchNext ==
    \/ \E p \in Plugin :
         \/ \E success, slow \in BOOLEAN : RecordCall(p, success, slow)
         \/ ClearTelemetry(p) \/ ResetBreaker(p) \/ ResetBaseline(p)
    \/ \E rule \in Added : AddRule(rule)

RollbackNext ==
    \/ Tick
    \/ \E p \in Plugin :
         \/ \E success \in BOOLEAN : RecordCall(p, success, ~success)
         \/ Rollback(p) \/ MarkStable(p) \/ RegisterFallback(p)

Next == BudgetNext \/ GuardNext \/ GovernorNext \/ WatchNext \/ RollbackNext

Spec == Init /\ [][Next]_vars

-----------------------------------------------------------------------------
\* ExecutionBudgetManager ("hard ceiling — asla asilmaz"): the calls counted are those
\* made since the window began, whichever operation began it, and no more are made in a
\* window than its quota, unless two were let through before either was counted, or
\* the quota was lowered.
CeilingKept ==
    \A p \in Plugin :
        budgets[p] # None =>
            /\ budgets[p].used =
                 Len(SelectSeq(spent[p], LAMBDA t : t >= budgets[p].windowStart))
            /\ p \notin crowded => budgets[p].used <= budgets[p].quota

\* InteractionGuard: an interaction is let through exactly if its plugin brought no
\* other down too often of late, and is not isolated for having done so or by command;
\* that events are dropped does not matter.
CascadesStopped ==
    verdict # None =>
        LET q == verdict.pair
            recent == SelectSeq(failed[q], LAMBDA t : t > now - CascadeWindow)
        IN  verdict.allowed <=> now >= banned[q[1]] /\ Len(recent) < CascadeThreshold

\* StabilityGovernor: the mode is that of the share of degraded plugins; out of soft mode
\* the way leads over caution or recovery, and to recovery from nowhere else.
ModesInOrder ==
    /\ mode = "soft" <=> total > 0 /\ 2 * degraded >= total
    /\ mode = "cautious" => 10 * degraded >= 3 * total
    /\ modeHistory # <<>> => Last(modeHistory) = mode
    /\ \A i \in 1..Len(modeHistory) - 1 :
         /\ modeHistory[i] # modeHistory[i + 1]
         /\ modeHistory[i] = "soft" => modeHistory[i + 1] \in {"cautious", "recovery"}
         /\ modeHistory[i + 1] = "recovery" => modeHistory[i] = "soft"

\* What normal mode refuses soft mode refuses too, but for a budget spent; and nothing
\* is given longer when the system is worse off.
StricterUnderLoad ==
    \A signal \in Signal :
        /\ signal.budgetUsage < 10 =>
             (Evaluate("soft", signal).allowed => Evaluate(mode, signal).allowed)
        /\ LatencyBudget("soft", signal) <= LatencyBudget(mode, signal)
        /\ LatencyBudget(mode, signal) <= LatencyBudget("normal", signal)

\* ControlledAutonomyLayer: no more actions are kept than the limit, but for those of
\* groups isolated.
ActionsBounded == Len(actions) <= ActionsMax + groups * Cardinality(Plugin)

\* AdaptiveCircuitBreaker: a success opens no breaker and an error closes none.
BreakerMonotone ==
    flipped # None =>
        IF flipped.success THEN flipped.after => flipped.before
        ELSE flipped.before => flipped.after

\* PluginTelemetry, AdaptiveCircuitBreaker, PolicyEngine: a plugin that did well for a
\* whole window is left alone, whatever it did before, and one that failed for a burst
\* is not, unless a rule was added.
LeftAlone ==
    rules = DefaultRules =>
        \A p \in Plugin :
            LET well == Len(told[p]) >= WindowSize
                        /\ \A i \in DOMAIN LastOf(told[p], WindowSize) :
                               LET last == LastOf(told[p], WindowSize)[i]
                               IN  last.success /\ ~last.slow
                burst == Len(told[p]) >= BurstWindow
                         /\ \A i \in DOMAIN LastOf(told[p], BurstWindow) :
                                ~LastOf(told[p], BurstWindow)[i].success
            IN  /\ well => Decide(p).action = "continue"
                /\ burst => Decide(p).action # "continue"

\* PolicyEngine ("CB her zaman override eder"): an open breaker means quarantine, unless
\* an added rule of the safety layer ranks higher.
BreakerOverrides ==
    \A p \in Plugin :
        ShouldTrip(p) =>
            \/ Decide(p).action = "quarantine"
            \/ \E i \in DOMAIN rules : rules[i].layer = "safety" /\ rules[i].priority > 100

\* DriftDetector: what is off is off the first calls since the reset.
DriftTold ==
    \A p \in Plugin :
        LET n == Len(whole[p])
            base == Successes(SubSeq(whole[p], 1, BaselineSize)) * MinSamples
            recent == Successes(LastOf(whole[p], MinSamples)) * BaselineSize
        IN  Drifts(p) <=>
                n >= BaselineSize /\ base > 0
                /\ (4 * (recent - base) > base \/ 4 * (base - recent) > base)

\* AutoRollbackEngine: a plugin is rolled back no more than twice within the window,
\* unless one of them was cut from the history.
RollbacksSpaced ==
    \A p \in Plugin \ forgotten : \A i \in 1..Len(done[p]) - 2 :
        done[p][i + 2] - done[p][i] >= RollbackWindow
=============================================================================
