------------------------------- MODULE Review -------------------------------
(***************************************************************************)
(* The review of uploads: analyzers find what is in a file, RiskEngine and *)
(* PolicyEngine make a decision of the findings (AnalysisPipeline), and    *)
(* SandboxService runs the file in a session through an adapter and makes  *)
(* a decision of what was observed (SessionManager, BehaviorMonitor).      *)
(*                                                                         *)
(* A file is its format, type and size and the patterns in it, with the    *)
(* number of lines each is on: regular expressions, their texts and what   *)
(* is told of a finding are left out.  The analyzers of the core run to    *)
(* their end as soon as they are asked; those of plugins                   *)
(* (PluginAnalyzerAdapter) are awaited, fail, or are given up after a time. *)
(***************************************************************************)
EXTENDS Integers, Sequences, FiniteSets, SequencesExt

CONSTANTS Job,           \* uploads under review
          File,          \* the files: [format, mime, name, size, marks]
          Plugin,        \* analyzers of plugins, in the order of their registration
          Sees,          \* plugin analyzer -> the findings it makes of a file it answers on
          MaxConcurrent, \* sessions at a time
          HistorySize,   \* sessions kept after their end
          Allowed,       \* the jobs whose limits allow the network
          Adapter,       \* "mock" or "process"
          Runs,          \* the jobs that are run after their analysis
          MaxAdded,      \* bound: rules added
          None

VARIABLES file,      \* job -> its file
          stage,     \* job -> "new", "analysing", "analysed", "asking", "running", "done"
          waiting,   \* job -> plugin analyzers that are awaited
          asking,    \* job -> those still to be asked, one after the other
          found,     \* job -> findings collected
          lost,      \* job -> analyzers without a result
          report,    \* job -> the decision of the pipeline, or None
          rules,     \* the array of rules, one for every engine
          active,    \* sessions
          history,   \* sessions that ended, the last first: <<job, status>>
          outcome,   \* job -> what SandboxService answered, or None
          emitted    \* job -> events of the bus about it

analysis == <<file, waiting, asking, found, lost, report>>
sandbox == <<active, history, outcome>>
vars == <<stage, analysis, rules, sandbox, emitted>>

-----------------------------------------------------------------------------
(* Findings. *)

RiskPriority == [none |-> 0, low |-> 1, medium |-> 2, high |-> 3, critical |-> 4]
MaxRisk(a, b) == IF RiskPriority[a] >= RiskPriority[b] THEN a ELSE b

Rule(category, risk) == [category |-> category, risk |-> risk]

\* STATIC_RULES: what a line of source code may match.
StaticRules ==
    [S001 |-> Rule("secret", "critical"), S002 |-> Rule("secret", "critical"),
     S003 |-> Rule("secret", "high"), S004 |-> Rule("secret", "critical"),
     S010 |-> Rule("shell_exec", "high"), S011 |-> Rule("shell_exec", "high"),
     S012 |-> Rule("shell_exec", "high"), S020 |-> Rule("dynamic_code", "high"),
     S021 |-> Rule("dynamic_code", "high"), S022 |-> Rule("dynamic_code", "medium"),
     S030 |-> Rule("network_access", "medium"), S031 |-> Rule("network_access", "medium"),
     S040 |-> Rule("fs_access", "medium"), S041 |-> Rule("fs_access", "low"),
     S050 |-> Rule("obfuscated_code", "medium"), S051 |-> Rule("obfuscated_code", "low")]

\* SUSPICIOUS_STRINGS: what a binary may hold.
SuspiciousStrings ==
    [injection |-> Rule("binary_exec", "critical"),
     memory |-> Rule("suspicious_import", "high"), process |-> Rule("suspicious_import", "high"),
     packer |-> Rule("suspicious_import", "high"), shell |-> Rule("suspicious_import", "medium")]
Compressed == [gzip |-> Rule("compressed_payload", "medium")]

\* KNOWN_VULNERABILITIES: packages with their versions.
KnownVulnerabilities ==
    [leftpad |-> Rule("known_vulnerability", "low"), lodash |-> Rule("known_vulnerability", "medium"),
     minimist |-> Rule("known_vulnerability", "medium"),
     log4j |-> Rule("known_vulnerability", "critical")]

SourceExtensions == {"js", "ts", "py", "java", "sh", "wasm"}
BinaryFormats == {"wasm", "so", "exe"}
DependencyFormats == {"json", "txt", "toml", "lock", "yaml"}
MimeExtensions ==
    [png |-> {"png"}, stl |-> {"stl"}, wasm |-> {"wasm"}, text |-> {"txt", "md", "py", "js", "ts", "sh"},
     json |-> {"json"}]

\* One finding per line that matches, and per rule three at most.
MaxPerRule == 3
Finding(rule, n, r) == [rule |-> rule, n |-> n, category |-> r.category, risk |-> r.risk]
Hits(table, f, max) ==
    UNION {{Finding(p, i, table[p]) : i \in {k \in 1..f.marks[p] : k <= max}} :
              p \in DOMAIN table \intersect DOMAIN f.marks}

StaticAnalyzer(f) ==
    IF f.format \in SourceExtensions THEN Hits(StaticRules, f, MaxPerRule) ELSE {}

BinaryAnalyzer(f) ==
    IF f.format \in BinaryFormats \/ f.mime \in {"octet-stream", "wasm"}
    THEN Hits(SuspiciousStrings, f, 1) \union Hits(Compressed, f, 1)
    ELSE {}

\* The limit of 512 MB is never reached: the pipeline refuses what exceeds 100.
MetadataAnalyzer(f) ==
    (IF f.size = "huge" THEN {Finding("size", 1, Rule("oversized", "medium"))} ELSE {})
    \union (IF f.size = "empty" THEN {Finding("empty", 1, Rule("mime_mismatch", "low"))} ELSE {})
    \union (IF f.mime \in DOMAIN MimeExtensions /\ f.format \notin MimeExtensions[f.mime]
            THEN {Finding("mime", 1, Rule("mime_mismatch", "high"))} ELSE {})

\* What cannot be parsed has no packages.
DependencyAnalyzer(f) ==
    IF f.format \in DependencyFormats /\ f.name \in {"package.json", "requirements.txt"}
    THEN Hits(KnownVulnerabilities, f, 1)
    ELSE {}

CoreFindings(f) ==
    MetadataAnalyzer(f) \union StaticAnalyzer(f) \union BinaryAnalyzer(f) \union DependencyAnalyzer(f)

AllFindings(f) == CoreFindings(f) \union UNION {Sees[a][f] : a \in Range(Plugin)}

-----------------------------------------------------------------------------
(* RiskEngine and PolicyEngine. *)

\* aggregate.
OverallRisk(fs) ==
    LET risks == {"none"} \union {f.risk : f \in fs}
    IN  CHOOSE r \in risks : \A s \in risks : MaxRisk(r, s) = r

OfRisk(fs, risk) == {f \in fs : f.risk = risk}
OfCategory(fs, category) == {f \in fs : f.category = category}

\* DEFAULT_POLICY_RULES, and a rule a caller may add: what triggers each.
Triggers(id, fs) ==
    CASE id = "P001" -> OfRisk(fs, "critical")
      [] id = "P002" -> IF Cardinality(OfRisk(fs, "high")) > 3 THEN OfRisk(fs, "high") ELSE {}
      [] id = "P003" -> OfCategory(OfRisk(fs, "high") \union OfRisk(fs, "critical"), "secret")
      [] id = "P004" -> OfCategory(OfRisk(fs, "high"), "mime_mismatch")
      [] id = "P005" -> IF Cardinality(OfRisk(fs, "high")) <= 3 THEN OfRisk(fs, "high") ELSE {}
      [] id = "P006" -> OfCategory(OfRisk(fs, "medium"), "shell_exec")
      [] id = "added" -> OfCategory(fs, "network_access")
DefaultRules == <<"P001", "P002", "P003", "P004", "P005", "P006">>
DecisionOf(id) == IF id \in {"P005", "P006"} THEN "manual_review" ELSE "reject"

\* decide: the first rule that rejects, else the first that asks for a review.
Decide(fs, rs) ==
    LET hit(d) == SelectSeq(rs, LAMBDA id : DecisionOf(id) = d /\ Triggers(id, fs) # {})
        by(id) == [decision |-> DecisionOf(id), rule |-> id, triggers |-> Triggers(id, fs)]
    IN  IF hit("reject") # <<>> THEN by(Head(hit("reject")))
        ELSE IF hit("manual_review") # <<>> THEN by(Head(hit("manual_review")))
        ELSE [decision |-> "approve", rule |-> "-", triggers |-> {}]

-----------------------------------------------------------------------------
Init ==
    /\ file \in [Job -> File] /\ stage = [j \in Job |-> "new"]
    /\ waiting = [j \in Job |-> {}] /\ asking = [j \in Job |-> <<>>]
    /\ found = [j \in Job |-> {}] /\ lost = [j \in Job |-> {}]
    /\ report = [j \in Job |-> None] /\ rules = DefaultRules
    /\ active = {} /\ history = <<>>
    /\ outcome = [j \in Job |-> None] /\ emitted = [j \in Job |-> <<>>]

Told(j, events) == emitted' = [emitted EXCEPT ![j] = @ \o events]

\* run, after the analyzers: the findings are put together and decided on.
Reported(j, fs, before) ==
    LET d == Decide(fs, rules)
        risk == OverallRisk(fs)
        more == CASE d.decision = "approve" -> <<"analysis:approved">>
                  [] d.decision = "reject" -> <<"analysis:rejected">>
                  [] d.decision = "manual_review" -> <<>>
    IN  /\ report' = [report EXCEPT ![j] = d @@ [status |-> "completed", risk |-> risk, by |-> Len(rules)]]
        /\ stage' = [stage EXCEPT ![j] = "analysed"]
        /\ found' = [found EXCEPT ![j] = fs]
        /\ Told(j, before \o <<"analysis:completed">> \o more)

\* _failReport: a rejection without findings.
FailReport ==
    [decision |-> "reject", rule |-> "-", triggers |-> {}, status |-> "failed",
     risk |-> "none", by |-> Len(rules)]

\* The analyzers of plugins: all at once, or one after the other.
Asks(j, all) == waiting' = [waiting EXCEPT ![j] = all]

\* run, with _runParallel or _runSequential: a file above the limit is rejected.
RunPipeline(j, parallel) ==
    LET core == CoreFindings(file[j])
        first == IF parallel THEN Range(Plugin) ELSE Range(SubSeq(Plugin, 1, 1))
    IN
    /\ stage[j] = "new"
    /\ IF file[j].size \in {"large", "huge"}
       THEN /\ report' = [report EXCEPT ![j] = FailReport]
            /\ stage' = [stage EXCEPT ![j] = "analysed"]
            /\ Told(j, <<"analysis:started", "analysis:failed">>)
            /\ UNCHANGED <<waiting, asking, found>>
       ELSE IF Plugin = <<>>
       THEN Reported(j, core, <<"analysis:started">>) /\ UNCHANGED <<waiting, asking>>
       ELSE /\ stage' = [stage EXCEPT ![j] = "analysing"]
            /\ found' = [found EXCEPT ![j] = core] /\ Asks(j, first)
            /\ asking' = [asking EXCEPT ![j] = IF parallel THEN <<>> ELSE Tail(Plugin)]
            /\ Told(j, <<"analysis:started">>) /\ UNCHANGED report
    /\ UNCHANGED <<file, lost, rules, sandbox>>

\* An analyzer settles: the next one is asked, or the report is made.
Settled(j, a, fs) ==
    LET left == waiting[j] \ {a} IN
    IF left # {} THEN Asks(j, left) /\ found' = [found EXCEPT ![j] = fs]
                      /\ UNCHANGED <<asking, report, stage, emitted>>
    ELSE IF asking[j] # <<>>
    THEN /\ Asks(j, {Head(asking[j])}) /\ asking' = [asking EXCEPT ![j] = Tail(@)]
         /\ found' = [found EXCEPT ![j] = fs] /\ UNCHANGED <<report, stage, emitted>>
    ELSE Asks(j, {}) /\ Reported(j, fs, <<>>) /\ UNCHANGED asking

Answers(j, a) ==
    /\ a \in waiting[j] /\ Settled(j, a, found[j] \union Sees[a][file[j]])
    /\ UNCHANGED <<file, lost, rules, sandbox>>

\* _runWithTimeout rejects, or the analyzer does: it counts as skipped.
GivenUp(j, a) ==
    /\ a \in waiting[j] /\ Settled(j, a, found[j]) /\ lost' = [lost EXCEPT ![j] = @ \union {a}]
    /\ UNCHANGED <<file, rules, sandbox>>

\* addRule of any engine: the array is the one all engines were given.
AddRule ==
    /\ Len(rules) < Len(DefaultRules) + MaxAdded /\ rules' = Append(rules, "added")
    /\ UNCHANGED <<stage, analysis, sandbox, emitted>>

-----------------------------------------------------------------------------
(* SandboxService. *)

\* run, up to the await of isAvailable.
Submit(j) ==
    /\ j \in Runs /\ stage[j] = "analysed" /\ stage' = [stage EXCEPT ![j] = "asking"]
    /\ UNCHANGED <<analysis, rules, active, history, outcome, emitted>>

\* SessionManager.register and complete.
Registered(j) == Cardinality(active) < MaxConcurrent
Completed(j, status) ==
    LET h == <<<<j, status>>>> \o history IN
    history' = IF Len(h) > HistorySize THEN Front(h) ELSE h

Answered(j, what) ==
    stage' = [stage EXCEPT ![j] = "done"] /\ outcome' = [outcome EXCEPT ![j] = what]

\* run, up to the adapter: what was rejected takes a session and gives it back.
Begin(j, withReport) ==
    /\ stage[j] = "asking"
    /\ IF ~Registered(j)
       THEN Answered(j, "SESSION_LIMIT") /\ UNCHANGED <<active, history, emitted>>
       ELSE IF withReport /\ report[j].decision = "reject"
       THEN Completed(j, "cancelled") /\ Answered(j, "PRE_REJECTED") /\ UNCHANGED <<active, emitted>>
       ELSE /\ active' = active \union {j} /\ stage' = [stage EXCEPT ![j] = "running"]
            /\ Told(j, <<"sandbox:started">>) /\ UNCHANGED <<history, outcome>>
    /\ UNCHANGED <<analysis, rules>>

\* BehaviorMonitor.analyze with DEFAULT_RULES.
Violations(j, events) ==
    {e \in events : \/ e \in {"network_connect", "network_listen"} /\ j \notin Allowed
                    \/ e \in {"resource_limit", "process_spawn"}}

\* _makeDecision; attemptedNetwork and spawnedProcess are those of buildReport.
MakeDecision(j, status, events) ==
    CASE status = "crashed" -> "reject"
      [] status = "timeout" -> "manual_review"
      [] status = "completed" ->
           IF Violations(j, events) = {} THEN "approve"
           ELSE IF events \intersect {"network_connect", "network_listen", "process_spawn"} # {}
           THEN "reject"
           ELSE "manual_review"

\* run, after the adapter.
Observed(j, status, events) ==
    /\ stage[j] = "running" /\ active' = active \ {j} /\ Completed(j, status)
    /\ Answered(j, MakeDecision(j, status, events))
    /\ Told(j, [i \in 1..Cardinality(Violations(j, events)) |-> "behavior:detected"]
               \o (IF status = "timeout" THEN <<"sandbox:timeout">> ELSE <<>>)
               \o <<"sandbox:completed">>)
    /\ UNCHANGED <<analysis, rules>>

\* MockSandboxAdapter.run: the events are those of the patterns in the file, and
\* of an override, whose status counts.
MockEvents(f) ==
    {"stdout"} \union (IF "fetch" \in DOMAIN f.marks THEN {"network_connect"} ELSE {})
               \union (IF "writeFile" \in DOMAIN f.marks THEN {"file_write"} ELSE {})
               \union (IF "S011" \in DOMAIN f.marks THEN {"process_spawn"} ELSE {})
MockRuns(j, status, more) ==
    Adapter = "mock" /\ Observed(j, status, MockEvents(file[j]) \union more)

\* ProcessSandboxAdapter.run: "close" tells a time-out by SIGKILL, whoever sent
\* it, and takes every other end for a completion; "error" comes first where the
\* process cannot be started.
ProcessRuns(j, end) ==
    /\ Adapter = "process"
    /\ CASE end = "exit" -> Observed(j, "completed", {"stdout"})
         [] end = "SIGKILL" -> Observed(j, "timeout", {"stdout", "signal"})
         [] end = "other signal" -> Observed(j, "completed", {"stderr"})
         [] end = "error" -> Observed(j, "crashed", {"exception"})

\* An adapter that throws.
Throws(j) ==
    /\ stage[j] = "running" /\ active' = active \ {j} /\ Completed(j, "crashed")
    /\ Answered(j, "SANDBOX_ERROR") /\ Told(j, <<"sandbox:terminated">>)
    /\ UNCHANGED <<analysis, rules>>

Next ==
    \/ AddRule
    \/ \E j \in Job :
         \/ \E parallel \in BOOLEAN : RunPipeline(j, parallel)
         \/ \E a \in Range(Plugin) : Answers(j, a) \/ GivenUp(j, a)
         \/ Submit(j)
         \/ \E withReport \in BOOLEAN : Begin(j, withReport)
         \/ \E status \in {"completed", "timeout", "crashed"}, more \in SUBSET {"resource_limit"} :
              MockRuns(j, status, more)
         \/ \E end \in {"exit", "SIGKILL", "other signal", "error"} : ProcessRuns(j, end)
         \/ Throws(j)

Spec == Init /\ [][Next]_vars

-----------------------------------------------------------------------------
Severity == [approve |-> 0, manual_review |-> 1, reject |-> 2]

\* AnalysisPipeline ("Deterministik: aynı girdi -> aynı rapor"): files that are
\* alike get the same report, in parallel or one after the other, unless an
\* analyzer was given up, whose findings are missing, or a rule was added to an
\* engine, be it another one; and such a report is never the stricter one for
\* what is missing.
SameReport ==
    \A i, j \in Job :
        LET r == report[i] s == report[j] IN
        r # None /\ s # None /\ file[i] = file[j] =>
            /\ lost[i] = {} /\ lost[j] = {} /\ r.by = s.by => r = s
            /\ lost[j] = {} /\ r.by <= s.by => Severity[r.decision] <= Severity[s.decision]

\* A report is as severe as all its findings ask for unless an analyzer was given up.
WorstCounts ==
    \A j \in Job :
        report[j] # None /\ report[j].status = "completed" /\ lost[j] = {} =>
            /\ found[j] = AllFindings(file[j])
            /\ report[j].risk = "critical" => report[j].decision = "reject"
            /\ report[j].decision = "approve" => report[j].risk \in {"none", "low", "medium"}
            /\ report[j].triggers \subseteq found[j]

\* SessionManager: a session is taken for exactly the runs under way, whatever
\* ended the others, and every run that ended is on record, the last ones last.
SessionsKept ==
    /\ active = {j \in Job : stage[j] = "running"} /\ Cardinality(active) <= MaxConcurrent
    /\ Len(history) <= HistorySize /\ IsInjective(history)
    /\ LET ended == {j \in Job : stage[j] = "done" /\ outcome[j] # "SESSION_LIMIT"} IN
       /\ {history[i][1] : i \in DOMAIN history} \subseteq ended
       /\ Len(history) = IF Cardinality(ended) < HistorySize THEN Cardinality(ended) ELSE HistorySize

\* SandboxService: no run is approved that was seen to start a process or to use
\* the network without leave, that exceeded a limit, ran out of time or threw.
\* (ProcessSandboxAdapter sees none of the first, and a process killed by another
\* signal or that exits with an error is approved.)
NotApproved ==
    \A j \in Job :
        outcome[j] = "approve" =>
            \E i \in DOMAIN emitted[j] : emitted[j][i] = "sandbox:completed"
              /\ \A k \in DOMAIN emitted[j] : emitted[j][k] \notin
                     {"behavior:detected", "sandbox:timeout", "sandbox:terminated"}

\* The bus is told the end of everything it was told the beginning of, once.
Count(j, names) == Cardinality({i \in DOMAIN emitted[j] : emitted[j][i] \in names})
BeginningsEnd ==
    \A j \in Job :
        /\ Count(j, {"analysis:completed", "analysis:failed"})
             = IF stage[j] \in {"new", "analysing"} THEN 0 ELSE 1
        /\ stage[j] = "done" =>
             Count(j, {"sandbox:started"}) = Count(j, {"sandbox:completed", "sandbox:terminated"})
        /\ Count(j, {"analysis:approved"}) = 1 <=>
             report[j] # None /\ report[j].decision = "approve"
=============================================================================
