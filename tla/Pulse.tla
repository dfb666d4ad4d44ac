------------------------------- MODULE Pulse -------------------------------
(***************************************************************************)
(* PulseScheduler (pulse/scheduler/pulse-scheduler.ts) with eligibility,   *)
(* ranking, rotation and the snapshot store.                               *)
(*                                                                         *)
(* A tick is cut at its one await, for the projects.  A score is a whole   *)
(* number: what age and trust give (Merit), what the pulses since the last *)
(* time on top give, what is left for the times on top, less the penalty.  *)
(* The snapshot store keeps the fairness records by reference: it holds    *)
(* their keys, and their values only as the checksum of the moment.        *)
(***************************************************************************)
EXTENDS Integers, Sequences, FiniteSets, SequencesExt

CONSTANTS Project,
          Order,              \* the order of the source, and of the ids
          Merit,
          GapCap, CountCap,   \* where the two fairness terms stop to matter
          PenaltyWeight, BanPenalty,
          MaxEntries, MaxConsecutiveTop, DemoteSteps,
          MaxPulse,           \* bound: the pulse number
          MaxTicks,           \* bound: ticks
          NoRecord, NoProject

VARIABLES
    running, ticking,
    tickPulse,   \* the pulse the tick under way has read
    source,      \* what the project source will do in this tick
    pulse,       \* the clock
    fairness,    \* project -> record
    archived,
    shown,       \* lastSnapshot.entries
    shownPulse,  \* lastSnapshot.pulseNumber
    saved,       \* the latest stored state: [ids, sum], or <<>>
    ticks,
    streak       \* history: [top, promoted, n]: in the last n pulses with a
                 \* snapshot this was the top, each time by promotion or never

vars == <<running, ticking, tickPulse, source, pulse, fairness, archived, shown, shownPulse,
          saved, ticks, streak>>

Known == {p \in Project : fairness[p] # NoRecord}

Init ==
    /\ running = FALSE /\ ticking = FALSE
    /\ tickPulse = 1 /\ pulse = 1 /\ source = "answers"
    /\ fairness = [p \in Project |-> NoRecord]
    /\ archived = {}
    /\ shown = <<>> /\ shownPulse = 0 /\ saved = <<>>
    /\ ticks = 0 /\ streak = [top |-> NoProject, promoted |-> FALSE, n |-> 0]

-----------------------------------------------------------------------------
Larger(a, b) == IF a > b THEN a ELSE b
Smaller(a, b) == IF a < b THEN a ELSE b

\* EligibilityEngine.check.
Eligible(p) ==
    /\ p \notin archived
    /\ p \in Known => fairness[p].penalty < BanPenalty

\* RankingEngine._computeScore.
Score(p, now) ==
    LET r == fairness[p]
        gap == IF r = NoRecord THEN 1
               ELSE IF r.lastTop # 0 THEN now - r.lastTop ELSE now - r.first + 1
        count == IF r = NoRecord THEN 0 ELSE r.topCount
        penalty == IF r = NoRecord THEN 0 ELSE r.penalty
    IN  Larger(0, Merit[p] + Smaller(GapCap, gap) + Larger(0, CountCap - count)
                  - PenaltyWeight * penalty)

Earlier(p, q) == \E i, j \in DOMAIN Order : i < j /\ Order[i] = p /\ Order[j] = q

\* The first maxEntries eligible projects of the source.
Entries ==
    LET eligible == {p \in ToSet(Order) : Eligible(p)}
    IN  {p \in eligible : Cardinality({q \in eligible : Earlier(q, p)}) < MaxEntries}

\* By score, equals by id.
Before(p, q, now) ==
    \/ Score(p, now) > Score(q, now)
    \/ Score(p, now) = Score(q, now) /\ Earlier(p, q)

\* RankingEngine.rank.
Ranked(now) ==
    CHOOSE s \in [1 .. Cardinality(Entries) -> Entries] :
        /\ IsInjective(s)
        /\ \A i, j \in DOMAIN s : i < j => Before(s[i], s[j], now)

Fresh(now) == [lastTop |-> 0, topCount |-> 0, first |-> now, penalty |-> 0]
RecordOf(p, now) == IF p \in Known THEN fairness[p] ELSE Fresh(now)

\* How long the top entry is taken to have been on top: it is never reset.
Consecutive(p, now) ==
    IF p \notin Known \/ fairness[p].lastTop = 0 THEN 0
    ELSE now - (fairness[p].lastTop - (fairness[p].topCount - 1))

\* RotationEngine.apply: does the top entry have to go down?
Demotes(ranked, now) ==
    Len(ranked) > 1 /\ Consecutive(Head(ranked), now) >= MaxConsecutiveTop

\* Mutant: the demoted entry is put in without being taken out.
RotatedTwice(ranked, now) ==
    LET to == Smaller(DemoteSteps, Len(ranked) - 1) IN
    IF Demotes(ranked, now) THEN SubSeq(ranked, 1, to + 1) \o <<Head(ranked)>> ELSE ranked

\* The list after rotation.
Rotated(ranked, now) ==
    LET to == Smaller(DemoteSteps, Len(ranked) - 1) IN
    IF Demotes(ranked, now)
    THEN SubSeq(ranked, 2, to + 1) \o <<Head(ranked)>> \o SubSeq(ranked, to + 2, Len(ranked))
    ELSE ranked

\* Mutant: the pulse on top is not written down.
BookedUnseen(ranked, now) ==
    [p \in Project |->
        IF p \notin ToSet(ranked) THEN fairness[p]
        ELSE IF p = Head(ranked) THEN [RecordOf(p, now) EXCEPT !.topCount = @ + 1]
             ELSE RecordOf(p, now)]

\* The records after rotation: the time on top is booked to the entry that
\* ranked first, also when it is demoted.
Booked(ranked, now) ==
    [p \in Project |->
        IF p \notin ToSet(ranked) THEN fairness[p]
        ELSE IF p = Head(ranked)
             THEN [RecordOf(p, now) EXCEPT !.lastTop = now, !.topCount = @ + 1]
             ELSE RecordOf(p, now)]

-----------------------------------------------------------------------------
\* _tick up to the await, unless a tick is under way.
Ticking ==
    IF ticking THEN UNCHANGED <<ticking, tickPulse, source, ticks>>
    ELSE /\ ticks < MaxTicks
         /\ ticks' = ticks + 1
         /\ ticking' = TRUE /\ tickPulse' = pulse
         /\ source' \in {"answers", "fails"}

Keys(f) == {p \in Project : f[p] # NoRecord}

\* Mutant: the values of the snapshot, not the records, come back, checked or not.
RestoredCopy == IF saved = <<>> THEN fairness ELSE saved[1].sum

\* The records after start(): those that the latest state has the keys of, if
\* its checksum still fits them.
Restored ==
    IF saved # <<>> /\ saved[1].sum = [p \in Project |->
                          IF p \in saved[1].ids THEN fairness[p] ELSE NoRecord]
    THEN [p \in Project |-> IF p \in saved[1].ids THEN fairness[p] ELSE NoRecord]
    ELSE fairness

\* start(): recovery, and a first tick.
Start ==
    /\ ~running
    /\ running' = TRUE
    /\ fairness' = Restored
    /\ Ticking
    /\ UNCHANGED <<pulse, archived, shown, shownPulse, saved, streak>>

\* stop(): the tick under way goes on.
Stop ==
    /\ running
    /\ running' = FALSE
    /\ UNCHANGED <<ticking, tickPulse, source, pulse, fairness, archived, shown, shownPulse,
                   saved, ticks, streak>>

\* The interval fires, or tick() is called by hand.
Tick ==
    /\ running \/ ticks > 0
    /\ Ticking
    /\ UNCHANGED <<running, pulse, fairness, archived, shown, shownPulse, saved, streak>>

\* Mutant: the flag stays up.
SourceFailsBusy == ticking /\ UNCHANGED vars

\* The source fails, or there are no projects.
SourceFails ==
    /\ ticking /\ source = "fails"
    /\ ticking' = FALSE /\ source' = "answers"
    /\ UNCHANGED <<running, tickPulse, pulse, fairness, archived, shown, shownPulse,
                   saved, ticks, streak>>

Spell(ranked, list) ==
    LET top == IF list = <<>> THEN NoProject ELSE Head(list)
        promoted == list # <<>> /\ Demotes(ranked, tickPulse)
    IN  IF Len(list) > 1 /\ streak.top = top /\ streak.promoted = promoted
        THEN [streak EXCEPT !.n = IF tickPulse > shownPulse THEN @ + 1 ELSE @]
        ELSE [top |-> top, promoted |-> promoted, n |-> IF Len(list) > 1 THEN 1 ELSE 0]

\* The rest of _tick.
Projects ==
    /\ ticking /\ source = "answers"
    /\ ticking' = FALSE
    /\ \E ranked \in {Ranked(tickPulse)} :
         LET list == IF ranked = <<>> THEN <<>> ELSE Rotated(ranked, tickPulse)
         IN  /\ fairness' = IF ranked = <<>> THEN fairness ELSE Booked(ranked, tickPulse)
             /\ shown' = list /\ shownPulse' = tickPulse
             /\ streak' = Spell(ranked, list)
    /\ saved' = <<[ids |-> Keys(fairness'), sum |-> fairness']>>
    /\ UNCHANGED <<running, tickPulse, source, pulse, archived, ticks>>

\* applyPenalty of one point, and clearPenalty.
Penalty(p, amount) ==
    /\ p \in Known
    /\ amount \in {0, fairness[p].penalty + 1} /\ amount <= BanPenalty
    /\ fairness' = [fairness EXCEPT ![p].penalty = amount]
    /\ UNCHANGED <<running, ticking, tickPulse, source, pulse, archived, shown, shownPulse,
                   saved, ticks, streak>>

\* A project is archived, outside.
Archive(p) ==
    /\ archived' = archived \cup {p}
    /\ UNCHANGED <<running, ticking, tickPulse, source, pulse, fairness, shown, shownPulse,
                   saved, ticks, streak>>

ClockTicks ==
    /\ pulse < MaxPulse
    /\ pulse' = pulse + 1
    /\ UNCHANGED <<running, ticking, tickPulse, source, fairness, archived, shown, shownPulse,
                   saved, ticks, streak>>

Next ==
    \/ Start \/ Stop \/ Tick \/ SourceFails \/ Projects \/ ClockTicks
    \/ \E p \in Project : Archive(p) \/ \E a \in 0 .. BanPenalty : Penalty(p, a)

Spec == Init /\ [][Next]_vars

-----------------------------------------------------------------------------
TypeOK ==
    /\ {running, ticking} \subseteq BOOLEAN
    /\ \A p \in Known : fairness[p] \in [lastTop : 0 .. MaxPulse, topCount : 0 .. MaxTicks,
                                         first : 1 .. MaxPulse, penalty : 0 .. BanPenalty]
    /\ shown \in Seq(Project) /\ shownPulse \in 0 .. MaxPulse

\* stop() and start() neither forget nor revive anything about a project:
\* not a time on top, not a penalty given or taken away since the snapshot.
RestartKeepsFairness == [][running' /\ ~running => fairness' = fairness]_vars

\* A project that ranks first is not left on top for more than
\* maxConsecutiveTop pulses in a row while there are others.
RankedTopRotates == ~streak.promoted => streak.n <= MaxConsecutiveTop

\* No project is on top for more than maxConsecutiveTop pulses in a row.
\* It does not hold: a project that is on top because the one before it was
\* demoted is not counted.
NobodyStaysOnTop == streak.n <= MaxConsecutiveTop

\* An entry appears once and is one of the projects the tick found eligible.
ShownOnce == IsInjective(shown)

\* The flag against overlapping ticks comes down again once the source answers.
TickEnds == ticking ~> ~ticking
=============================================================================
