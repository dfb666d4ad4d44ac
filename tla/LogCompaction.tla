---------------------------- MODULE LogCompaction ----------------------------
(***************************************************************************)
(* The log of a leader whose RaftEngine (consensus/raft/raft-engine.ts)    *)
(* has an IncrementalLogCompactor (consensus/compaction/log-compactor.ts): *)
(* propose, commit, apply and compact, over one term.  Replication is what *)
(* it comes to for the leader, entries that a majority acknowledged;       *)
(* elections are in module Raft, which compacts nothing.                   *)
(*                                                                         *)
(* A compaction is cut at the digest it awaits, an application of commands *)
(* after every command.  Of what propose reads before its hashes only the  *)
(* hash of the last entry, left out here, is used after them.  An index is *)
(* a place in the log as long as it was never shortened, and afterwards it *)
(* is not.  Commands are numbers, in the order they are pushed.            *)
(***************************************************************************)
EXTENDS Integers, Sequences, FiniteSets, SequencesExt, FiniteSetsExt

CONSTANTS MaxCommands,              \* bound: commands
          TriggerSize, RetainTail,  \* CompactionPolicy
          Manual                    \* bound: calls of compact from outside

VARIABLES
    log,            \* entries [index, cmd]
    commitIndex, lastApplied,
    lastCompacted,  \* _lastCompacted
    cut,            \* truncations that await their digest: [upTo, newLog]
    due,            \* a loop of _applyCommitted has applied all
    manual,
    pushed,         \* history: how many commands were pushed
    applied,        \* history: those applied, in order
    stale,          \* history: pushed at an index another entry has or had when committed
    raced,          \* history: pushed while a truncation was under way
    torn            \* history: two truncations were under way at once, or one
                    \* ended while there were commands to apply

vars == <<log, commitIndex, lastApplied, lastCompacted, cut, due, manual,
          pushed, applied, stale, raced, torn>>

Init ==
    /\ log = <<>> /\ commitIndex = -1 /\ lastApplied = -1
    /\ lastCompacted = -1 /\ cut = {} /\ due = FALSE /\ manual = 0
    /\ pushed = 0 /\ applied = <<>> /\ stale = {} /\ raced = {} /\ torn = FALSE

\* propose: the index is the length of the log.
Propose ==
    /\ pushed < MaxCommands /\ pushed' = pushed + 1
    /\ log' = Append(log, [index |-> Len(log), cmd |-> pushed + 1])
    /\ stale' = IF Len(log) <= commitIndex \/ \E e \in ToSet(log) : e.index = Len(log)
                THEN stale \cup {pushed + 1} ELSE stale
    /\ raced' = IF cut # {} THEN raced \cup {pushed + 1} ELSE raced
    /\ UNCHANGED <<commitIndex, lastApplied, lastCompacted, cut, due, manual, applied, torn>>

\* _findByIndex: the place that the first entry's index tells, else the first
\* entry with the index.
FindByIndex(i) ==
    LET at == {k \in 1..Len(log) : log[k].index = i}
        place == i - log[1].index + 1
    IN IF at = {} THEN {} ELSE {log[IF place \in at THEN place ELSE Min(at)]}

\* _maybeCommit: the highest index that a majority has, of those the last entry
\* of the log allows.
Commit(n) ==
    /\ log # <<>> /\ n > commitIndex /\ n <= Last(log).index
    /\ FindByIndex(n) # {}
    /\ commitIndex' = n
    /\ UNCHANGED <<log, lastApplied, lastCompacted, cut, due, manual, pushed,
                   applied, stale, raced, torn>>

\* _applyCommitted: an index whose entry is gone is passed over.
Apply ==
    /\ lastApplied < commitIndex /\ lastApplied' = lastApplied + 1
    /\ applied' = applied \o SetToSeq({e.cmd : e \in FindByIndex(lastApplied + 1)})
    /\ due' = (lastApplied' = commitIndex)
    /\ UNCHANGED <<log, commitIndex, lastCompacted, cut, manual, pushed, stale,
                   raced, torn>>

\* Mutant: everything in the log but the tail is cut.
UpToAll == Max({-1, Len(log) - 1 - RetainTail})

\* truncate: never beyond what is committed, nor in the last RetainTail places.
UpTo == Max({-1, Min({commitIndex, Len(log) - 1}) - RetainTail})

\* truncate, up to the digest.
Truncate ==
    /\ UpTo > lastCompacted /\ UpTo >= 0
    /\ cut' = cut \cup {[upTo |-> UpTo, newLog |-> SelectSeq(log, LAMBDA e : e.index > UpTo)]}
    /\ torn' = (torn \/ cut # {})

ShouldTrigger == commitIndex > lastCompacted /\ Len(log) >= TriggerSize

\* _maybeAutoCompact, when the policy's interval is over.
AutoCompact ==
    /\ due /\ lastApplied = commitIndex /\ due' = FALSE
    /\ ShouldTrigger /\ Truncate
    /\ UNCHANGED <<log, commitIndex, lastApplied, lastCompacted, manual, pushed,
                   applied, stale, raced>>

Compact ==
    /\ manual < Manual /\ manual' = manual + 1 /\ Truncate
    /\ UNCHANGED <<log, commitIndex, lastApplied, lastCompacted, due, pushed,
                   applied, stale, raced>>

\* After the digest: compact, and _truncateViaCompactor puts the log it was given
\* in the place of the log there is by now.
Truncated(t) ==
    /\ t \in cut /\ cut' = cut \ {t}
    /\ lastCompacted' = Max({lastCompacted, t.upTo})
    /\ log' = t.newLog
    /\ torn' = (torn \/ lastApplied < commitIndex)
    /\ UNCHANGED <<commitIndex, lastApplied, due, manual, pushed, applied, stale, raced>>

Next ==
    \/ \E n \in 0..pushed : Commit(n)
    \/ \E t \in cut : Truncated(t)
    \/ Propose \/ Apply \/ AutoCompact \/ Compact

Spec == Init /\ [][Next]_vars

-----------------------------------------------------------------------------
\* Commands are applied in the order they were pushed and none twice, through
\* compactions after which indexes are used again, unless one ended while there
\* were committed commands to apply (those may be cut, and what is pushed at their
\* indexes later is applied in their place) or two overlapped (the second brings
\* back the log of its beginning).
AppliedInOrder ==
    ~torn => \A i, j \in 1..Len(applied) : i < j => applied[i] < applied[j]

\* Then a command leaves the log unapplied for one of two reasons only: it was
\* pushed while a truncation was under way, or at an index that was in use (after
\* a compaction, until the log is as long as it was before).
LostForReason ==
    ~torn => \A c \in (1..pushed) \ (ToSet(applied) \cup stale \cup raced) :
        \E i \in 1..Len(log) : log[i].cmd = c

\* And a command pushed at an index that was in use is never applied.
StaleNeverApplied == ~torn => stale \cap ToSet(applied) = {}

\* What is committed is applied, one command for each index, as long as nothing
\* was lost.
OnePerIndex ==
    ~torn /\ raced = {} => Len(applied) = lastApplied + 1
=============================================================================
