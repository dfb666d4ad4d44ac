-------------------------------- MODULE Raft --------------------------------
(***************************************************************************)
(* RaftEngine (consensus/raft/raft-engine.ts): leader election, the hash   *)
(* chained log and its replication.                                        *)
(*                                                                         *)
(* JavaScript runs one callback at a time, and an `await` ends it.  Each   *)
(* action is one uninterrupted stretch of the code; a call that waits for  *)
(* a hash or for its sends to go out stands in `calls` until an action     *)
(* resumes it, and anything may run in between.  The awaits of applyCmd    *)
(* and of a single reply are not points of interleaving here.              *)
(*                                                                         *)
(* Indices count entries: a source index i is i + 1 here, "none" (-1) is   *)
(* 0.  SHA-256 is taken to be collision free: an entry's entryHash is the  *)
(* chain of commands it stands for, its prevHash the chain before it.      *)
(* The default NoopLogCompactor never shortens the log.  An entry carries  *)
(* the index it was given; appends that overlap can push it to another     *)
(* position, so entries are looked up by index, as the code does.          *)
(***************************************************************************)
EXTENDS Naturals, Sequences, FiniteSets, TLC

CONSTANTS Node,        \* the cluster: each node and its peers
          NoNode,      \* votedFor === null
          Cmd,         \* the commands clients propose, each once
          Noop,        \* the command a new leader proposes
          Lossy,       \* may the transport drop a message?
          Duplicates,  \* may the transport deliver a message more than once?
          Wired,       \* are nodeId, sendRpc, applyCmd stored by the constructor?
          Electors,    \* the nodes whose election timer may run out
          Unsteady,    \* the nodes that may be stopped and started
          Mortal,      \* the nodes whose process may die and come back
          MaxTerm,     \* bound: no election beyond this term
          MaxFlight,   \* bound: no heartbeat beyond this many messages
          MaxCalls,    \* bound: calls suspended at a node when one more comes in
          MaxFaults    \* bound: stops and crashes

ASSUME RaftAssumption ==
    /\ IsFiniteSet(Node)
    /\ NoNode \notin Node
    /\ Noop \notin Cmd
    /\ {Lossy, Duplicates, Wired} \subseteq BOOLEAN
    /\ Electors \subseteq Node
    /\ Unsteady \subseteq Node
    /\ Mortal \subseteq Node
    /\ {MaxTerm, MaxFlight, MaxCalls, MaxFaults} \subseteq Nat

VARIABLES
    node,     \* node[n]: the fields of the engine at n, and its suspended calls
    msgs,     \* the RPCs in flight
    asked,    \* the commands clients have proposed
    faults,   \* stops and crashes so far
    ballots   \* history: <<v, t, c>> when v voted for c in term t

vars == <<node, msgs, asked, faults, ballots>>

Command == Cmd \cup {Noop}

Entry == [index : Nat, term : Nat, cmd : Command, prev : Seq(Command)]

\* entryHash = sha256(prevHash + checksum)
EntryHash(e) == Append(e.prev, e.cmd)

LastHash(log) == IF log = <<>> THEN <<>> ELSE EntryHash(log[Len(log)])

LastTerm(log) == IF log = <<>> THEN 0 ELSE log[Len(log)].term

LastIndex(log) == IF log = <<>> THEN 0 ELSE log[Len(log)].index

\* The number of entries before the first of index i, all of them if none is.
Before(log, i) == Cardinality({k \in DOMAIN log : \A j \in 1..k : log[j].index # i})

\* _findByIndex: the position of an entry of index i, beyond the log if none is.
Find(log, i) ==
    IF i \in DOMAIN log /\ log[i].index = i THEN i ELSE Before(log, i) + 1

\* findLast: the position of the last entry of index i, 0 if there is none.
FindLast(log, i) ==
    Len(log) - Cardinality({k \in DOMAIN log :
                               \A j \in k..Len(log) : log[j].index # i})

Peers(n) == Node \ {n}

Majority == (Cardinality(Node) \div 2) + 1

\* A fresh engine, started.
Fresh ==
    [up |-> TRUE, role |-> "follower", term |-> 0, voted |-> NoNode,
     votes |-> {}, log |-> <<>>, commit |-> 0, done |-> <<>>,
     next |-> [p \in Node |-> 0], match |-> [p \in Node |-> 0],
     timer |-> TRUE, beat |-> FALSE, calls |-> {}]

Init ==
    /\ node = [n \in Node |-> Fresh]
    /\ msgs = {}
    /\ asked = {}
    /\ faults = 0
    /\ ballots = {}

-----------------------------------------------------------------------------
(* What the handlers do to the fields of one engine.                       *)

BecomeFollower(s, t) ==
    [s EXCEPT !.role = "follower", !.term = t, !.voted = NoNode,
              !.timer = s.up, !.beat = s.beat /\ s.role # "leader"]

\* Mutant: a message of any other term.
HeardAnyTerm(s, t) == IF t # s.term THEN BecomeFollower(s, t) ELSE s

\* handleRpc: any message of a higher term makes a follower of the receiver.
HeardTerm(s, t) == IF t > s.term THEN BecomeFollower(s, t) ELSE s

UpToDate(s, last, term) ==
    \/ s.log = <<>>
    \/ term > LastTerm(s.log)
    \/ term = LastTerm(s.log) /\ last >= LastIndex(s.log)

\* What _applyCommitted applies at index i: nothing if no entry has it.
ApplyAt(log, i) == {log[k].cmd : k \in {Find(log, i)} \cap DOMAIN log}

\* Mutant: only the entry committed last is applied.
CommitToLatest(s, k) ==
    IF k < s.commit THEN s
    ELSE [s EXCEPT !.commit = k,
                   !.done = [i \in 1..k |-> IF i <= Len(s.done) THEN s.done[i]
                                            ELSE ApplyAt(s.log, k)]]

\* Mutant: nothing is applied.
CommitToUnapplied(s, k) == IF k < s.commit THEN s ELSE [s EXCEPT !.commit = k]

\* _safeSetCommitIndex, then _applyCommitted.
CommitTo(s, k) ==
    IF k < s.commit THEN s
    ELSE [s EXCEPT !.commit = k,
                   !.done = [i \in 1..k |-> IF i <= Len(s.done) THEN s.done[i]
                                            ELSE ApplyAt(s.log, i)]]

\* Mutant: an entry that is there already is not noticed.
PutAgain(log, e) == Append(log, e)

\* The loop's body after the hash: what is there of entry e's index stays if it
\* has e's term, and goes, with all behind it, if not.
Put(log, e) ==
    LET b == Before(log, e.index)
    IN  IF b < Len(log) /\ log[b + 1].term = e.term THEN log
        ELSE Append(SubSeq(log, 1, b), e)

\* Mutant: the chain is not looked at.
ChainedAlways(log, e) == TRUE

\* _verifyHashChain, up to its await: e continues the entry before its index.
Chained(log, e) ==
    LET k == FindLast(log, e.index - 1)
    IN  e.prev = IF k = 0 THEN <<>> ELSE EntryHash(log[k])

\* prevLogTerm: the term of the entry of index i.
TermAt(log, i) == IF Find(log, i) \in DOMAIN log THEN log[Find(log, i)].term ELSE 0

\* Mutant: the followers are not told what is committed.
AppendsUncommitted(n, s) ==
    IF s.role = "leader" /\ s.up
    THEN {[type |-> "append", from |-> n, to |-> p, term |-> s.term,
           prev |-> s.next[p],
           prevTerm |-> TermAt(s.log, s.next[p]), log |-> s.log,
           commit |-> 0] : p \in Peers(n)}
    ELSE {}

\* _sendAppendEntries: the message for each peer.  Its entries are those of the
\* log with an index beyond prev; the receiver's loop skips the others.
Appends(n, s) ==
    IF s.role = "leader" /\ s.up
    THEN {[type |-> "append", from |-> n, to |-> p, term |-> s.term,
           prev |-> s.next[p],
           prevTerm |-> TermAt(s.log, s.next[p]), log |-> s.log,
           commit |-> s.commit] : p \in Peers(n)}
    ELSE {}

Elect == [kind |-> "elect"]     \* _startElection, its sends going out
Lead  == [kind |-> "lead"]      \* _becomeLeader, propose's sends going out

\* Mutant: every entry starts a chain of its own.
ProposeCallUnchained(s, cmd, leading) ==
    [kind |-> "propose", cmd |-> cmd, prev |-> <<>>, leading |-> leading]

ProposeCall(s, cmd, leading) ==
    [kind |-> "propose", cmd |-> cmd, prev |-> LastHash(s.log), leading |-> leading]

AppendCall(m) ==
    [kind |-> "append", from |-> m.from, prev |-> m.prev, log |-> m.log, at |-> 0,
     commit |-> m.commit]

\* The position of the next entry the loop of call c comes to, after c.at.
NextAt(c) ==
    LET passed == {k \in c.at + 1..Len(c.log) :
                      \A j \in c.at + 1..k : c.log[j].index <= c.prev}
    IN  c.at + Cardinality(passed) + 1

Appended(n, to, s, ok, matched) ==
    [type |-> "appended", from |-> n, to |-> to, term |-> s.term,
     ok |-> ok, match |-> matched]

-----------------------------------------------------------------------------
Set(n, s) == node' = [node EXCEPT ![n] = s]

\* What is still in flight when m has been delivered.
Left(m) == IF Duplicates THEN msgs ELSE msgs \ {m}

\* n's election timer runs out (the constructor forgot sendRpc: it throws there).
StartElection(n) ==
    LET s == node[n]
        last == s.log
    IN  /\ s.up
        /\ s.timer
        /\ n \in Electors
        /\ s.term < MaxTerm
        /\ Set(n, [s EXCEPT !.term = @ + 1, !.role = "candidate", !.voted = n,
                            !.votes = {n}, !.timer = FALSE,
                            !.calls = IF Wired THEN @ \cup {Elect} ELSE @])
        /\ msgs' = IF Wired
                   THEN msgs \cup {[type |-> "vote?", from |-> n, to |-> p,
                                    term |-> s.term + 1, last |-> LastIndex(s.log),
                                    lastTerm |-> LastTerm(s.log)] : p \in Peers(n)}
                   ELSE msgs
        /\ ballots' = ballots \cup {<<n, s.term + 1, n>>}
        /\ UNCHANGED <<asked, faults>>

\* Its sends are out: the election timer is set again, whatever n is by now.
FinishElection(n) ==
    /\ Elect \in node[n].calls
    /\ Set(n, [node[n] EXCEPT !.timer = node[n].up, !.calls = @ \ {Elect}])
    /\ UNCHANGED <<msgs, asked, faults, ballots>>

\* _handleRequestVote
HandleRequestVote(n, m) ==
    LET s == HeardTerm(node[n], m.term)
        granted == /\ m.term >= s.term
                   /\ s.voted \in {NoNode, m.from}
                   /\ UpToDate(s, m.last, m.lastTerm)
    IN  /\ Set(n, IF granted THEN [s EXCEPT !.voted = m.from, !.timer = TRUE] ELSE s)
        /\ msgs' = Left(m) \cup
                     {[type |-> "vote!", from |-> n, to |-> m.from,
                       term |-> s.term, granted |-> granted]}
        /\ ballots' = IF granted THEN ballots \cup {<<n, s.term, m.from>>} ELSE ballots
        /\ UNCHANGED <<asked, faults>>

\* _becomeLeader, up to the hashes of the no-op it proposes.
BecomeLeader(s) ==
    [s EXCEPT !.role = "leader",
              !.next = [p \in Node |-> Len(s.log)],
              !.match = [p \in Node |-> 0],
              !.calls = @ \cup {ProposeCall(s, Noop, TRUE)}]

\* Mutant: votes of other terms count.
HandleVoteResponseLate(n, m) ==
    LET s == HeardTerm(node[n], m.term)
        counts == s.role = "candidate" /\ m.granted
        got == [s EXCEPT !.votes = @ \cup {m.from}]
        wins == counts /\ Cardinality(got.votes) >= Majority
    IN  /\ Set(n, IF wins THEN BecomeLeader(got) ELSE IF counts THEN got ELSE s)
        /\ msgs' = Left(m)
        /\ UNCHANGED <<asked, faults, ballots>>

\* Mutant: more than a majority is asked for.
HandleVoteResponseMore(n, m) ==
    LET s == HeardTerm(node[n], m.term)
        counts == s.role = "candidate" /\ m.term = s.term /\ m.granted
        got == [s EXCEPT !.votes = @ \cup {m.from}]
        wins == counts /\ Cardinality(got.votes) > Majority
    IN  /\ Set(n, IF wins THEN BecomeLeader(got) ELSE IF counts THEN got ELSE s)
        /\ msgs' = Left(m)
        /\ UNCHANGED <<asked, faults, ballots>>

\* _handleVoteResponse
HandleVoteResponse(n, m) ==
    LET s == HeardTerm(node[n], m.term)
        counts == s.role = "candidate" /\ m.term = s.term /\ m.granted
        got == [s EXCEPT !.votes = @ \cup {m.from}]
        wins == counts /\ Cardinality(got.votes) >= Majority
    IN  /\ Set(n, IF wins THEN BecomeLeader(got) ELSE IF counts THEN got ELSE s)
        /\ msgs' = Left(m)
        /\ UNCHANGED <<asked, faults, ballots>>

\* propose(), up to its hashes: the role is checked and prevHash read here.
Propose(n, cmd) ==
    /\ cmd \in Cmd \ asked
    /\ node[n].role = "leader"
    /\ Cardinality(node[n].calls) < MaxCalls
    /\ asked' = asked \cup {cmd}
    /\ Set(n, [node[n] EXCEPT !.calls = @ \cup {ProposeCall(node[n], cmd, FALSE)}])
    /\ UNCHANGED <<msgs, faults, ballots>>

\* The hashes are there: the entry is pushed in the term of now, and sent.
PushProposal(n, c) ==
    LET s == node[n]
        pushed == [s EXCEPT
                     !.log = Append(@, [index |-> Len(@) + 1, term |-> s.term,
                                         cmd |-> c.cmd, prev |-> c.prev]),
                     !.calls = (@ \ {c}) \cup (IF c.leading THEN {Lead} ELSE {})]
    IN  /\ c \in s.calls
        /\ c.kind = "propose"
        /\ Set(n, pushed)
        /\ msgs' = msgs \cup Appends(n, pushed)
        /\ UNCHANGED <<asked, faults, ballots>>

\* The tail of _becomeLeader: timers cleared, heartbeats started.
FinishLead(n) ==
    /\ Lead \in node[n].calls
    /\ Set(n, [node[n] EXCEPT !.timer = FALSE, !.beat = TRUE, !.calls = @ \ {Lead}])
    /\ UNCHANGED <<msgs, asked, faults, ballots>>

Heartbeat(n) ==
    /\ node[n].beat
    /\ Cardinality(msgs) < MaxFlight
    /\ msgs' = msgs \cup Appends(n, node[n])
    /\ UNCHANGED <<node, asked, faults, ballots>>

\* The loop of _handleAppendEntries from its next entry to its next await, or to
\* its end: the engine s of n, the call c, the other messages ms.
GoOn(n, s, c, ms) ==
    LET at == NextAt(c)
        last == LastIndex(s.log)
    IN  IF at <= Len(c.log)
        THEN IF Chained(s.log, c.log[at])
             THEN /\ Set(n, [s EXCEPT !.calls = @ \cup {[c EXCEPT !.at = at]}])
                  /\ msgs' = ms
             ELSE /\ Set(n, s)
                  /\ msgs' = ms \cup {Appended(n, c.from, s, FALSE, last)}
        ELSE /\ Set(n, IF c.commit > s.commit
                       THEN CommitTo(s, IF c.commit <= last THEN c.commit ELSE last)
                       ELSE s)
             /\ msgs' = ms \cup {Appended(n, c.from, s, TRUE, last)}

\* _detectSplitBrain: another leader of my own term makes me a follower of the next.
SplitBrain(s, m) ==
    IF s.role = "leader" /\ m.term = s.term THEN BecomeFollower(s, s.term + 1) ELSE s

\* _handleAppendEntries, up to the first hash.
HandleAppendEntries(n, m) ==
    LET heard == HeardTerm(node[n], m.term)
        s == SplitBrain([heard EXCEPT !.timer = TRUE], m)
        f == BecomeFollower(s, m.term)
        matches == /\ Find(f.log, m.prev) \in DOMAIN f.log
                   /\ TermAt(f.log, m.prev) = m.prevTerm
    IN  /\ Cardinality(node[n].calls) < MaxCalls
        /\ IF m.term < s.term
           THEN /\ Set(n, s)
                /\ msgs' = Left(m) \cup {Appended(n, m.from, s, FALSE, 0)}
           ELSE IF m.prev > 0 /\ ~matches
           THEN /\ Set(n, f)
                /\ msgs' = Left(m) \cup {Appended(n, m.from, f, FALSE, LastIndex(f.log))}
           ELSE GoOn(n, f, AppendCall(m), Left(m))
        /\ UNCHANGED <<asked, faults, ballots>>

\* The hash of the entry the loop is at has been checked.
AppendEntry(n, c) ==
    LET s == node[n]
        put == [s EXCEPT !.log = Put(@, c.log[c.at]), !.calls = @ \ {c}]
    IN  /\ c \in s.calls
        /\ c.kind = "append"
        /\ GoOn(n, put, c, msgs)
        /\ UNCHANGED <<asked, faults, ballots>>

\* Mutant: one copy is enough.
CommittableAlone(s) ==
    {i \in (s.commit + 1)..LastIndex(s.log) : TermAt(s.log, i) = s.term}

\* _maybeCommit: the entries of my term a majority has, the highest of them wins.
Committable(s) ==
    {i \in (s.commit + 1)..LastIndex(s.log) :
        /\ TermAt(s.log, i) = s.term
        /\ 1 + Cardinality({p \in Node : s.match[p] >= i}) >= Majority}

\* _handleAppendResponse
HandleAppendResponse(n, m) ==
    LET s == HeardTerm(node[n], m.term)
        back == [s EXCEPT !.next[m.from] = IF @ = 0 THEN 0 ELSE @ - 1]
        taken == [s EXCEPT !.match[m.from] = m.match, !.next[m.from] = m.match]
        some == Committable(taken)
    IN  /\ IF s.role # "leader" THEN Set(n, s)
           ELSE IF ~m.ok THEN Set(n, back)
           ELSE IF some = {} THEN Set(n, taken)
           ELSE \E k \in some : (\A i \in some : i <= k) /\ Set(n, CommitTo(taken, k))
        /\ msgs' = Left(m)
        /\ UNCHANGED <<asked, faults, ballots>>

Deliver(m) ==
    LET n == m.to
    IN  /\ node[n].up
        /\ \/ m.type = "vote?" /\ HandleRequestVote(n, m)
           \/ m.type = "vote!" /\ HandleVoteResponse(n, m)
           \/ m.type = "append" /\ HandleAppendEntries(n, m)
           \/ m.type = "appended" /\ HandleAppendResponse(n, m)

\* The transport drops a message, or hands it to an engine that is stopped.
Lose(m) ==
    /\ Lossy
    /\ msgs' = msgs \ {m}
    /\ UNCHANGED <<node, asked, faults, ballots>>

Fault ==
    /\ faults < MaxFaults
    /\ faults' = faults + 1
    /\ UNCHANGED <<msgs, asked, ballots>>

\* stop() and start(): nothing but the timers changes.
Stop(n) ==
    /\ n \in Unsteady
    /\ node[n].up
    /\ Set(n, [node[n] EXCEPT !.up = FALSE, !.timer = FALSE, !.beat = FALSE])
    /\ Fault

Start(n) ==
    /\ ~node[n].up
    /\ Set(n, [node[n] EXCEPT !.up = TRUE, !.timer = TRUE])
    /\ UNCHANGED <<msgs, asked, faults, ballots>>

\* The process dies and comes back: no field of the engine is ever stored.
Crash(n) ==
    /\ n \in Mortal
    /\ Set(n, Fresh)
    /\ Fault

Next ==
    \/ \E n \in Node :
          \/ StartElection(n) \/ FinishElection(n) \/ FinishLead(n) \/ Heartbeat(n)
          \/ Stop(n) \/ Start(n) \/ Crash(n)
          \/ \E cmd \in Cmd : Propose(n, cmd)
          \/ \E c \in node[n].calls : PushProposal(n, c) \/ AppendEntry(n, c)
    \/ \E m \in msgs : Deliver(m) \/ Lose(m)

Spec == Init /\ [][Next]_vars

-----------------------------------------------------------------------------
(* Properties.                                                             *)

Message ==
    [type : {"vote?"}, from : Node, to : Node, term : Nat, last : Nat, lastTerm : Nat]
      \cup [type : {"vote!"}, from : Node, to : Node, term : Nat, granted : BOOLEAN]
      \cup [type : {"append"}, from : Node, to : Node, term : Nat, prev : Nat,
            prevTerm : Nat, log : Seq(Entry), commit : Nat]
      \cup [type : {"appended"}, from : Node, to : Node, term : Nat, ok : BOOLEAN,
            match : Nat]

Call ==
    {Elect, Lead}
      \cup [kind : {"propose"}, cmd : Command, prev : Seq(Command), leading : BOOLEAN]
      \cup [kind : {"append"}, from : Node, prev : Nat, log : Seq(Entry), at : Nat,
            commit : Nat]

Engine ==
    [up : BOOLEAN, role : {"follower", "candidate", "leader"}, term : Nat,
     voted : Node \cup {NoNode}, votes : SUBSET Node, log : Seq(Entry),
     commit : Nat, done : Seq(SUBSET Command), next : [Node -> Nat],
     match : [Node -> Nat], timer : BOOLEAN, beat : BOOLEAN, calls : SUBSET Call]

\* Every field holds what its TypeScript type promises, an append call that
\* waits has an entry to wait for, and what is applied is what is committed.
TypeOK ==
    /\ node \in [Node -> Engine]
    /\ msgs \subseteq Message
    /\ asked \subseteq Cmd
    /\ faults \in Nat
    /\ ballots \subseteq Node \X Nat \X Node
    /\ \A n \in Node :
          /\ Len(node[n].done) = node[n].commit
          /\ \A c \in node[n].calls : c.kind = "append" => c.at \in DOMAIN c.log

Leads(n) == node[n].role = "leader"

Voters(n) == {v \in Node : <<v, node[n].term, n>> \in ballots}

\* Whoever leads a term was voted for, in that very term, by a majority of
\* distinct nodes (_handleVoteResponse counting late, repeated and foreign votes).
LeadersHaveMandate ==
    \A n \in Node : Leads(n) => Cardinality(Voters(n)) >= Majority

\* A candidate that has a majority of votes leads.
MajorityLeads ==
    \A n \in Node : node[n].role = "candidate" => Cardinality(node[n].votes) < Majority

\* No two engines lead the same term ("Tam olarak 1 lider olmali").
OneLeaderPerTerm ==
    \A n, p \in Node : Leads(n) /\ Leads(p) /\ node[n].term = node[p].term => n = p

\* Two logs with an entry of the same index and term are the same up to it.
LogMatching ==
    \A n, p \in Node :
        \A i \in DOMAIN node[n].log \cap DOMAIN node[p].log :
            node[n].log[i].term = node[p].log[i].term
                => SubSeq(node[n].log, 1, i) = SubSeq(node[p].log, 1, i)

\* Every node applies the same command at the same index.
StateMachineSafety ==
    \A n, p \in Node :
        \A i \in DOMAIN node[n].done \cap DOMAIN node[p].done :
            node[n].done[i] = node[p].done[i]

\* What any node has applied is in the logs of a majority.
CommittedOnMajority ==
    \A n \in Node : \A i \in DOMAIN node[n].done :
        Cardinality({p \in Node : /\ i \in DOMAIN node[p].log
                                  /\ {node[p].log[i].cmd} = node[n].done[i]}) >= Majority

HashChain(log) ==
    \A i \in DOMAIN log :
        log[i].prev = IF i = 1 THEN <<>> ELSE EntryHash(log[i - 1])

\* It holds in the logs that were received, whatever the leader sends.
FollowersChained == \A n \in Node : node[n].role = "follower" => HashChain(node[n].log)

\* An engine never forgets a term, nor what it has committed, unless its process
\* has died and it starts from nothing.
NeverBack ==
    [][\A n \in Node :
          \/ node'[n].term >= node[n].term /\ node'[n].commit >= node[n].commit
          \/ n \in Mortal /\ node'[n] = Fresh]_vars

\* What the code's scheduling gives: timers that are set run out, hashes and
\* sends come to an end, and a message that is not lost arrives.
Fair ==
    /\ \A n \in Node :
          /\ WF_vars(StartElection(n))
          /\ WF_vars(FinishElection(n))
          /\ WF_vars(FinishLead(n))
          /\ WF_vars(Heartbeat(n))
          /\ WF_vars(\E c \in node[n].calls : PushProposal(n, c))
          /\ WF_vars(\E c \in node[n].calls : AppendEntry(n, c))
          /\ WF_vars(\E m \in msgs : m.to = n /\ Deliver(m))

FairSpec == Spec /\ Fair

Applied(n, cmd) == \E i \in DOMAIN node[n].done : cmd \in node[n].done[i]

\* A leader is elected, and everybody applies the command it starts with.
NoopApplied == <>(\A n \in Node : Applied(n, Noop))

\* What a leader has taken on is applied everywhere ("komut cogunlukla commit edilir").
ProposalApplied == \A cmd \in Cmd : cmd \in asked ~> \A n \in Node : Applied(n, cmd)

\* For TLC: the nodes are alike where Electors, Unsteady and Mortal are all of
\* them or none.
Symmetry == Permutations(Node)
=============================================================================
