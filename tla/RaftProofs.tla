----------------------------- MODULE RaftProofs -----------------------------
(***************************************************************************)
(* Proofs about Raft, for every cluster and every value of the bounds.     *)
(* Elections are treated first, where any node may start one.  Then the    *)
(* log, where one node alone does: with rival leaders the properties of    *)
(* the log do not hold (the term of an entry is that of its push, and a    *)
(* leader of an old term pushes what it was proposed before).              *)
(***************************************************************************)
EXTENDS Raft, FiniteSetTheorems, SequenceTheorems, TLAPS

\* What TypeOK says of one engine.
Healthy(s) ==
    /\ s \in Engine
    /\ Len(s.done) = s.commit
    /\ \A c \in s.calls : c.kind = "append" => c.at \in DOMAIN c.log

\* s2 has moved on from s, in its term and in what it has committed.
Forward(s, s2) == s2.term >= s.term /\ s2.commit >= s.commit

\* s2 claims no election that s did not.
Quiet(s, s2) ==
    \/ s2.role = "follower"
    \/ s2.role = s.role /\ s2.term = s.term /\ s2.votes = s.votes

LEMMA BecomeFollowerHealthy ==
    ASSUME NEW s, Healthy(s), NEW t \in Nat
    PROVE  /\ Healthy(BecomeFollower(s, t))
           /\ BecomeFollower(s, t).role = "follower"
           /\ BecomeFollower(s, t).term = t
           /\ BecomeFollower(s, t).commit = s.commit
           /\ BecomeFollower(s, t).log = s.log
           /\ BecomeFollower(s, t).up = s.up
           /\ BecomeFollower(s, t).calls = s.calls
<1> DEFINE f == BecomeFollower(s, t)
<1>1. f \in Engine
    BY DEF BecomeFollower, Healthy, Engine
<1>2. f.done = s.done /\ f.commit = s.commit /\ f.calls = s.calls
    BY DEF BecomeFollower, Healthy, Engine
<1>3. f.role = "follower" /\ f.term = t /\ f.log = s.log /\ f.up = s.up
    BY DEF BecomeFollower, Healthy, Engine
<1>. QED BY <1>1, <1>2, <1>3 DEF Healthy

LEMMA HeardTermHealthy ==
    ASSUME NEW s, Healthy(s), NEW t \in Nat
    PROVE  /\ Healthy(HeardTerm(s, t))
           /\ Forward(s, HeardTerm(s, t))
           /\ HeardTerm(s, t).term >= t
           /\ HeardTerm(s, t).role # "follower" => HeardTerm(s, t) = s
           /\ Quiet(s, HeardTerm(s, t))
           /\ HeardTerm(s, t).calls = s.calls
<1>1. s.term \in Nat /\ s.commit \in Nat
    BY DEF Healthy, Engine
<1>2. CASE t > s.term
  <2>1. HeardTerm(s, t) = BecomeFollower(s, t)
      BY <1>2 DEF HeardTerm
  <2>2. BecomeFollower(s, t).term = t /\ BecomeFollower(s, t).commit = s.commit
      BY BecomeFollowerHealthy
  <2>3. BecomeFollower(s, t).role = "follower"
      BY BecomeFollowerHealthy
  <2>4. Healthy(BecomeFollower(s, t)) /\ BecomeFollower(s, t).calls = s.calls
      BY BecomeFollowerHealthy
  <2>. QED BY <1>1, <1>2, <2>1, <2>2, <2>3, <2>4 DEF Forward, Quiet
<1>3. CASE ~(t > s.term)
    BY <1>1, <1>3 DEF HeardTerm, Forward, Quiet
<1>. QED BY <1>2, <1>3

LEMMA CommitToHealthy ==
    ASSUME NEW s, Healthy(s), NEW k \in Nat
    PROVE  /\ Healthy(CommitTo(s, k))
           /\ Forward(s, CommitTo(s, k))
           /\ Quiet(s, CommitTo(s, k))
           /\ CommitTo(s, k).calls = s.calls
<1> DEFINE d == [i \in 1..k |-> IF i <= Len(s.done) THEN s.done[i] ELSE ApplyAt(s.log, i)]
           r == [s EXCEPT !.commit = k, !.done = d]
<1>1. /\ s.term \in Nat /\ s.commit \in Nat
      /\ s.log \in Seq(Entry) /\ s.done \in Seq(SUBSET Command)
    BY DEF Healthy, Engine
<1>2. CASE k < s.commit
    BY <1>1, <1>2 DEF CommitTo, Forward, Quiet
<1>3. CASE ~(k < s.commit)
  <2>1. \A i : ApplyAt(s.log, i) \in SUBSET Command
    <3>1. \A j \in DOMAIN s.log : s.log[j].cmd \in Command
      <4>1. TAKE j \in DOMAIN s.log
      <4>2. s.log[j] \in Entry
          BY <1>1
      <4>. QED BY <4>2 DEF Entry
    <3>. QED BY <3>1 DEF ApplyAt
  <2>2. \A i \in 1..k : d[i] \in SUBSET Command
    <3>1. TAKE i \in 1..k
    <3>2. CASE i <= Len(s.done)
        BY <1>1, <3>2
    <3>3. CASE ~(i <= Len(s.done))
        BY <2>1, <3>3
    <3>. QED BY <3>2, <3>3
  <2>3. d \in Seq(SUBSET Command) /\ Len(d) = k
    <3>1. d \in [1..k -> SUBSET Command]
        BY <2>2
    <3>. HIDE DEF d
    <3>. QED BY <3>1
  <2>. HIDE DEF d
  <2>4. r \in Engine
    BY <2>3 DEF Healthy, Engine
  <2>5. /\ r.commit = k /\ r.done = d /\ r.calls = s.calls
        /\ r.role = s.role /\ r.term = s.term
    BY DEF Healthy, Engine
  <2>6. r.votes = s.votes
    BY DEF Healthy, Engine
  <2>7. CommitTo(s, k) = r
    BY <1>3 DEF CommitTo, d
  <2>. QED BY <1>1, <1>3, <2>3, <2>4, <2>5, <2>6, <2>7 DEF Healthy, Forward, Quiet
<1>. QED BY <1>2, <1>3

-----------------------------------------------------------------------------
(* Logs, and what is looked up in them.                                    *)

LEMMA BeforeType ==
    ASSUME NEW log \in Seq(Entry), NEW i
    PROVE  Before(log, i) \in 0..Len(log)
<1> DEFINE B == {k \in DOMAIN log : \A j \in 1..k : log[j].index # i}
<1>0. Len(log) \in Nat
    OBVIOUS
<1>1. IsFiniteSet(1..Len(log)) /\ Cardinality(1..Len(log)) = Len(log)
    BY <1>0, FS_Interval
<1>2. B \in SUBSET (1..Len(log))
    OBVIOUS
<1>3. IsFiniteSet(B) /\ Cardinality(B) <= Len(log)
    BY <1>1, <1>2, FS_Subset
<1>4. Cardinality(B) \in Nat
    BY <1>3, FS_CardinalityType
<1>. QED BY <1>0, <1>3, <1>4 DEF Before

LEMMA LogFacts ==
    ASSUME NEW log \in Seq(Entry)
    PROVE  /\ LastHash(log) \in Seq(Command)
           /\ LastTerm(log) \in Nat
           /\ LastIndex(log) \in Nat
           /\ \A i : TermAt(log, i) \in Nat
<1>1. log # <<>> => log[Len(log)] \in Entry
    OBVIOUS
<1>2. \A e \in Entry : EntryHash(e) \in Seq(Command)
    BY DEF EntryHash, Entry
<1>3. LastHash(log) \in Seq(Command)
    BY <1>1, <1>2 DEF LastHash
<1>4. LastTerm(log) \in Nat /\ LastIndex(log) \in Nat
    BY <1>1 DEF LastTerm, LastIndex, Entry
<1>5. \A k \in DOMAIN log : log[k].term \in Nat
  <2>1. TAKE k \in DOMAIN log
  <2>2. log[k] \in Entry
    OBVIOUS
  <2>. QED BY <2>2 DEF Entry
<1>6. \A i : TermAt(log, i) \in Nat
    BY <1>5 DEF TermAt
<1>. QED BY <1>3, <1>4, <1>6

LEMMA PutType ==
    ASSUME NEW log \in Seq(Entry), NEW e \in Entry
    PROVE  Put(log, e) \in Seq(Entry)
<1> DEFINE b == Before(log, e.index)
<1>1. b \in 0..Len(log)
    BY BeforeType
<1>. HIDE DEF b
<1>2. SubSeq(log, 1, b) \in Seq(Entry)
    BY <1>1, SubSeqProperties
<1>3. Append(SubSeq(log, 1, b), e) \in Seq(Entry)
    BY <1>2
<1>. QED BY <1>3 DEF Put, b

LEMMA NextAtType ==
    ASSUME NEW c, c.at \in Nat, c.log \in Seq(Entry)
    PROVE  NextAt(c) \in Nat \ {0}
<1> DEFINE P == {k \in c.at + 1..Len(c.log) :
                    \A j \in c.at + 1..k : c.log[j].index <= c.prev}
<1>1. IsFiniteSet(c.at + 1..Len(c.log))
    BY FS_Interval
<1>2. P \in SUBSET (c.at + 1..Len(c.log))
    OBVIOUS
<1>3. Cardinality(P) \in Nat
    BY <1>1, <1>2, FS_Subset, FS_CardinalityType
<1>. QED BY <1>3 DEF NextAt

-----------------------------------------------------------------------------
(* What is sent, and how the stretches of code move one engine on.         *)

\* Nothing is in flight that was not, but requests and answers to appends.
Sent(ms) == \A m \in msgs' : m \in ms \/ (m \in Message /\ m.type # "vote!")

\* The engine of n moves on to a healthy state, and claims no new election.
Moved(n) ==
    \E s2 : /\ Set(n, s2)
            /\ Healthy(s2)
            /\ Forward(node[n], s2)
            /\ Quiet(node[n], s2)

AppendCalls ==
    [kind : {"append"}, from : Node, prev : Nat, log : Seq(Entry), at : Nat, commit : Nat]

LEMMA Parts == TypeOK => \A n \in Node : node[n] \in Engine /\ Healthy(node[n])
  BY DEF TypeOK, Healthy

LEMMA QuietTrans ==
    ASSUME NEW s, NEW s1, NEW s2, Quiet(s, s1), Quiet(s1, s2)
    PROVE  Quiet(s, s2)
  BY DEF Quiet

LEMMA ForwardTrans ==
    ASSUME NEW s \in Engine, NEW s1 \in Engine, NEW s2 \in Engine,
           Forward(s, s1), Forward(s1, s2)
    PROVE  Forward(s, s2)
<1>1. \A e \in Engine : e.term \in Nat /\ e.commit \in Nat
    BY DEF Engine
<1>2. /\ s.term \in Nat /\ s1.term \in Nat /\ s2.term \in Nat
      /\ s.commit \in Nat /\ s1.commit \in Nat /\ s2.commit \in Nat
    BY <1>1
<1>. QED BY <1>2 DEF Forward

LEMMA AppendsType ==
    ASSUME NEW n \in Node, NEW s, Healthy(s)
    PROVE  \A m \in Appends(n, s) : m \in Message /\ m.type = "append"
<1>1. /\ s.log \in Seq(Entry) /\ s.term \in Nat /\ s.commit \in Nat
      /\ s.next \in [Node -> Nat]
    BY DEF Healthy, Engine
<1>2. \A i : TermAt(s.log, i) \in Nat
    BY <1>1, LogFacts
<1>3. ASSUME NEW p \in Peers(n)
      PROVE  [type |-> "append", from |-> n, to |-> p, term |-> s.term,
              prev |-> s.next[p], prevTerm |-> TermAt(s.log, s.next[p]),
              log |-> s.log, commit |-> s.commit] \in Message
    BY <1>1, <1>2 DEF Message, Peers
<1>. QED BY <1>3 DEF Appends

LEMMA AppendedType ==
    ASSUME NEW n \in Node, NEW to \in Node, NEW s, Healthy(s),
           NEW ok \in BOOLEAN, NEW matched \in Nat
    PROVE  /\ Appended(n, to, s, ok, matched) \in Message
           /\ Appended(n, to, s, ok, matched).type = "appended"
<1>1. s.term \in Nat
    BY DEF Healthy, Engine
<1>. QED BY <1>1 DEF Appended, Message

\* A call more, or one less, and what is pushed to the log, leaves an engine healthy.
LEMMA CallAdded ==
    ASSUME NEW s, Healthy(s), NEW c \in Call,
           c.kind = "append" => c.at \in DOMAIN c.log
    PROVE  Healthy([s EXCEPT !.calls = @ \cup {c}])
<1> DEFINE r == [s EXCEPT !.calls = @ \cup {c}]
<1>1. r \in Engine
    BY DEF Healthy, Engine
<1>2. r.done = s.done /\ r.commit = s.commit /\ r.calls = s.calls \cup {c}
    BY DEF Healthy, Engine
<1>. QED BY <1>1, <1>2 DEF Healthy

LEMMA LogPut ==
    ASSUME NEW s, Healthy(s), NEW log \in Seq(Entry), NEW c
    PROVE  LET r == [s EXCEPT !.log = log, !.calls = @ \ {c}]
           IN  Healthy(r) /\ Forward(s, r) /\ Quiet(s, r)
<1> DEFINE r == [s EXCEPT !.log = log, !.calls = @ \ {c}]
<1>1. r \in Engine
    BY DEF Healthy, Engine
<1>2. r.done = s.done /\ r.commit = s.commit /\ r.calls = s.calls \ {c}
    BY DEF Healthy, Engine
<1>3. r.role = s.role /\ r.term = s.term /\ r.votes = s.votes
    BY DEF Healthy, Engine
<1>4. s.term \in Nat /\ s.commit \in Nat
    BY DEF Healthy, Engine
<1>. QED BY <1>1, <1>2, <1>3, <1>4 DEF Healthy, Forward, Quiet

\* The loop of _handleAppendEntries, from any engine s that n may have come to.
LEMMA GoOnMoves ==
    ASSUME TypeOK, NEW n \in Node,
           NEW s, Healthy(s), Forward(node[n], s), Quiet(node[n], s),
           NEW c \in AppendCalls, NEW ms, GoOn(n, s, c, ms)
    PROVE  Moved(n) /\ Sent(ms)
<1> DEFINE at == NextAt(c)
           last == LastIndex(s.log)
           to == IF c.commit <= last THEN c.commit ELSE last
           called == [c EXCEPT !.at = at]
           waiting == [s EXCEPT !.calls = @ \cup {called}]
<1>1. c.at \in Nat /\ c.log \in Seq(Entry) /\ c.commit \in Nat /\ c.from \in Node
    BY DEF AppendCalls
<1>2. last \in Nat /\ s \in Engine
  <2>1. s \in Engine
    BY DEF Healthy
  <2>2. s.log \in Seq(Entry)
    BY <2>1 DEF Engine
  <2>. QED BY <2>1, <2>2, LogFacts
<1>3. at \in Nat \ {0}
    BY <1>1, NextAtType
<1>4. to \in Nat
    BY <1>1, <1>2
<1>5. CASE at <= Len(c.log) /\ Chained(s.log, c.log[at])
  <2>1. Set(n, waiting) /\ msgs' = ms
    BY <1>5 DEF GoOn
  <2>2. at \in DOMAIN c.log
    BY <1>1, <1>3, <1>5
  <2>. HIDE DEF at
  <2>3. called \in AppendCalls /\ called.at = at /\ called.log = c.log
    BY <1>3 DEF AppendCalls
  <2>4. called \in Call
    BY <2>3 DEF AppendCalls, Call
  <2>. HIDE DEF called
  <2>5. Healthy(waiting)
    BY <2>2, <2>3, <2>4, CallAdded
  <2>6. waiting.role = s.role /\ waiting.term = s.term
    BY <1>2 DEF Engine
  <2>7. waiting.votes = s.votes /\ waiting.commit = s.commit
    BY <1>2 DEF Engine
  <2>. HIDE DEF waiting
  <2>8. Forward(node[n], waiting) /\ Quiet(node[n], waiting)
    BY <2>6, <2>7 DEF Forward, Quiet
  <2>. QED BY <2>1, <2>5, <2>8 DEF Moved, Sent
<1>6. CASE at <= Len(c.log) /\ ~Chained(s.log, c.log[at])
  <2>1. Set(n, s) /\ msgs' = ms \cup {Appended(n, c.from, s, FALSE, last)}
    BY <1>6 DEF GoOn
  <2>2. /\ Appended(n, c.from, s, FALSE, last) \in Message
        /\ Appended(n, c.from, s, FALSE, last).type = "appended"
    BY <1>1, <1>2, AppendedType
  <2>. QED BY <2>1, <2>2 DEF Moved, Sent
<1>7. CASE ~(at <= Len(c.log))
  <2>1. /\ Set(n, IF c.commit > s.commit THEN CommitTo(s, to) ELSE s)
        /\ msgs' = ms \cup {Appended(n, c.from, s, TRUE, last)}
    BY <1>7 DEF GoOn
  <2>2. /\ Appended(n, c.from, s, TRUE, last) \in Message
        /\ Appended(n, c.from, s, TRUE, last).type = "appended"
    BY <1>1, <1>2, AppendedType
  <2>. HIDE DEF to
  <2>3. Healthy(CommitTo(s, to)) /\ Forward(s, CommitTo(s, to)) /\ Quiet(s, CommitTo(s, to))
    BY <1>4, CommitToHealthy
  <2>4. node[n] \in Engine /\ CommitTo(s, to) \in Engine
    BY <2>3, Parts DEF Healthy
  <2>5. Forward(node[n], CommitTo(s, to)) /\ Quiet(node[n], CommitTo(s, to))
    BY <1>2, <2>3, <2>4, ForwardTrans, QuietTrans
  <2>6. Moved(n)
    BY <2>1, <2>3, <2>5 DEF Moved
  <2>7. Sent(ms)
    BY <2>1, <2>2 DEF Sent
  <2>. QED BY <2>6, <2>7
<1>. QED BY <1>5, <1>6, <1>7

-----------------------------------------------------------------------------
(* The inductive invariant behind LeadersHaveMandate: whoever campaigns or *)
(* leads has counted only votes cast for it in its term, a leader has      *)
(* counted a majority of them, and a granted vote in flight was cast.      *)

Counted(s, n) ==
    /\ s.role # "follower" => s.votes \subseteq {v \in Node : <<v, s.term, n>> \in ballots}
    /\ s.role = "leader" => Cardinality(s.votes) >= Majority

VotesCast ==
    \A m \in msgs : m.type = "vote!" /\ m.granted => <<m.from, m.term, m.to>> \in ballots

Mandate == (\A n \in Node : Counted(node[n], n)) /\ VotesCast

\* A candidate that is not elected yet.
Undecided(s) == s.role = "candidate" => Cardinality(s.votes) < Majority

\* What every step but a crash keeps.
Kept ==
    /\ TypeOK'
    /\ Mandate => Mandate'
    /\ MajorityLeads /\ Majority > 1 => MajorityLeads'
    /\ \A n \in Node : Forward(node[n], node'[n])

LEMMA SetType ==
    ASSUME TypeOK, NEW n \in Node, NEW s, Healthy(s), Set(n, s),
           msgs' \subseteq Message, asked' \subseteq Cmd, faults' \in Nat,
           ballots' \subseteq Node \X Nat \X Node
    PROVE  TypeOK'
<1>1. node' = [node EXCEPT ![n] = s] /\ node \in [Node -> Engine] /\ s \in Engine
    BY DEF Set, TypeOK, Healthy
<1>2. node' \in [Node -> Engine]
    BY <1>1
<1>3. \A x \in Node : Healthy(node'[x])
    BY <1>1, Parts
<1>. QED BY <1>2, <1>3 DEF TypeOK, Healthy

LEMMA SetForward ==
    ASSUME TypeOK, NEW n \in Node, NEW s, Set(n, s), Forward(node[n], s)
    PROVE  \A x \in Node : Forward(node[x], node'[x])
<1>1. node' = [node EXCEPT ![n] = s] /\ node \in [Node -> Engine]
    BY DEF Set, TypeOK
<1>2. \A e \in Engine : e.term \in Nat /\ e.commit \in Nat
    BY DEF Engine
<1>3. \A x \in Node : Forward(node[x], node[x])
    BY <1>1, <1>2 DEF Forward
<1>. QED BY <1>1, <1>3

LEMMA CountedGrows ==
    ASSUME NEW n \in Node, NEW s, Counted(s, n), ballots \subseteq ballots'
    PROVE  Counted(s, n)'
  BY DEF Counted, Majority

LEMMA SetMandate ==
    ASSUME TypeOK, Mandate, NEW n \in Node, NEW s, Set(n, s), Quiet(node[n], s),
           ballots \subseteq ballots'
    PROVE  \A x \in Node : Counted(node[x], x)'
  <1>1. node' = [node EXCEPT ![n] = s] /\ node \in [Node -> Engine]
    BY DEF Set, TypeOK
  <1>2. TAKE x \in Node
  <1>3. Counted(node[x], x) /\ Counted(node[n], n)
    BY DEF Mandate
  <1>4. CASE x # n
    BY <1>1, <1>3, <1>4 DEF Counted, Majority
  <1>5. CASE x = n
    <2>1. node'[x] = s
      BY <1>1, <1>5
    <2>. QED BY <1>3, <1>5, <2>1 DEF Quiet, Counted, Majority
  <1>. QED BY <1>4, <1>5

LEMMA SetUndecided ==
    ASSUME TypeOK, MajorityLeads, NEW n \in Node, NEW s, Set(n, s), Undecided(s)
    PROVE  MajorityLeads'
<1>1. node' = [node EXCEPT ![n] = s] /\ node \in [Node -> Engine]
    BY DEF Set, TypeOK
<1>2. ASSUME NEW x \in Node PROVE Undecided(node'[x])
  <2>1. CASE x = n
    BY <1>1, <2>1
  <2>2. CASE x # n
    <3>1. node'[x] = node[x]
      BY <1>1, <2>2
    <3>. QED BY <3>1 DEF MajorityLeads, Undecided
  <2>. QED BY <2>1, <2>2
<1>. QED BY <1>2 DEF MajorityLeads, Undecided, Majority

LEMMA QuietUndecided ==
    ASSUME MajorityLeads, NEW n \in Node, NEW s, Quiet(node[n], s)
    PROVE  Undecided(s)
  BY DEF MajorityLeads, Undecided, Quiet

LEMMA MovedKeeps ==
    ASSUME TypeOK, NEW n \in Node, Moved(n), Sent(msgs), asked' \subseteq Cmd,
           faults' \in Nat, ballots' = ballots
    PROVE  Kept
<1>1. PICK s : Set(n, s) /\ Healthy(s) /\ Forward(node[n], s) /\ Quiet(node[n], s)
    BY DEF Moved
<1>2. msgs' \subseteq Message
    BY DEF Sent, TypeOK
<1>3. TypeOK'
  <2>1. ballots' \subseteq Node \X Nat \X Node
    BY DEF TypeOK
  <2>. QED BY <1>1, <1>2, <2>1, SetType
<1>4. Mandate => Mandate'
  <2>1. SUFFICES ASSUME Mandate PROVE Mandate'
    OBVIOUS
  <2>2. \A x \in Node : Counted(node[x], x)'
    BY <1>1, <2>1, SetMandate
  <2>3. VotesCast'
    BY <2>1 DEF Mandate, VotesCast, Sent
  <2>. QED BY <2>2, <2>3 DEF Mandate
<1>5. \A x \in Node : Forward(node[x], node'[x])
    BY <1>1, SetForward
<1>6. MajorityLeads => MajorityLeads'
    BY <1>1, QuietUndecided, SetUndecided
<1>. QED BY <1>3, <1>4, <1>5, <1>6 DEF Kept

-----------------------------------------------------------------------------
(* One lemma per action.                                                   *)

\* The small steps: timers, the flag and calls, or nothing of the engine.
LEMMA FinishElectionKeeps ==
    ASSUME TypeOK, NEW n \in Node, FinishElection(n)
    PROVE  Kept
<1> DEFINE s == node[n]
           r == [s EXCEPT !.timer = s.up, !.calls = @ \ {Elect}]
<1>1. Set(n, r) /\ msgs' = msgs /\ asked' = asked /\ faults' = faults /\ ballots' = ballots
    BY DEF FinishElection
<1>2. s \in Engine /\ Healthy(s)
    BY Parts
<1>3. r \in Engine
    BY <1>2 DEF Engine
<1>4. r.done = s.done /\ r.commit = s.commit /\ r.calls = s.calls \ {Elect}
    BY <1>2 DEF Engine
<1>5. r.role = s.role /\ r.term = s.term /\ r.votes = s.votes
    BY <1>2 DEF Engine
<1>6. s.term \in Nat /\ s.commit \in Nat
    BY <1>2 DEF Engine
<1>. HIDE DEF r
<1>7. Healthy(r) /\ Forward(s, r) /\ Quiet(s, r)
    BY <1>2, <1>3, <1>4, <1>5, <1>6 DEF Healthy, Forward, Quiet
<1>8. Moved(n) /\ Sent(msgs)
    BY <1>1, <1>7 DEF Moved, Sent
<1>. QED BY <1>1, <1>8, MovedKeeps DEF TypeOK

LEMMA FinishLeadKeeps ==
    ASSUME TypeOK, NEW n \in Node, FinishLead(n)
    PROVE  Kept
<1> DEFINE s == node[n]
           r == [s EXCEPT !.timer = FALSE, !.beat = TRUE, !.calls = @ \ {Lead}]
<1>1. Set(n, r) /\ msgs' = msgs /\ asked' = asked /\ faults' = faults /\ ballots' = ballots
    BY DEF FinishLead
<1>2. s \in Engine /\ Healthy(s)
    BY Parts
<1>3. r \in Engine
    BY <1>2 DEF Engine
<1>4. r.done = s.done /\ r.commit = s.commit /\ r.calls = s.calls \ {Lead}
    BY <1>2 DEF Engine
<1>5. r.role = s.role /\ r.term = s.term /\ r.votes = s.votes
    BY <1>2 DEF Engine
<1>6. s.term \in Nat /\ s.commit \in Nat
    BY <1>2 DEF Engine
<1>. HIDE DEF r
<1>7. Healthy(r) /\ Forward(s, r) /\ Quiet(s, r)
    BY <1>2, <1>3, <1>4, <1>5, <1>6 DEF Healthy, Forward, Quiet
<1>8. Moved(n) /\ Sent(msgs)
    BY <1>1, <1>7 DEF Moved, Sent
<1>. QED BY <1>1, <1>8, MovedKeeps DEF TypeOK

LEMMA SwitchKeeps ==
    ASSUME TypeOK, NEW n \in Node, Stop(n) \/ Start(n)
    PROVE  Kept
<1>. PICK up \in BOOLEAN, timer \in BOOLEAN, beat \in BOOLEAN :
        Set(n, [node[n] EXCEPT !.up = up, !.timer = timer, !.beat = beat])
  <2>1. CASE Stop(n)
    BY <2>1 DEF Stop
  <2>2. CASE Start(n)
    <3>1. node[n] \in Engine
      BY Parts
    <3>2. node[n].beat \in BOOLEAN
      BY <3>1 DEF Engine
    <3>3. [node[n] EXCEPT !.up = TRUE, !.timer = TRUE]
            = [node[n] EXCEPT !.up = TRUE, !.timer = TRUE, !.beat = node[n].beat]
      BY <3>1 DEF Engine
    <3>. QED BY <2>2, <3>2, <3>3 DEF Start
  <2>. QED BY <2>1, <2>2
<1> DEFINE s == node[n]
           r == [s EXCEPT !.up = up, !.timer = timer, !.beat = beat]
<1>1. /\ Set(n, r) /\ msgs' = msgs /\ asked' = asked
      /\ faults' \in Nat /\ ballots' = ballots
    BY DEF Stop, Start, Fault, TypeOK
<1>2. s \in Engine /\ Healthy(s)
    BY Parts
<1>3. r \in Engine
    BY <1>2 DEF Engine
<1>4. r.done = s.done /\ r.commit = s.commit /\ r.calls = s.calls
    BY <1>2 DEF Engine
<1>5. r.role = s.role /\ r.term = s.term /\ r.votes = s.votes
    BY <1>2 DEF Engine
<1>6. s.term \in Nat /\ s.commit \in Nat
    BY <1>2 DEF Engine
<1>. HIDE DEF r
<1>7. Healthy(r) /\ Forward(s, r) /\ Quiet(s, r)
    BY <1>2, <1>3, <1>4, <1>5, <1>6 DEF Healthy, Forward, Quiet
<1>8. Moved(n) /\ Sent(msgs)
    BY <1>1, <1>7 DEF Moved, Sent
<1>. QED BY <1>1, <1>8, MovedKeeps DEF TypeOK

\* An engine stays healthy, and moves nowhere.
LEMMA Stays ==
    ASSUME TypeOK, NEW n \in Node
    PROVE  Healthy(node[n]) /\ Forward(node[n], node[n]) /\ Quiet(node[n], node[n])
<1>1. node[n] \in Engine /\ Healthy(node[n])
    BY Parts
<1>2. node[n].term \in Nat /\ node[n].commit \in Nat
    BY <1>1 DEF Engine
<1>. QED BY <1>1, <1>2 DEF Forward, Quiet

LEMMA HeartbeatKeeps ==
    ASSUME TypeOK, NEW n \in Node, Heartbeat(n)
    PROVE  Kept
<1>1. node' = [node EXCEPT ![n] = node[n]]
    BY DEF Heartbeat, TypeOK
<1>2. Moved(n)
    BY <1>1, Stays DEF Moved, Set
<1>3. Sent(msgs)
    BY AppendsType, Parts DEF Heartbeat, Sent
<1>. QED BY <1>2, <1>3, MovedKeeps DEF Heartbeat, TypeOK

LEMMA LoseKeeps ==
    ASSUME TypeOK, NEW m \in msgs, Lose(m), NEW n \in Node
    PROVE  Kept
<1>1. node' = [node EXCEPT ![n] = node[n]]
    BY DEF Lose, TypeOK
<1>2. Moved(n)
    BY <1>1, Stays DEF Moved, Set
<1>3. Sent(msgs)
    BY DEF Lose, Sent
<1>. QED BY <1>2, <1>3, MovedKeeps DEF Lose, TypeOK

LEMMA ProposeCallType ==
    ASSUME NEW s, Healthy(s), NEW cmd \in Command, NEW leading \in BOOLEAN
    PROVE  ProposeCall(s, cmd, leading) \in Call /\ ProposeCall(s, cmd, leading).kind = "propose"
<1>1. s.log \in Seq(Entry)
    BY DEF Healthy, Engine
<1>2. LastHash(s.log) \in Seq(Command)
    BY <1>1, LogFacts
<1>. QED BY <1>2 DEF ProposeCall, Call

LEMMA ProposeKeeps ==
    ASSUME TypeOK, NEW n \in Node, NEW cmd \in Cmd, Propose(n, cmd)
    PROVE  Kept
<1> DEFINE s == node[n]
           c == ProposeCall(s, cmd, FALSE)
           r == [s EXCEPT !.calls = @ \cup {c}]
<1>1. /\ Set(n, r) /\ msgs' = msgs /\ asked' = asked \cup {cmd}
      /\ faults' = faults /\ ballots' = ballots
    BY DEF Propose
<1>2. s \in Engine /\ Healthy(s)
    BY Parts
<1>3. c \in Call /\ c.kind = "propose"
    BY <1>2, ProposeCallType DEF Command
<1>. HIDE DEF c
<1>4. Healthy(r)
    BY <1>2, <1>3, CallAdded
<1>5. r.role = s.role /\ r.term = s.term /\ r.votes = s.votes /\ r.commit = s.commit
    BY <1>2 DEF Engine
<1>6. s.term \in Nat /\ s.commit \in Nat
    BY <1>2 DEF Engine
<1>. HIDE DEF r
<1>7. Forward(s, r) /\ Quiet(s, r)
    BY <1>5, <1>6 DEF Forward, Quiet
<1>8. Moved(n) /\ Sent(msgs)
    BY <1>1, <1>4, <1>7 DEF Moved, Sent
<1>9. asked' \subseteq Cmd
    BY <1>1 DEF TypeOK
<1>. QED BY <1>1, <1>8, <1>9, MovedKeeps DEF TypeOK

LEMMA StartElectionKeeps ==
    ASSUME TypeOK, NEW n \in Node, StartElection(n)
    PROVE  Kept
<1> DEFINE s == node[n]
           calls == IF Wired THEN s.calls \cup {Elect} ELSE s.calls
           r == [s EXCEPT !.term = s.term + 1, !.role = "candidate", !.voted = n,
                          !.votes = {n}, !.timer = FALSE, !.calls = calls]
<1>1. Set(n, r) /\ asked' = asked /\ faults' = faults
    BY DEF StartElection
<1>2. ballots' = ballots \cup {<<n, s.term + 1, n>>}
    BY DEF StartElection
<1>3. s \in Engine /\ Healthy(s)
    BY Parts
<1>4. s.term \in Nat /\ s.commit \in Nat /\ s.log \in Seq(Entry) /\ s.calls \in SUBSET Call
    BY <1>3 DEF Engine
<1>5. calls \in SUBSET Call /\ \A c \in calls : c \in s.calls \/ c = Elect
    BY <1>4 DEF Call
<1>. HIDE DEF calls
<1>6. r \in Engine
  <2> DEFINE r1 == [s EXCEPT !.term = s.term + 1, !.role = "candidate", !.voted = n]
             r2 == [r1 EXCEPT !.votes = {n}, !.timer = FALSE, !.calls = calls]
  <2>. HIDE DEF s
  <2>1. r1 \in Engine
    <3>1. s.term + 1 \in Nat
      BY <1>4
    <3>. QED BY <1>3, <3>1 DEF Engine
  <2>2. r = r2
    BY <1>3 DEF Engine
  <2>. HIDE DEF r, r1
  <2>3. r2 \in Engine
    BY <1>5, <2>1 DEF Engine
  <2>. QED BY <2>2, <2>3
<1>7. r.done = s.done /\ r.commit = s.commit /\ r.calls = calls
    BY <1>3 DEF Engine
<1>8. r.role = "candidate" /\ r.term = s.term + 1 /\ r.votes = {n}
    BY <1>3 DEF Engine
<1>. HIDE DEF r
<1>9. Healthy(r)
    BY <1>3, <1>5, <1>6, <1>7 DEF Healthy, Elect
<1>10. Forward(s, r)
    BY <1>4, <1>7, <1>8 DEF Forward
<1>11. msgs' \subseteq Message /\ \A m \in msgs' : m \in msgs \/ m.type = "vote?"
  <2>1. LastIndex(s.log) \in Nat /\ LastTerm(s.log) \in Nat
    BY <1>4, LogFacts
  <2>2. ASSUME NEW p \in Peers(n)
        PROVE  [type |-> "vote?", from |-> n, to |-> p, term |-> s.term + 1,
                last |-> LastIndex(s.log), lastTerm |-> LastTerm(s.log)] \in Message
    BY <1>4, <2>1 DEF Message, Peers
  <2>. QED BY <2>2 DEF StartElection, TypeOK
<1>12. TypeOK'
  <2>1. ballots' \subseteq Node \X Nat \X Node
    BY <1>2, <1>4 DEF TypeOK
  <2>2. asked' \subseteq Cmd /\ faults' \in Nat
    BY <1>1 DEF TypeOK
  <2>. QED BY <1>1, <1>9, <1>11, <2>1, <2>2, SetType
<1>13. Mandate => Mandate'
  <2>1. SUFFICES ASSUME Mandate PROVE Mandate'
    OBVIOUS
  <2>2. node' = [node EXCEPT ![n] = r] /\ node \in [Node -> Engine]
    BY <1>1 DEF Set, TypeOK
  <2>3. ASSUME NEW x \in Node PROVE Counted(node[x], x)'
    <3>1. CASE x = n
      <4>1. node'[x] = r
        BY <2>2, <3>1
      <4>. QED BY <1>2, <1>8, <3>1, <4>1 DEF Counted
    <3>2. CASE x # n
      <4>1. node'[x] = node[x]
        BY <2>2, <3>2
      <4>. QED BY <1>2, <2>1, <4>1 DEF Mandate, Counted, Majority
    <3>. QED BY <3>1, <3>2
  <2>4. VotesCast'
    BY <1>2, <1>11, <2>1 DEF Mandate, VotesCast
  <2>. QED BY <2>3, <2>4 DEF Mandate
<1>14. \A x \in Node : Forward(node[x], node'[x])
    BY <1>1, <1>10, SetForward
<1>15. MajorityLeads /\ Majority > 1 => MajorityLeads'
  <2>1. Cardinality(r.votes) = 1
    BY <1>8, FS_Singleton
  <2>2. Majority > 1 => Undecided(r)
    BY <2>1 DEF Undecided
  <2>. QED BY <1>1, <2>2, SetUndecided
<1>. QED BY <1>12, <1>13, <1>14, <1>15 DEF Kept

LEMMA PushProposalKeeps ==
    ASSUME TypeOK, NEW n \in Node, NEW c \in node[n].calls, PushProposal(n, c)
    PROVE  Kept
<1> DEFINE s == node[n]
           e == [index |-> Len(s.log) + 1, term |-> s.term, cmd |-> c.cmd, prev |-> c.prev]
           log == Append(s.log, e)
           put == [s EXCEPT !.log = log, !.calls = @ \ {c}]
           led == [put EXCEPT !.calls = @ \cup {Lead}]
           calls == (s.calls \ {c}) \cup (IF c.leading THEN {Lead} ELSE {})
           r == [s EXCEPT !.log = log, !.calls = calls]
<1>1. /\ Set(n, r) /\ msgs' = msgs \cup Appends(n, r) /\ asked' = asked
      /\ faults' = faults /\ ballots' = ballots
    BY DEF PushProposal
<1>2. s \in Engine /\ Healthy(s)
    BY Parts
<1>3. s.log \in Seq(Entry) /\ s.term \in Nat /\ s.calls \in SUBSET Call
    BY <1>2 DEF Engine
<1>4. c.cmd \in Command /\ c.prev \in Seq(Command) /\ c.leading \in BOOLEAN
    BY <1>3 DEF PushProposal, Call, Elect, Lead
<1>5. e \in Entry
    BY <1>3, <1>4 DEF Entry
<1>. HIDE DEF e
<1>6. log \in Seq(Entry)
    BY <1>3, <1>5
<1>. HIDE DEF log
<1>7. Healthy(put) /\ Forward(s, put) /\ Quiet(s, put)
    BY <1>2, <1>6, LogPut
<1>8. put \in Engine
    BY <1>7 DEF Healthy
<1>9. Lead \in Call /\ Lead.kind # "append"
    BY DEF Call, Lead
<1>10. Healthy(led)
    BY <1>7, <1>9, CallAdded
<1>11. r = IF c.leading THEN led ELSE put
    BY <1>2, <1>4 DEF Engine
<1>. HIDE DEF put
<1>12. led.role = put.role /\ led.term = put.term /\ led.votes = put.votes
    BY <1>8 DEF Engine
<1>13. led.commit = put.commit
    BY <1>8 DEF Engine
<1>. HIDE DEF r, led
<1>14. Healthy(r) /\ Forward(s, r) /\ Quiet(s, r)
    BY <1>7, <1>10, <1>11, <1>12, <1>13 DEF Forward, Quiet
<1>15. Moved(n)
    BY <1>1, <1>14 DEF Moved
<1>16. Sent(msgs)
    BY <1>1, <1>14, AppendsType DEF Sent
<1>. QED BY <1>1, <1>15, <1>16, MovedKeeps DEF TypeOK

LEMMA AppendEntryKeeps ==
    ASSUME TypeOK, NEW n \in Node, NEW c \in node[n].calls, AppendEntry(n, c)
    PROVE  Kept
<1> DEFINE s == node[n]
           log == Put(s.log, c.log[c.at])
           put == [s EXCEPT !.log = log, !.calls = @ \ {c}]
<1>1. GoOn(n, put, c, msgs) /\ asked' = asked /\ faults' = faults /\ ballots' = ballots
    BY DEF AppendEntry
<1>2. s \in Engine /\ Healthy(s)
    BY Parts
<1>3. s.log \in Seq(Entry) /\ s.calls \in SUBSET Call
    BY <1>2 DEF Engine
<1>4. c.kind = "append" /\ c \in Call
    BY <1>3 DEF AppendEntry
<1>5. c \in AppendCalls
    BY <1>4 DEF Call, AppendCalls, Elect, Lead
<1>6. c.log[c.at] \in Entry
  <2>1. c.at \in DOMAIN c.log
    BY <1>2, <1>4 DEF Healthy
  <2>2. c.log \in Seq(Entry)
    BY <1>5 DEF AppendCalls
  <2>. QED BY <2>1, <2>2
<1>7. log \in Seq(Entry)
    BY <1>3, <1>6, PutType
<1>. HIDE DEF log
<1>8. Healthy(put) /\ Forward(s, put) /\ Quiet(s, put)
    BY <1>2, <1>7, LogPut
<1>9. GoOn(n, put, c, msgs)
    BY <1>1
<1>. HIDE DEF put
<1>10. Moved(n) /\ Sent(msgs)
    BY <1>5, <1>8, <1>9, GoOnMoves
<1>. QED BY <1>1, <1>10, MovedKeeps DEF TypeOK

\* What TypeOK says of a message in flight.
LEMMA MessageFacts ==
    ASSUME TypeOK, NEW m \in msgs
    PROVE  /\ m.from \in Node /\ m.to \in Node /\ m.term \in Nat
           /\ m.type = "vote!" => m.granted \in BOOLEAN
           /\ m.type = "append" => /\ m.prev \in Nat /\ m.prevTerm \in Nat
                                   /\ m.log \in Seq(Entry) /\ m.commit \in Nat
           /\ m.type = "appended" => m.ok \in BOOLEAN /\ m.match \in Nat
<1>1. m \in Message
    BY DEF TypeOK
<1>. QED BY <1>1 DEF Message

LEMMA HandleRequestVoteKeeps ==
    ASSUME TypeOK, NEW m \in msgs, NEW n \in Node, HandleRequestVote(n, m)
    PROVE  Kept
<1> DEFINE s == HeardTerm(node[n], m.term)
           granted == /\ m.term >= s.term
                      /\ s.voted \in {NoNode, m.from}
                      /\ UpToDate(s, m.last, m.lastTerm)
           g == [s EXCEPT !.voted = m.from, !.timer = TRUE]
           r == IF granted THEN g ELSE s
           reply == [type |-> "vote!", from |-> n, to |-> m.from,
                     term |-> s.term, granted |-> granted]
<1>1. Set(n, r) /\ asked' = asked /\ faults' = faults
    BY DEF HandleRequestVote
<1>2. /\ msgs' = Left(m) \cup {reply}
      /\ ballots' = IF granted THEN ballots \cup {<<n, s.term, m.from>>} ELSE ballots
    BY DEF HandleRequestVote
<1>3. m.from \in Node /\ m.term \in Nat
    BY MessageFacts
<1>4. Healthy(s) /\ Forward(node[n], s) /\ Quiet(node[n], s)
    BY <1>3, Parts, HeardTermHealthy
<1>. granted \in BOOLEAN
    OBVIOUS
<1>. HIDE DEF s, granted
<1>5. s \in Engine /\ s.term \in Nat
    BY <1>4 DEF Healthy, Engine
<1>6. g \in Engine
    BY <1>3, <1>5 DEF Engine
<1>7. g.done = s.done /\ g.commit = s.commit /\ g.calls = s.calls
    BY <1>5 DEF Engine
<1>8. g.role = s.role /\ g.term = s.term /\ g.votes = s.votes
    BY <1>5 DEF Engine
<1>. HIDE DEF g
<1>9. Healthy(r) /\ Forward(node[n], r) /\ Quiet(node[n], r)
    BY <1>4, <1>6, <1>7, <1>8 DEF Healthy, Forward, Quiet
<1>. HIDE DEF r
<1>10. msgs' \subseteq Message
  <2>1. reply \in Message
    BY <1>3, <1>5 DEF Message
  <2>. QED BY <1>2, <2>1 DEF Left, TypeOK
<1>11. ballots \subseteq ballots' /\ ballots' \subseteq Node \X Nat \X Node
    BY <1>2, <1>3, <1>5 DEF TypeOK
<1>12. TypeOK'
  <2>1. asked' \subseteq Cmd /\ faults' \in Nat
    BY <1>1 DEF TypeOK
  <2>. QED BY <1>1, <1>9, <1>10, <1>11, <2>1, SetType
<1>13. Mandate => Mandate'
  <2>1. SUFFICES ASSUME Mandate PROVE Mandate'
    OBVIOUS
  <2>2. \A x \in Node : Counted(node[x], x)'
    BY <1>1, <1>9, <1>11, <2>1, SetMandate
  <2>3. ASSUME NEW a \in msgs', a.type = "vote!", a.granted
        PROVE  <<a.from, a.term, a.to>> \in ballots'
    <3>1. CASE a \in msgs
      BY <1>11, <2>1, <2>3, <3>1 DEF Mandate, VotesCast
    <3>2. CASE a = reply
      <4>1. granted
        BY <2>3, <3>2
      <4>2. a.from = n /\ a.term = s.term /\ a.to = m.from
        BY <3>2
      <4>. QED BY <1>2, <4>1, <4>2
    <3>. QED BY <1>2, <3>1, <3>2 DEF Left
  <2>. QED BY <2>2, <2>3 DEF Mandate, VotesCast
<1>14. \A x \in Node : Forward(node[x], node'[x])
    BY <1>1, <1>9, SetForward
<1>15. MajorityLeads => MajorityLeads'
    BY <1>1, <1>9, QuietUndecided, SetUndecided
<1>. QED BY <1>12, <1>13, <1>14, <1>15 DEF Kept

\* The winner of an election is healthy, and has what it counted.
LEMMA BecomeLeaderHealthy ==
    ASSUME NEW s, Healthy(s)
    PROVE  LET l == BecomeLeader(s)
           IN  /\ Healthy(l)
               /\ l.term = s.term /\ l.commit = s.commit
               /\ l.votes = s.votes /\ l.role = "leader"
<1> DEFINE c == ProposeCall(s, Noop, TRUE)
           next == [p \in Node |-> Len(s.log)]
           match == [p \in Node |-> 0]
           called == [s EXCEPT !.calls = @ \cup {c}]
           l == [called EXCEPT !.role = "leader", !.next = next, !.match = match]
<1>1. s \in Engine
    BY DEF Healthy
<1>2. s.log \in Seq(Entry)
    BY <1>1 DEF Engine
<1>3. c \in Call /\ c.kind = "propose"
    BY ProposeCallType DEF Command
<1>4. next \in [Node -> Nat] /\ match \in [Node -> Nat]
    BY <1>2
<1>5. l = BecomeLeader(s)
    BY <1>1 DEF BecomeLeader, Engine
<1>. HIDE DEF c, next, match
<1>6. Healthy(called)
    BY <1>3, CallAdded
<1>7. called.term = s.term /\ called.commit = s.commit /\ called.votes = s.votes
    BY <1>1 DEF Engine
<1>. HIDE DEF called
<1>8. called \in Engine
    BY <1>6 DEF Healthy
<1>9. l \in Engine
    BY <1>4, <1>8 DEF Engine
<1>10. l.done = called.done /\ l.commit = called.commit /\ l.calls = called.calls
    BY <1>8 DEF Engine
<1>11. l.term = called.term /\ l.votes = called.votes /\ l.role = "leader"
    BY <1>8 DEF Engine
<1>. HIDE DEF l
<1>12. Healthy(l)
    BY <1>6, <1>9, <1>10 DEF Healthy
<1>. QED BY <1>5, <1>7, <1>10, <1>11, <1>12

LEMMA HandleVoteResponseKeeps ==
    ASSUME TypeOK, NEW m \in msgs, NEW n \in Node, m.type = "vote!", m.to = n,
           HandleVoteResponse(n, m)
    PROVE  Kept
<1> DEFINE s == HeardTerm(node[n], m.term)
           counts == s.role = "candidate" /\ m.term = s.term /\ m.granted
           got == [s EXCEPT !.votes = @ \cup {m.from}]
           wins == counts /\ Cardinality(got.votes) >= Majority
           r == IF wins THEN BecomeLeader(got) ELSE IF counts THEN got ELSE s
<1>1. /\ Set(n, r) /\ msgs' = Left(m)
      /\ asked' = asked /\ faults' = faults /\ ballots' = ballots
    BY DEF HandleVoteResponse
<1>2. m.from \in Node /\ m.term \in Nat /\ m.granted \in BOOLEAN
    BY MessageFacts
<1>3. Healthy(s) /\ Forward(node[n], s) /\ Quiet(node[n], s)
    BY <1>2, Parts, HeardTermHealthy
<1>4. s.role # "follower" => s = node[n]
    BY <1>2, Parts, HeardTermHealthy
<1>. HIDE DEF s
<1>5. s \in Engine
    BY <1>3 DEF Healthy
<1>6. got \in Engine
    BY <1>2, <1>5 DEF Engine
<1>7. got.done = s.done /\ got.commit = s.commit /\ got.calls = s.calls
    BY <1>5 DEF Engine
<1>8. got.role = s.role /\ got.term = s.term /\ got.votes = s.votes \cup {m.from}
    BY <1>5 DEF Engine
<1>. HIDE DEF got
<1>9. Healthy(got)
    BY <1>3, <1>6, <1>7 DEF Healthy
<1>10. /\ Healthy(BecomeLeader(got))
       /\ BecomeLeader(got).term = got.term /\ BecomeLeader(got).commit = got.commit
       /\ BecomeLeader(got).votes = got.votes /\ BecomeLeader(got).role = "leader"
    BY <1>9, BecomeLeaderHealthy
<1>11. Healthy(r) /\ Forward(node[n], r)
    BY <1>3, <1>7, <1>8, <1>9, <1>10 DEF Forward
<1>12. TypeOK'
  <2>1. msgs' \subseteq Message /\ asked' \subseteq Cmd /\ faults' \in Nat
    BY <1>1 DEF TypeOK, Left
  <2>2. ballots' \subseteq Node \X Nat \X Node
    BY <1>1 DEF TypeOK
  <2>. HIDE DEF r
  <2>. QED BY <1>1, <1>11, <2>1, <2>2, SetType
<1>13. Mandate => Mandate'
  <2>1. SUFFICES ASSUME Mandate PROVE Mandate'
    OBVIOUS
  <2>2. VotesCast'
    BY <1>1, <2>1 DEF Mandate, VotesCast, Left
  <2>3. node' = [node EXCEPT ![n] = r] /\ node \in [Node -> Engine]
    BY <1>1 DEF Set, TypeOK
  <2>4. Counted(r, n)
    <3>1. CASE ~counts
      <4>1. r = s
        BY <3>1
      <4>2. Counted(node[n], n)
        BY <2>1 DEF Mandate
      <4>. QED BY <1>3, <4>1, <4>2 DEF Quiet, Counted
    <3>2. CASE counts
      <4>1. s = node[n] /\ Counted(s, n)
        BY <1>4, <2>1, <3>2 DEF Mandate
      <4>2. <<m.from, s.term, n>> \in ballots
        BY <2>1, <3>2 DEF Mandate, VotesCast
      <4>3. s.votes \cup {m.from} \subseteq {v \in Node : <<v, s.term, n>> \in ballots}
        BY <1>2, <3>2, <4>1, <4>2 DEF Counted
      <4>4. r.votes = s.votes \cup {m.from} /\ r.term = s.term
        BY <1>8, <1>10, <3>2
      <4>5. r.role = "leader" => Cardinality(r.votes) >= Majority
        BY <1>8, <1>10, <3>2
      <4>. HIDE DEF r
      <4>. QED BY <4>3, <4>4, <4>5 DEF Counted
    <3>. QED BY <3>1, <3>2
  <2>. HIDE DEF r
  <2>5. ASSUME NEW x \in Node PROVE Counted(node[x], x)'
    <3>1. CASE x = n
      <4>1. node'[x] = r
        BY <2>3, <3>1
      <4>. QED BY <1>1, <2>4, <3>1, <4>1 DEF Counted, Majority
    <3>2. CASE x # n
      <4>1. node'[x] = node[x]
        BY <2>3, <3>2
      <4>. QED BY <1>1, <2>1, <4>1 DEF Mandate, Counted, Majority
    <3>. QED BY <3>1, <3>2
  <2>. QED BY <2>2, <2>5 DEF Mandate
<1>14. \A x \in Node : Forward(node[x], node'[x])
  <2>. HIDE DEF r
  <2>. QED BY <1>1, <1>11, SetForward
<1>15. MajorityLeads => MajorityLeads'
  <2>1. CASE ~counts
    <3>1. r = s
      BY <2>1
    <3>. HIDE DEF r
    <3>. QED BY <1>1, <1>3, <3>1, QuietUndecided, SetUndecided
  <2>2. CASE wins
    <3>1. r.role = "leader"
      BY <1>10, <2>2
    <3>. HIDE DEF r
    <3>. QED BY <1>1, <3>1, SetUndecided DEF Undecided
  <2>3. CASE counts /\ ~wins
    <3>1. got.votes \subseteq Node /\ IsFiniteSet(Node)
      BY <1>6, RaftAssumption DEF Engine
    <3>2. Cardinality(got.votes) \in Nat /\ Majority \in Nat
      BY <3>1, FS_Subset, FS_CardinalityType DEF Majority
    <3>3. Undecided(got)
      BY <2>3, <3>2 DEF Undecided
    <3>4. r = got
      BY <2>3
    <3>. HIDE DEF r
    <3>. QED BY <1>1, <3>3, <3>4, SetUndecided
  <2>. QED BY <2>1, <2>2, <2>3
<1>. QED BY <1>12, <1>13, <1>14, <1>15 DEF Kept

LEMMA TimerHealthy ==
    ASSUME NEW s, Healthy(s)
    PROVE  LET t == [s EXCEPT !.timer = TRUE]
           IN  /\ Healthy(t)
               /\ t.role = s.role /\ t.term = s.term
               /\ t.commit = s.commit /\ t.votes = s.votes
<1> DEFINE t == [s EXCEPT !.timer = TRUE]
<1>1. s \in Engine
    BY DEF Healthy
<1>2. t \in Engine
    BY <1>1 DEF Engine
<1>3. t.done = s.done /\ t.commit = s.commit /\ t.calls = s.calls
    BY <1>1 DEF Engine
<1>4. t.role = s.role /\ t.term = s.term /\ t.votes = s.votes
    BY <1>1 DEF Engine
<1>. QED BY <1>2, <1>3, <1>4 DEF Healthy

LEMMA SplitBrainHealthy ==
    ASSUME NEW s, Healthy(s), NEW m
    PROVE  LET t == SplitBrain(s, m)
           IN  Healthy(t) /\ Forward(s, t) /\ Quiet(s, t)
<1>1. s.term \in Nat /\ s.commit \in Nat
    BY DEF Healthy, Engine
<1>2. CASE s.role = "leader" /\ m.term = s.term
  <2> DEFINE f == BecomeFollower(s, s.term + 1)
  <2>1. s.term + 1 \in Nat
    BY <1>1
  <2>2. Healthy(f) /\ f.role = "follower" /\ f.term = s.term + 1 /\ f.commit = s.commit
    BY <2>1, BecomeFollowerHealthy
  <2>3. SplitBrain(s, m) = f
    BY <1>2 DEF SplitBrain
  <2>. HIDE DEF f
  <2>. QED BY <1>1, <2>2, <2>3 DEF Forward, Quiet
<1>3. CASE ~(s.role = "leader" /\ m.term = s.term)
    BY <1>1, <1>3 DEF SplitBrain, Forward, Quiet
<1>. QED BY <1>2, <1>3

LEMMA HandleAppendEntriesKeeps ==
    ASSUME TypeOK, NEW m \in msgs, NEW n \in Node, m.type = "append",
           HandleAppendEntries(n, m)
    PROVE  Kept
<1> DEFINE heard == HeardTerm(node[n], m.term)
           armed == [heard EXCEPT !.timer = TRUE]
           s == SplitBrain(armed, m)
           f == BecomeFollower(s, m.term)
           matches == /\ Find(f.log, m.prev) \in DOMAIN f.log
                      /\ TermAt(f.log, m.prev) = m.prevTerm
<1>1. asked' = asked /\ faults' = faults /\ ballots' = ballots
    BY DEF HandleAppendEntries
<1>2. IF m.term < s.term
      THEN /\ Set(n, s)
           /\ msgs' = Left(m) \cup {Appended(n, m.from, s, FALSE, 0)}
      ELSE IF m.prev > 0 /\ ~matches
      THEN /\ Set(n, f)
           /\ msgs' = Left(m) \cup {Appended(n, m.from, f, FALSE, LastIndex(f.log))}
      ELSE GoOn(n, f, AppendCall(m), Left(m))
    BY DEF HandleAppendEntries
<1>3. /\ m.from \in Node /\ m.term \in Nat /\ m.prev \in Nat
      /\ m.log \in Seq(Entry) /\ m.commit \in Nat
    BY MessageFacts
<1>4. node[n] \in Engine /\ Healthy(node[n])
    BY Parts
<1>5. Healthy(heard) /\ Forward(node[n], heard) /\ Quiet(node[n], heard)
    BY <1>3, <1>4, HeardTermHealthy
<1>. HIDE DEF heard
<1>6. /\ Healthy(armed) /\ armed.role = heard.role /\ armed.term = heard.term
      /\ armed.commit = heard.commit /\ armed.votes = heard.votes
    BY <1>5, TimerHealthy
<1>. HIDE DEF armed
<1>7. Forward(node[n], armed) /\ Quiet(node[n], armed)
    BY <1>5, <1>6 DEF Forward, Quiet
<1>8. Healthy(s) /\ Forward(armed, s) /\ Quiet(armed, s)
    BY <1>6, SplitBrainHealthy
<1>. HIDE DEF s
<1>9. armed \in Engine /\ s \in Engine
    BY <1>6, <1>8 DEF Healthy
<1>10. Forward(node[n], s) /\ Quiet(node[n], s)
    BY <1>4, <1>7, <1>8, <1>9, ForwardTrans, QuietTrans
<1>11. s.term \in Nat /\ s.commit \in Nat
    BY <1>9 DEF Engine
<1>12. /\ Healthy(f) /\ f.role = "follower" /\ f.term = m.term
       /\ f.commit = s.commit
    BY <1>3, <1>8, BecomeFollowerHealthy
<1>. HIDE DEF f
<1>13. node[n].term \in Nat /\ node[n].commit \in Nat
    BY <1>4 DEF Engine
<1>14. m.term >= s.term => Forward(node[n], f) /\ Quiet(node[n], f)
    BY <1>3, <1>10, <1>11, <1>12, <1>13 DEF Forward, Quiet
<1>15. CASE m.term < s.term
  <2>1. /\ Appended(n, m.from, s, FALSE, 0) \in Message
        /\ Appended(n, m.from, s, FALSE, 0).type = "appended"
    <3>1. FALSE \in BOOLEAN /\ 0 \in Nat
      OBVIOUS
    <3>. QED BY <1>3, <1>8, <3>1, AppendedType
  <2>2. Moved(n)
    BY <1>2, <1>8, <1>10, <1>15 DEF Moved
  <2>3. Sent(msgs)
    BY <1>2, <1>15, <2>1 DEF Sent, Left
  <2>. QED BY <1>1, <2>2, <2>3, MovedKeeps DEF TypeOK
<1>16. CASE ~(m.term < s.term) /\ m.prev > 0 /\ ~matches
  <2>1. LastIndex(f.log) \in Nat
    BY <1>12, LogFacts DEF Healthy, Engine
  <2>2. /\ Appended(n, m.from, f, FALSE, LastIndex(f.log)) \in Message
        /\ Appended(n, m.from, f, FALSE, LastIndex(f.log)).type = "appended"
    BY <1>3, <1>12, <2>1, AppendedType
  <2>3. Moved(n)
    <3>1. Set(n, f)
      BY <1>2, <1>16
    <3>2. Forward(node[n], f) /\ Quiet(node[n], f)
      BY <1>3, <1>11, <1>14, <1>16
    <3>. QED BY <1>12, <3>1, <3>2 DEF Moved
  <2>4. Sent(msgs)
    BY <1>2, <1>16, <2>2 DEF Sent, Left
  <2>. QED BY <1>1, <2>3, <2>4, MovedKeeps DEF TypeOK
<1>17. CASE ~(m.term < s.term) /\ ~(m.prev > 0 /\ ~matches)
  <2>1. GoOn(n, f, AppendCall(m), Left(m))
    BY <1>2, <1>17
  <2>2. AppendCall(m) \in AppendCalls
    BY <1>3 DEF AppendCall, AppendCalls
  <2>3. Forward(node[n], f) /\ Quiet(node[n], f)
    BY <1>3, <1>11, <1>14, <1>17
  <2>4. Moved(n) /\ Sent(Left(m))
    BY <1>12, <2>1, <2>2, <2>3, GoOnMoves
  <2>5. Sent(msgs)
    BY <2>4 DEF Sent, Left
  <2>. QED BY <1>1, <2>4, <2>5, MovedKeeps DEF TypeOK
<1>. QED BY <1>15, <1>16, <1>17

LEMMA CountersHealthy ==
    ASSUME NEW s, Healthy(s), NEW match \in [Node -> Nat], NEW next \in [Node -> Nat]
    PROVE  LET r == [s EXCEPT !.match = match, !.next = next]
           IN  Healthy(r) /\ Forward(s, r) /\ Quiet(s, r)
<1> DEFINE r == [s EXCEPT !.match = match, !.next = next]
<1>1. s \in Engine
    BY DEF Healthy
<1>2. r \in Engine
    BY <1>1 DEF Engine
<1>3. r.done = s.done /\ r.commit = s.commit /\ r.calls = s.calls
    BY <1>1 DEF Engine
<1>4. r.role = s.role /\ r.term = s.term /\ r.votes = s.votes
    BY <1>1 DEF Engine
<1>5. s.term \in Nat /\ s.commit \in Nat
    BY <1>1 DEF Engine
<1>6. Healthy(r) /\ Forward(s, r) /\ Quiet(s, r)
  <2>. HIDE DEF r
  <2>. QED BY <1>2, <1>3, <1>4, <1>5 DEF Healthy, Forward, Quiet
<1>. QED BY <1>6

LEMMA HandleAppendResponseKeeps ==
    ASSUME TypeOK, NEW m \in msgs, NEW n \in Node, m.type = "appended",
           HandleAppendResponse(n, m)
    PROVE  Kept
<1> DEFINE s == HeardTerm(node[n], m.term)
           back == [s EXCEPT !.next[m.from] = IF @ = 0 THEN 0 ELSE @ - 1]
           taken == [s EXCEPT !.match[m.from] = m.match, !.next[m.from] = m.match]
           some == Committable(taken)
           lower == [s.next EXCEPT ![m.from] = IF @ = 0 THEN 0 ELSE @ - 1]
           match == [s.match EXCEPT ![m.from] = m.match]
           next == [s.next EXCEPT ![m.from] = m.match]
<1>1. asked' = asked /\ faults' = faults /\ ballots' = ballots /\ msgs' = Left(m)
    BY DEF HandleAppendResponse
<1>2. IF s.role # "leader" THEN Set(n, s)
      ELSE IF ~m.ok THEN Set(n, back)
      ELSE IF some = {} THEN Set(n, taken)
      ELSE \E k \in some : (\A i \in some : i <= k) /\ Set(n, CommitTo(taken, k))
    BY DEF HandleAppendResponse
<1>3. m.from \in Node /\ m.term \in Nat /\ m.match \in Nat
    BY MessageFacts
<1>4. node[n] \in Engine /\ Healthy(node[n])
    BY Parts
<1>5. Healthy(s) /\ Forward(node[n], s) /\ Quiet(node[n], s)
    BY <1>3, <1>4, HeardTermHealthy
<1>. HIDE DEF s
<1>6. s \in Engine /\ s.match \in [Node -> Nat] /\ s.next \in [Node -> Nat]
    BY <1>5 DEF Healthy, Engine
<1>7. lower \in [Node -> Nat] /\ match \in [Node -> Nat] /\ next \in [Node -> Nat]
    BY <1>3, <1>6
<1>8. back = [s EXCEPT !.match = s.match, !.next = lower]
    BY <1>6 DEF Engine
<1>9. taken = [s EXCEPT !.match = match, !.next = next]
    BY <1>6 DEF Engine
<1>. HIDE DEF lower, match, next, back, taken
<1>10. Healthy(back) /\ Forward(s, back) /\ Quiet(s, back)
    BY <1>5, <1>6, <1>7, <1>8, CountersHealthy
<1>11. Healthy(taken) /\ Forward(s, taken) /\ Quiet(s, taken)
    BY <1>5, <1>7, <1>9, CountersHealthy
<1>12. \A k \in some : k \in Nat
  <2>1. taken.commit \in Nat
    BY <1>11 DEF Healthy, Engine
  <2>. QED BY <2>1 DEF Committable
<1>13. \A k \in some : /\ Healthy(CommitTo(taken, k)) /\ Forward(taken, CommitTo(taken, k))
                       /\ Quiet(taken, CommitTo(taken, k))
    BY <1>11, <1>12, CommitToHealthy
<1>14. back \in Engine /\ taken \in Engine /\ \A k \in some : CommitTo(taken, k) \in Engine
    BY <1>10, <1>11, <1>13 DEF Healthy
<1>15. Forward(node[n], back) /\ Quiet(node[n], back)
    BY <1>4, <1>5, <1>6, <1>10, <1>14, ForwardTrans, QuietTrans
<1>16. Forward(node[n], taken) /\ Quiet(node[n], taken)
    BY <1>4, <1>5, <1>6, <1>11, <1>14, ForwardTrans, QuietTrans
<1>17. \A k \in some : Forward(node[n], CommitTo(taken, k)) /\ Quiet(node[n], CommitTo(taken, k))
    BY <1>4, <1>13, <1>14, <1>16, ForwardTrans, QuietTrans
<1>. HIDE DEF some
<1>18. Moved(n)
  <2>1. CASE s.role # "leader"
    BY <1>2, <1>5, <2>1 DEF Moved
  <2>2. CASE s.role = "leader" /\ ~m.ok
    BY <1>2, <1>10, <1>15, <2>2 DEF Moved
  <2>3. CASE s.role = "leader" /\ m.ok /\ some = {}
    BY <1>2, <1>11, <1>16, <2>3 DEF Moved
  <2>4. CASE s.role = "leader" /\ m.ok /\ some # {}
    <3>1. PICK k \in some : Set(n, CommitTo(taken, k))
      BY <1>2, <2>4
    <3>. QED BY <1>13, <1>17, <3>1 DEF Moved
  <2>. QED BY <2>1, <2>2, <2>3, <2>4
<1>19. Sent(msgs)
    BY <1>1 DEF Sent, Left
<1>. QED BY <1>1, <1>18, <1>19, MovedKeeps DEF TypeOK

LEMMA DeliverKeeps ==
    ASSUME TypeOK, NEW m \in msgs, Deliver(m)
    PROVE  Kept
<1> DEFINE n == m.to
<1>1. n \in Node
    BY MessageFacts
<1>2. CASE m.type = "vote?" /\ HandleRequestVote(n, m)
    BY <1>1, <1>2, HandleRequestVoteKeeps
<1>3. CASE m.type = "vote!" /\ HandleVoteResponse(n, m)
    BY <1>1, <1>3, HandleVoteResponseKeeps
<1>4. CASE m.type = "append" /\ HandleAppendEntries(n, m)
    BY <1>1, <1>4, HandleAppendEntriesKeeps
<1>5. CASE m.type = "appended" /\ HandleAppendResponse(n, m)
    BY <1>1, <1>5, HandleAppendResponseKeeps
<1>. QED BY <1>2, <1>3, <1>4, <1>5 DEF Deliver

LEMMA FreshHealthy == Healthy(Fresh) /\ Fresh.role = "follower"
<1>1. <<>> \in Seq(Entry) /\ <<>> \in Seq(SUBSET Command) /\ Len(<<>>) = 0
    OBVIOUS
<1>2. [p \in Node |-> 0] \in [Node -> Nat]
    OBVIOUS
<1>3. Fresh \in Engine
    BY <1>1, <1>2 DEF Fresh, Engine
<1>4. Fresh.done = <<>> /\ Fresh.commit = 0 /\ Fresh.calls = {} /\ Fresh.role = "follower"
    BY DEF Fresh
<1>. QED BY <1>1, <1>3, <1>4 DEF Healthy

\* A crash forgets, but claims nothing.
\* A process that has died and started from nothing.
Reborn(n) == n \in Mortal /\ node'[n] = Fresh

LEMMA CrashKeeps ==
    ASSUME TypeOK, NEW n \in Node, Crash(n)
    PROVE  /\ TypeOK' /\ (Mandate => Mandate') /\ (MajorityLeads => MajorityLeads')
           /\ \A x \in Node : Forward(node[x], node'[x]) \/ Reborn(x)
<1>1. /\ Set(n, Fresh) /\ msgs' = msgs /\ asked' = asked
      /\ faults' = faults + 1 /\ ballots' = ballots
    BY DEF Crash, Fault
<1>2. Healthy(Fresh) /\ Quiet(node[n], Fresh)
    BY FreshHealthy DEF Quiet
<1>3. TypeOK'
    BY <1>1, <1>2, SetType DEF TypeOK
<1>4. Mandate => Mandate'
  <2>1. SUFFICES ASSUME Mandate PROVE Mandate'
    OBVIOUS
  <2>2. \A x \in Node : Counted(node[x], x)'
    BY <1>1, <1>2, <2>1, SetMandate
  <2>3. VotesCast'
    BY <1>1, <2>1 DEF Mandate, VotesCast
  <2>. QED BY <2>2, <2>3 DEF Mandate
<1>5. \A x \in Node : Forward(node[x], node'[x]) \/ Reborn(x)
  <2>1. node \in [Node -> Engine] /\ node' = [node EXCEPT ![n] = Fresh] /\ n \in Mortal
    BY <1>1 DEF TypeOK, Set, Crash
  <2>2. node'[n] = Fresh /\ \A x \in Node : x # n => node'[x] = node[x]
    BY <2>1
  <2>3. \A x \in Node : Forward(node[x], node[x])
    BY Stays
  <2>. QED BY <2>1, <2>2, <2>3 DEF Reborn
<1>6. MajorityLeads => MajorityLeads'
    BY <1>1, <1>2, QuietUndecided, SetUndecided
<1>. QED BY <1>3, <1>4, <1>5, <1>6

-----------------------------------------------------------------------------
(* The theorems.                                                           *)

LEMMA InitOK == Init => TypeOK /\ Mandate
<1>1. SUFFICES ASSUME Init PROVE TypeOK /\ Mandate
    OBVIOUS
<1>2. \A n \in Node : node[n] = Fresh
    BY <1>1 DEF Init
<1>3. node \in [Node -> Engine]
    BY <1>1, FreshHealthy DEF Init, Healthy
<1>4. TypeOK
    BY <1>1, <1>2, <1>3, FreshHealthy DEF TypeOK, Init, Healthy
<1>5. Mandate
    BY <1>1, <1>2, FreshHealthy DEF Mandate, Counted, VotesCast, Init
<1>. QED BY <1>4, <1>5

\* Every step keeps the invariant; only a crash may take an engine back.
LEMMA NextKeeps ==
    ASSUME TypeOK, Next
    PROVE  /\ TypeOK'
           /\ Mandate => Mandate'
           /\ MajorityLeads /\ Majority > 1 => MajorityLeads'
           /\ \A n \in Node : Forward(node[n], node'[n]) \/ Reborn(n)
<1>1. ASSUME NEW n \in Node,
             \/ StartElection(n) \/ FinishElection(n) \/ FinishLead(n) \/ Heartbeat(n)
             \/ Stop(n) \/ Start(n)
      PROVE  Kept
    BY <1>1, StartElectionKeeps, FinishElectionKeeps, FinishLeadKeeps, HeartbeatKeeps,
       SwitchKeeps
<1>2. ASSUME NEW n \in Node, NEW cmd \in Cmd, Propose(n, cmd)
      PROVE  Kept
    BY <1>2, ProposeKeeps
<1>3. ASSUME NEW n \in Node, NEW c \in node[n].calls,
             PushProposal(n, c) \/ AppendEntry(n, c)
      PROVE  Kept
    BY <1>3, PushProposalKeeps, AppendEntryKeeps
<1>4. ASSUME NEW m \in msgs, Deliver(m) \/ Lose(m)
      PROVE  Kept
  <2>1. m.to \in Node
    BY MessageFacts
  <2>. QED BY <1>4, <2>1, DeliverKeeps, LoseKeeps
<1>5. ASSUME NEW n \in Node, Crash(n)
      PROVE  /\ TypeOK' /\ (Mandate => Mandate') /\ (MajorityLeads => MajorityLeads')
             /\ \A x \in Node : Forward(node[x], node'[x]) \/ Reborn(x)
    BY <1>5, CrashKeeps
<1>6. CASE Kept
    BY <1>6 DEF Kept
<1>7. CASE \E n \in Node : Crash(n)
    BY <1>5, <1>7
<1>8. Kept \/ \E n \in Node : Crash(n)
    BY <1>1, <1>2, <1>3, <1>4 DEF Next
<1>. QED BY <1>6, <1>7, <1>8

LEMMA StutterKeeps ==
    ASSUME TypeOK, UNCHANGED vars
    PROVE  /\ TypeOK'
           /\ Mandate => Mandate'
           /\ MajorityLeads => MajorityLeads'
           /\ \A n \in Node : Forward(node[n], node'[n])
<1>1. node' = node /\ msgs' = msgs /\ asked' = asked /\ faults' = faults /\ ballots' = ballots
    BY DEF vars
<1>2. TypeOK'
    BY <1>1 DEF TypeOK
<1>3. Mandate => Mandate'
    BY <1>1 DEF Mandate, Counted, VotesCast, Majority
<1>4. \A n \in Node : Forward(node[n], node'[n])
    BY <1>1, Stays
<1>5. MajorityLeads => MajorityLeads'
    BY <1>1 DEF MajorityLeads, Majority
<1>. QED BY <1>2, <1>3, <1>4, <1>5

\* The engines, the messages and the suspended calls keep to their types, and
\* what is applied is what is committed, whatever is lost, repeated or crashes.
THEOREM TypeCorrect == Spec => []TypeOK
<1>1. Init => TypeOK
    BY InitOK
<1>2. TypeOK /\ [Next]_vars => TypeOK'
    BY NextKeeps, StutterKeeps
<1>. QED BY <1>1, <1>2, PTL DEF Spec

\* The votes a leader has counted are votes that were cast, and are enough.
LEMMA MandateSuffices == Mandate => LeadersHaveMandate
<1>1. SUFFICES ASSUME Mandate, NEW n \in Node, Leads(n)
               PROVE  Cardinality(Voters(n)) >= Majority
    BY DEF LeadersHaveMandate
<1>2. /\ node[n].votes \subseteq Voters(n)
      /\ Cardinality(node[n].votes) >= Majority
    BY <1>1 DEF Mandate, Counted, Leads, Voters
<1>3. IsFiniteSet(Node)
    BY RaftAssumption
<1>4. IsFiniteSet(Voters(n))
    BY <1>3, FS_Subset DEF Voters
<1>5. /\ IsFiniteSet(node[n].votes)
      /\ Cardinality(node[n].votes) <= Cardinality(Voters(n))
    BY <1>2, <1>4, FS_Subset
<1>6. Cardinality(node[n].votes) \in Nat /\ Cardinality(Voters(n)) \in Nat
    BY <1>4, <1>5, FS_CardinalityType
<1>7. Majority \in Nat
  <2>1. Cardinality(Node) \in Nat
    BY <1>3, FS_CardinalityType
  <2>. QED BY <2>1 DEF Majority
<1>. QED BY <1>2, <1>5, <1>6, <1>7

\* Whoever leads a term was voted for in it by a majority of distinct nodes, in
\* a cluster of any size, with loss, duplication, stops and crashes.
THEOREM LeadersAreElected == Spec => []LeadersHaveMandate
<1>1. Init => TypeOK /\ Mandate
    BY InitOK
<1>2. TypeOK /\ Mandate /\ [Next]_vars => TypeOK' /\ Mandate'
    BY NextKeeps, StutterKeeps
<1>. QED BY <1>1, <1>2, MandateSuffices, PTL DEF Spec

\* In a cluster of two or more nodes no candidate sits on a majority of votes: the
\* one that completes it makes a leader of it at once.  (A node without peers votes
\* for itself and waits for ever, since only an answer is counted.)
THEOREM MajorityIsEnough ==
    ASSUME Cardinality(Node) > 1
    PROVE  Spec => []MajorityLeads
<1>1. Majority > 1
  <2>1. Cardinality(Node) \in Nat
    BY RaftAssumption, FS_CardinalityType
  <2>. QED BY <2>1 DEF Majority
<1>2. Init => MajorityLeads
    BY FreshHealthy DEF Init, MajorityLeads
<1>3. TypeOK /\ MajorityLeads /\ [Next]_vars => MajorityLeads'
    BY <1>1, NextKeeps, StutterKeeps
<1>. QED BY <1>2, <1>3, TypeCorrect, PTL DEF Spec

\* No engine goes back in its term or in what it has committed, split brain, stale
\* messages and all; only a process that dies makes one forget.
THEOREM NothingForgotten == Spec => NeverBack
<1> DEFINE Kind ==
        \A n \in Node :
          \/ node'[n].term >= node[n].term /\ node'[n].commit >= node[n].commit
          \/ n \in Mortal /\ node'[n] = Fresh
<1>1. TypeOK /\ [Next]_vars => Kind
    BY NextKeeps, StutterKeeps DEF Forward, Reborn
<1>2. TypeOK /\ [Next]_vars => [Kind]_vars
    BY <1>1
<1>. QED BY <1>2, TypeCorrect, PTL DEF Spec, NeverBack

-----------------------------------------------------------------------------
(* What the lookups of a log return when every entry stands at its index.  *)

Indexed(log) == \A i \in DOMAIN log : log[i].index = i

\* a is what b begins with.
Begins(a, b) == Len(a) <= Len(b) /\ \A i \in 1..Len(a) : a[i] = b[i]

\* The entry at position i continues the hash chain.
Linked(log, i) == log[i].prev = IF i = 1 THEN <<>> ELSE EntryHash(log[i - 1])

LEMMA BeginsTrans ==
    ASSUME NEW R, NEW a \in Seq(R), NEW b \in Seq(R), NEW c \in Seq(R),
           Begins(a, b), Begins(b, c)
    PROVE  Begins(a, c)
<1>1. Len(a) \in Nat /\ Len(b) \in Nat /\ Len(c) \in Nat
    OBVIOUS
<1>. QED BY <1>1 DEF Begins

LEMMA BeginsIndexed ==
    ASSUME NEW R, NEW a \in Seq(R), NEW b \in Seq(R), Begins(a, b), Indexed(b)
    PROVE  Indexed(a)
  BY DEF Begins, Indexed

LEMMA LastIndexed ==
    ASSUME NEW log \in Seq(Entry), Indexed(log)
    PROVE  LastIndex(log) = Len(log)
<1>1. log # <<>> => Len(log) \in DOMAIN log
    OBVIOUS
<1>. QED BY <1>1 DEF LastIndex, Indexed

LEMMA BeforeIndexed ==
    ASSUME NEW log \in Seq(Entry), Indexed(log), NEW i \in Nat
    PROVE  Before(log, i) = IF i \in DOMAIN log THEN i - 1 ELSE Len(log)
<1> DEFINE B == {k \in DOMAIN log : \A j \in 1..k : log[j].index # i}
<1>1. Len(log) \in Nat /\ DOMAIN log = 1..Len(log)
    OBVIOUS
<1>2. CASE i \in DOMAIN log
  <2>1. B = 1..(i - 1)
    BY <1>1, <1>2 DEF Indexed
  <2>2. Cardinality(1..(i - 1)) = i - 1
    BY <1>1, <1>2, FS_Interval
  <2>. QED BY <1>2, <2>1, <2>2 DEF Before
<1>3. CASE i \notin DOMAIN log
  <2>1. B = 1..Len(log)
    BY <1>1, <1>3 DEF Indexed
  <2>2. Cardinality(1..Len(log)) = Len(log)
    BY <1>1, FS_Interval
  <2>. QED BY <1>3, <2>1, <2>2 DEF Before
<1>. QED BY <1>2, <1>3

LEMMA FoundIndexed ==
    ASSUME NEW log \in Seq(Entry), Indexed(log), NEW i \in Nat
    PROVE  /\ Find(log, i) \in DOMAIN log => i \in DOMAIN log
           /\ i \in DOMAIN log => Find(log, i) = i
           /\ ApplyAt(log, i) = IF i \in DOMAIN log THEN {log[i].cmd} ELSE {}
           /\ i \in DOMAIN log => TermAt(log, i) = log[i].term
<1>1. Len(log) \in Nat /\ DOMAIN log = 1..Len(log)
    OBVIOUS
<1>2. i \in DOMAIN log => Find(log, i) = i
    BY DEF Find, Indexed
<1>3. i \notin DOMAIN log => Find(log, i) = Len(log) + 1
    BY BeforeIndexed DEF Find
<1>4. Find(log, i) \in DOMAIN log => i \in DOMAIN log
    BY <1>1, <1>3
<1>5. ApplyAt(log, i) = IF i \in DOMAIN log THEN {log[i].cmd} ELSE {}
  <2>1. CASE i \in DOMAIN log
    <3>1. {Find(log, i)} \cap DOMAIN log = {i}
      BY <1>2, <2>1
    <3>. QED BY <2>1, <3>1 DEF ApplyAt
  <2>2. CASE i \notin DOMAIN log
    <3>1. {Find(log, i)} \cap DOMAIN log = {}
      BY <1>4, <2>2
    <3>. QED BY <2>2, <3>1 DEF ApplyAt
  <2>. QED BY <2>1, <2>2
<1>. QED BY <1>2, <1>4, <1>5 DEF TermAt

LEMMA FindLastIndexed ==
    ASSUME NEW log \in Seq(Entry), Indexed(log), NEW i \in Nat
    PROVE  FindLast(log, i) = IF i \in DOMAIN log THEN i ELSE 0
<1> DEFINE B == {k \in DOMAIN log : \A j \in k..Len(log) : log[j].index # i}
<1>0. FindLast(log, i) = Len(log) - Cardinality(B)
    BY DEF FindLast
<1>1. Len(log) \in Nat /\ DOMAIN log = 1..Len(log)
    OBVIOUS
<1>2. CASE i \in DOMAIN log
  <2>1. B = (i + 1)..Len(log)
    BY <1>1, <1>2 DEF Indexed
  <2>2. Cardinality((i + 1)..Len(log)) = Len(log) - i
    BY <1>1, <1>2, FS_Interval
  <2>. HIDE DEF B
  <2>. QED BY <1>0, <1>1, <1>2, <2>1, <2>2
<1>3. CASE i \notin DOMAIN log
  <2>1. B = 1..Len(log)
    BY <1>1, <1>3 DEF Indexed
  <2>2. Cardinality(1..Len(log)) = Len(log)
    BY <1>1, FS_Interval
  <2>. HIDE DEF B
  <2>. QED BY <1>0, <1>1, <1>3, <2>1, <2>2
<1>. QED BY <1>2, <1>3

\* The loop of an append call comes to the entry after prev, and then to one
\* entry after the other.
LEMMA NextIndexed ==
    ASSUME NEW c \in AppendCalls, Indexed(c.log), c.at = 0 \/ c.prev < c.at
    PROVE  /\ NextAt(c) \in Nat \ {0}
           /\ NextAt(c) <= Len(c.log) => c.prev < NextAt(c)
           /\ c.at = 0 => NextAt(c) <= c.prev + 1
           /\ c.at # 0 => NextAt(c) = c.at + 1
<1> DEFINE P == {k \in c.at + 1..Len(c.log) :
                    \A j \in c.at + 1..k : c.log[j].index <= c.prev}
<1>0. NextAt(c) = c.at + Cardinality(P) + 1
    BY DEF NextAt
<1>1. c.at \in Nat /\ c.prev \in Nat /\ c.log \in Seq(Entry)
    BY DEF AppendCalls
<1>2. Len(c.log) \in Nat /\ DOMAIN c.log = 1..Len(c.log)
    BY <1>1
<1>3. CASE c.at # 0
  <2>1. P = {}
    BY <1>1, <1>2, <1>3 DEF Indexed
  <2>2. Cardinality(P) = 0
    BY <2>1, FS_EmptySet
  <2>. HIDE DEF P
  <2>. QED BY <1>0, <1>1, <1>3, <2>2
<1>4. CASE c.at = 0
  <2> DEFINE low == IF c.prev <= Len(c.log) THEN c.prev ELSE Len(c.log)
  <2>1. P = 1..low
    BY <1>1, <1>2, <1>4 DEF Indexed
  <2>2. low \in Nat
    BY <1>1, <1>2
  <2>3. low <= c.prev /\ (low = c.prev \/ low = Len(c.log))
    BY <1>1, <1>2
  <2>. HIDE DEF low, P
  <2>4. Cardinality(1..low) = low
    BY <2>2, FS_Interval
  <2>5. NextAt(c) = low + 1
    BY <1>0, <1>4, <2>1, <2>2, <2>4
  <2>. QED BY <1>1, <1>2, <1>4, <2>2, <2>3, <2>5
<1>. QED BY <1>3, <1>4

\* The loop's body on two logs that begin the same one: an entry that is there
\* stays, the entry after the last is appended.
LEMMA PutIndexed ==
    ASSUME NEW L \in Seq(Entry), NEW log \in Seq(Entry), NEW sent \in Seq(Entry),
           Indexed(L), Begins(log, L), Begins(sent, L),
           NEW i \in DOMAIN sent, i <= Len(log) + 1
    PROVE  Put(log, sent[i]) = IF i <= Len(log) THEN log ELSE Append(log, sent[i])
<1>1. /\ Len(log) \in Nat /\ Len(sent) \in Nat /\ Len(L) \in Nat
      /\ i \in Nat \ {0} /\ i <= Len(sent)
    OBVIOUS
<1>2. sent[i] = L[i] /\ sent[i].index = i
    BY <1>1 DEF Begins, Indexed
<1>3. Indexed(log)
    BY BeginsIndexed
<1>4. Before(log, i) = IF i \in DOMAIN log THEN i - 1 ELSE Len(log)
    BY <1>1, <1>3, BeforeIndexed
<1>5. CASE i <= Len(log)
  <2>1. i \in DOMAIN log /\ Before(log, i) = i - 1
    BY <1>1, <1>4, <1>5
  <2>2. log[i] = L[i]
    BY <1>1, <1>5 DEF Begins
  <2>. QED BY <1>1, <1>2, <1>5, <2>1, <2>2 DEF Put
<1>6. CASE i > Len(log)
  <2>1. i \notin DOMAIN log /\ Before(log, i) = Len(log)
    BY <1>1, <1>4, <1>6
  <2>2. SubSeq(log, 1, Len(log)) = log
    BY <1>1, SubSeqProperties
  <2>3. Before(log, sent[i].index) = Len(log) /\ ~(Len(log) < Len(log))
    BY <1>1, <1>2, <2>1
  <2>4. Put(log, sent[i]) = Append(SubSeq(log, 1, Len(log)), sent[i])
    BY <2>3 DEF Put
  <2>. QED BY <1>1, <1>6, <2>2, <2>4
<1>. QED BY <1>1, <1>5, <1>6

\* ... and the result still begins that log, and is still a chain.
LEMMA PutBegins ==
    ASSUME NEW L \in Seq(Entry), NEW log \in Seq(Entry), NEW sent \in Seq(Entry),
           Indexed(L), Begins(log, L), Begins(sent, L),
           NEW i \in DOMAIN sent, i <= Len(log) + 1,
           HashChain(log), Linked(sent, i)
    PROVE  /\ Put(log, sent[i]) \in Seq(Entry)
           /\ Begins(Put(log, sent[i]), L)
           /\ HashChain(Put(log, sent[i]))
           /\ Len(log) <= Len(Put(log, sent[i]))
           /\ i <= Len(Put(log, sent[i]))
<1>1. Len(log) \in Nat /\ Len(sent) \in Nat /\ Len(L) \in Nat /\ i \in Nat \ {0}
    OBVIOUS
<1>2. CASE i <= Len(log)
    BY <1>1, <1>2, PutIndexed
<1>3. CASE i > Len(log)
  <2> DEFINE e == sent[i]
             r == Append(log, e)
  <2>1. Put(log, e) = r
    BY <1>1, <1>3, PutIndexed
  <2>2. e \in Entry /\ e = L[i] /\ i = Len(log) + 1 /\ i <= Len(L)
    BY <1>1, <1>3 DEF Begins
  <2>3. r \in Seq(Entry) /\ Len(r) = i
    BY <2>2
  <2>4. \A j \in 1..Len(log) : r[j] = log[j]
    BY <2>2
  <2>5. r[i] = e
    BY <2>2
  <2>6. Begins(r, L)
    BY <1>1, <2>2, <2>3, <2>4, <2>5 DEF Begins
  <2>7. HashChain(r)
    <3>1. SUFFICES ASSUME NEW j \in 1..i
                   PROVE  r[j].prev = IF j = 1 THEN <<>> ELSE EntryHash(r[j - 1])
      BY <2>3 DEF HashChain
    <3>2. CASE j <= Len(log)
      BY <1>1, <2>4, <3>2 DEF HashChain
    <3>3. CASE j = i
      <4>1. i # 1 => sent[i - 1] = log[i - 1]
        BY <1>1, <2>2 DEF Begins
      <4>2. i # 1 => r[i - 1] = log[i - 1]
        BY <1>1, <2>2, <2>4
      <4>. QED BY <2>5, <3>3, <4>1, <4>2 DEF Linked
    <3>. QED BY <1>1, <2>2, <3>2, <3>3
  <2>. QED BY <1>1, <2>1, <2>2, <2>3, <2>6, <2>7
<1>. QED BY <1>1, <1>2, <1>3

-----------------------------------------------------------------------------
(* The inductive invariant behind the properties of the log, where only    *)
(* one node l ever starts an election: every log, in an engine, in flight  *)
(* or in a suspended call, is what the log of l begins with, and a call    *)
(* that has checked an entry will append it where it belongs.              *)

\* A suspended call c of node n, whose engine is s; L is the log of l.
CallFits(l, n, c, s, L) ==
    /\ c.kind = "propose" => n = l
    /\ c.kind = "append" =>
          /\ n # l
          /\ Begins(c.log, L)
          /\ c.prev < c.at
          /\ c.at <= Len(s.log) + 1
          /\ Linked(c.log, c.at)

\* The engine s of node n; T is the term of l.
EngineFits(l, n, s, L, T) ==
    /\ s.term <= T
    /\ Begins(s.log, L)
    /\ n # l => s.role = "follower" /\ HashChain(s.log)
    /\ \A i \in DOMAIN s.done : i \in DOMAIN L /\ s.done[i] = {L[i].cmd}
    /\ \A c \in s.calls : CallFits(l, n, c, s, L)

MessageFits(l, m, L, T) ==
    /\ m.term <= T
    /\ m.type = "append" => m.to # l /\ Begins(m.log, L)

\* l has not campaigned yet, so it has nothing to send.
Untried(s) == s.log = <<>> /\ \A c \in s.calls : c.kind # "propose"

Led(l) ==
    /\ Indexed(node[l].log)
    /\ node[l].role = "follower" => Untried(node[l])
    /\ \A n \in Node : EngineFits(l, n, node[n], node[l].log, node[l].term)
    /\ \A m \in msgs : MessageFits(l, m, node[l].log, node[l].term)

LEMMA EngineFitsOn ==
    ASSUME NEW l, NEW n, NEW s \in Engine, NEW L \in Seq(Entry), NEW L2 \in Seq(Entry),
           NEW T \in Nat, NEW T2 \in Nat, EngineFits(l, n, s, L, T),
           Begins(L, L2), T <= T2
    PROVE  EngineFits(l, n, s, L2, T2)
<1>1. s.term \in Nat /\ s.log \in Seq(Entry) /\ s.calls \in SUBSET Call
    BY DEF Engine
<1>2. s.term <= T2
    BY <1>1 DEF EngineFits
<1>3. Begins(s.log, L2)
    BY <1>1, BeginsTrans DEF EngineFits
<1>4. \A i \in DOMAIN L : i \in DOMAIN L2 /\ L2[i] = L[i]
    BY DEF Begins
<1>5. \A i \in DOMAIN s.done : i \in DOMAIN L2 /\ s.done[i] = {L2[i].cmd}
    BY <1>4 DEF EngineFits
<1>6. ASSUME NEW c \in s.calls PROVE CallFits(l, n, c, s, L2)
  <2>1. CallFits(l, n, c, s, L)
    BY DEF EngineFits
  <2>2. c.kind = "append" => c.log \in Seq(Entry)
    BY <1>1 DEF Call, Elect, Lead
  <2>3. c.kind = "append" => Begins(c.log, L2)
    BY <2>1, <2>2, BeginsTrans DEF CallFits
  <2>. QED BY <2>1, <2>3 DEF CallFits
<1>. QED BY <1>2, <1>3, <1>5, <1>6 DEF EngineFits

LEMMA MessageFitsOn ==
    ASSUME NEW l, NEW m \in Message, NEW L \in Seq(Entry), NEW L2 \in Seq(Entry),
           NEW T \in Nat, NEW T2 \in Nat, MessageFits(l, m, L, T),
           Begins(L, L2), T <= T2
    PROVE  MessageFits(l, m, L2, T2)
<1>1. m.term \in Nat /\ (m.type = "append" => m.log \in Seq(Entry))
    BY DEF Message
<1>2. m.type = "append" => Begins(m.log, L2)
    BY <1>1, BeginsTrans DEF MessageFits
<1>. QED BY <1>1, <1>2 DEF MessageFits

\* What one engine, set to s, and the messages sent have to satisfy.
LEMMA SetLed ==
    ASSUME TypeOK, TypeOK', NEW l \in Node, Led(l), NEW n \in Node, NEW s, Set(n, s),
           NEW L, L = (IF n = l THEN s.log ELSE node[l].log),
           NEW T, T = (IF n = l THEN s.term ELSE node[l].term),
           Begins(node[l].log, L), node[l].term <= T, Indexed(L),
           n = l /\ s.role = "follower" => Untried(s),
           EngineFits(l, n, s, L, T),
           \A m \in msgs' : m \in msgs \/ MessageFits(l, m, L, T)
    PROVE  Led(l)'
<1>1. node' = [node EXCEPT ![n] = s] /\ node \in [Node -> Engine] /\ msgs \subseteq Message
    BY DEF Set, TypeOK
<1>2. node'[n] = s /\ \A x \in Node : x # n => node'[x] = node[x]
    BY <1>1
<1>3. node'[l].log = L /\ node'[l].term = T
    BY <1>2
<1>4. node'[l] \in Engine /\ node[l] \in Engine
    BY <1>1 DEF TypeOK
<1>5. /\ L \in Seq(Entry) /\ T \in Nat
      /\ node[l].log \in Seq(Entry) /\ node[l].term \in Nat
    BY <1>3, <1>4 DEF Engine
<1>6. Indexed(node'[l].log)
    BY <1>3
<1>7. node'[l].role = "follower" => Untried(node'[l])
    BY <1>2 DEF Led
<1>8. ASSUME NEW x \in Node PROVE EngineFits(l, x, node'[x], L, T)
  <2>1. CASE x = n
    BY <1>2, <2>1
  <2>2. CASE x # n
    <3>1. node'[x] = node[x] /\ node[x] \in Engine
      BY <1>1, <1>2, <2>2
    <3>2. EngineFits(l, x, node[x], node[l].log, node[l].term)
      BY DEF Led
    <3>. QED BY <1>5, <3>1, <3>2, EngineFitsOn
  <2>. QED BY <2>1, <2>2
<1>9. ASSUME NEW m \in msgs' PROVE MessageFits(l, m, L, T)
  <2>1. CASE m \in msgs
    <3>1. m \in Message /\ MessageFits(l, m, node[l].log, node[l].term)
      BY <1>1, <2>1 DEF Led
    <3>. QED BY <1>5, <3>1, MessageFitsOn
  <2>. QED BY <2>1
<1>. QED BY <1>3, <1>6, <1>7, <1>8, <1>9 DEF Led

LEMMA BeginsItself ==
    ASSUME NEW a \in Seq(Entry)
    PROVE  Begins(a, a)
<1>1. Len(a) \in Nat
    OBVIOUS
<1>. QED BY <1>1 DEF Begins

\* A step that leaves l's log and term alone.
LEMMA AsideLed ==
    ASSUME TypeOK, TypeOK', NEW l \in Node, Led(l), NEW n \in Node, NEW s, Set(n, s),
           n = l => s.log = node[l].log /\ s.term = node[l].term,
           n = l /\ s.role = "follower" => Untried(s),
           EngineFits(l, n, s, node[l].log, node[l].term),
           \A m \in msgs' : m \in msgs \/ MessageFits(l, m, node[l].log, node[l].term)
    PROVE  Led(l)'
<1>1. node[l] \in Engine
    BY DEF TypeOK
<1>2. node[l].log \in Seq(Entry) /\ node[l].term \in Nat
    BY <1>1 DEF Engine
<1>3. Begins(node[l].log, node[l].log) /\ node[l].term <= node[l].term
    BY <1>2, BeginsItself
<1>4. Indexed(node[l].log)
    BY DEF Led
<1>. QED BY <1>3, <1>4, SetLed

\* s differs from s1 in nothing the invariant looks at, but for calls that end.
Alike(s1, s) ==
    /\ s.log = s1.log /\ s.term = s1.term /\ s.done = s1.done
    /\ s.role = s1.role
    /\ \A c \in s.calls : c \in s1.calls \/ c \in {Elect, Lead}

LEMMA AlikeFits ==
    ASSUME NEW l, NEW n, NEW s1, NEW s, NEW L, NEW T,
           EngineFits(l, n, s1, L, T), Alike(s1, s)
    PROVE  EngineFits(l, n, s, L, T)
<1>1. Elect.kind = "elect" /\ Lead.kind = "lead"
    BY DEF Elect, Lead
<1>2. ASSUME NEW c \in s.calls PROVE CallFits(l, n, c, s, L)
  <2>1. CASE c \in s1.calls
    <3>1. CallFits(l, n, c, s1, L)
      BY <2>1 DEF EngineFits
    <3>. QED BY <3>1 DEF CallFits, Alike
  <2>2. CASE c \in {Elect, Lead}
    BY <1>1, <2>2 DEF CallFits
  <2>. QED BY <2>1, <2>2 DEF Alike
<1>. QED BY <1>2 DEF EngineFits, Alike

LEMMA AlikeLed ==
    ASSUME TypeOK, TypeOK', NEW l \in Node, Led(l), NEW n \in Node, NEW s, Set(n, s),
           Alike(node[n], s),
           \A m \in msgs' : m \in msgs \/ MessageFits(l, m, node[l].log, node[l].term)
    PROVE  Led(l)'
<1>1. EngineFits(l, n, s, node[l].log, node[l].term)
    BY AlikeFits DEF Led
<1>2. n = l /\ s.role = "follower" => Untried(s)
    BY DEF Led, Untried, Alike, Elect, Lead
<1>. QED BY <1>1, <1>2, AsideLed DEF Alike

\* A message of a term no higher than l's leaves l what it is, and makes at most
\* an older follower of another.
LEMMA BecomeFollowerFits ==
    ASSUME NEW l, NEW n, n # l, NEW s \in Engine, NEW t \in Nat, NEW L, NEW T,
           EngineFits(l, n, s, L, T), t <= T
    PROVE  /\ EngineFits(l, n, BecomeFollower(s, t), L, T)
           /\ BecomeFollower(s, t) \in Engine
           /\ BecomeFollower(s, t).log = s.log
<1> DEFINE f == BecomeFollower(s, t)
<1>1. /\ f \in Engine /\ f.log = s.log /\ f.term = t /\ f.done = s.done
      /\ f.role = "follower" /\ f.calls = s.calls
    BY DEF BecomeFollower, Engine
<1>. HIDE DEF f
<1>2. ASSUME NEW c \in f.calls PROVE CallFits(l, n, c, f, L)
  <2>1. CallFits(l, n, c, s, L)
    BY <1>1 DEF EngineFits
  <2>. QED BY <1>1, <2>1 DEF CallFits
<1>3. EngineFits(l, n, f, L, T)
    BY <1>1, <1>2 DEF EngineFits
<1>. QED BY <1>1, <1>3 DEF f

LEMMA HeardTermFits ==
    ASSUME TypeOK, NEW l \in Node, Led(l), NEW n \in Node, NEW m \in msgs
    PROVE  LET s == HeardTerm(node[n], m.term)
           IN  /\ s \in Engine
               /\ s.log = node[n].log
               /\ n = l => s = node[l]
               /\ EngineFits(l, n, s, node[l].log, node[l].term)
<1>1. node[n] \in Engine /\ m.term \in Nat
    BY MessageFacts DEF TypeOK
<1>2. node[n].term \in Nat
    BY <1>1 DEF Engine
<1>3. /\ m.term <= node[l].term
      /\ EngineFits(l, n, node[n], node[l].log, node[l].term)
    BY DEF Led, MessageFits
<1>4. CASE m.term > node[n].term
  <2>1. n # l
    BY <1>1, <1>2, <1>3, <1>4
  <2>2. HeardTerm(node[n], m.term) = BecomeFollower(node[n], m.term)
    BY <1>4 DEF HeardTerm
  <2> DEFINE f == BecomeFollower(node[n], m.term)
  <2>3. /\ EngineFits(l, n, f, node[l].log, node[l].term)
        /\ f \in Engine /\ f.log = node[n].log
    BY <1>1, <1>3, <2>1, BecomeFollowerFits
  <2>. QED BY <2>1, <2>2, <2>3
<1>5. CASE ~(m.term > node[n].term)
  <2>1. HeardTerm(node[n], m.term) = node[n]
    BY <1>5 DEF HeardTerm
  <2>. QED BY <1>1, <1>3, <2>1
<1>. QED BY <1>4, <1>5

\* Committing up to k, which the log reaches, applies what stands in l's log.
LEMMA CommitToFits ==
    ASSUME NEW l, NEW n, NEW s \in Engine, NEW L \in Seq(Entry), NEW T, NEW k \in Nat,
           Indexed(L), EngineFits(l, n, s, L, T), k <= Len(s.log)
    PROVE  /\ EngineFits(l, n, CommitTo(s, k), L, T)
           /\ CommitTo(s, k).log = s.log /\ CommitTo(s, k).term = s.term
           /\ CommitTo(s, k).role = s.role /\ CommitTo(s, k).calls = s.calls
<1> DEFINE done == [i \in 1..k |-> IF i <= Len(s.done) THEN s.done[i]
                                   ELSE ApplyAt(s.log, i)]
           r == [s EXCEPT !.commit = k, !.done = done]
<1>1. CASE k < s.commit
    BY <1>1 DEF CommitTo
<1>2. CASE ~(k < s.commit)
  <2>1. CommitTo(s, k) = r
    BY <1>2 DEF CommitTo
  <2>2. s.log \in Seq(Entry) /\ s.done \in Seq(SUBSET Command) /\ s.term \in Nat
    BY DEF Engine
  <2>3. Begins(s.log, L) /\ Indexed(s.log)
    BY <2>2, BeginsIndexed DEF EngineFits
  <2>4. ASSUME NEW i \in 1..k PROVE i \in DOMAIN L /\ done[i] = {L[i].cmd}
    <3>1. i \in Nat /\ i \in DOMAIN s.log /\ s.log[i] = L[i] /\ i \in DOMAIN L
      BY <2>2, <2>3 DEF Begins
    <3>2. ApplyAt(s.log, i) = {s.log[i].cmd}
      BY <2>2, <2>3, <3>1, FoundIndexed
    <3>3. i <= Len(s.done) => s.done[i] = {L[i].cmd}
      BY <2>2, <3>1 DEF EngineFits
    <3>. QED BY <3>1, <3>2, <3>3
  <2>5. DOMAIN done = 1..k
    OBVIOUS
  <2>. HIDE DEF done
  <2>6. /\ r.log = s.log /\ r.term = s.term /\ r.role = s.role /\ r.calls = s.calls
        /\ r.done = done
    BY DEF Engine
  <2>. HIDE DEF r
  <2>7. ASSUME NEW c \in r.calls PROVE CallFits(l, n, c, r, L)
    <3>1. CallFits(l, n, c, s, L)
      BY <2>6 DEF EngineFits
    <3>. QED BY <2>6, <3>1 DEF CallFits
  <2>8. EngineFits(l, n, r, L, T)
    BY <2>4, <2>5, <2>6, <2>7 DEF EngineFits
  <2>. QED BY <2>1, <2>6, <2>8
<1>. QED BY <1>1, <1>2

\* The loop of _handleAppendEntries at a follower.
LEMMA GoOnLed ==
    ASSUME TypeOK, TypeOK', NEW l \in Node, Led(l), NEW n \in Node, n # l,
           NEW s \in Engine, EngineFits(l, n, s, node[l].log, node[l].term),
           NEW c \in AppendCalls, Begins(c.log, node[l].log),
           c.at = 0 \/ c.prev < c.at, NextAt(c) <= Len(s.log) + 1,
           NEW ms, ms \subseteq msgs, GoOn(n, s, c, ms)
    PROVE  Led(l)'
<1> DEFINE L == node[l].log
           T == node[l].term
           at == NextAt(c)
           last == LastIndex(s.log)
           k == IF c.commit <= last THEN c.commit ELSE last
           called == [c EXCEPT !.at = at]
           waiting == [s EXCEPT !.calls = @ \cup {called}]
<1>1. c.at \in Nat /\ c.log \in Seq(Entry) /\ c.commit \in Nat /\ c.prev \in Nat
    BY DEF AppendCalls
<1>2. node[l] \in Engine
    BY DEF TypeOK
<1>3. /\ L \in Seq(Entry) /\ T \in Nat /\ Indexed(L)
      /\ s.log \in Seq(Entry) /\ s.term \in Nat
    BY <1>2 DEF Led, Engine
<1>4. Begins(s.log, L) /\ Indexed(s.log) /\ Indexed(c.log) /\ s.term <= T
    BY <1>1, <1>3, BeginsIndexed DEF EngineFits
<1>5. at \in Nat \ {0} /\ (at <= Len(c.log) => c.prev < at)
    BY <1>4, NextIndexed
<1>6. last = Len(s.log)
    BY <1>3, <1>4, LastIndexed
<1>. HIDE DEF L, T, last
<1>7. \A ok \in BOOLEAN, i \in {last} : MessageFits(l, Appended(n, c.from, s, ok, i), L, T)
    BY <1>4 DEF MessageFits, Appended
<1>8. CASE at <= Len(c.log) /\ Chained(s.log, c.log[at])
  <2>1. Set(n, waiting) /\ msgs' = ms
    BY <1>8 DEF GoOn, last
  <2>2. at \in DOMAIN c.log /\ at \in Nat /\ at - 1 \in Nat
    BY <1>1, <1>5, <1>8
  <2>. HIDE DEF at
  <2>3. Linked(c.log, at)
    <3>1. c.log[at].index = at
      BY <1>4, <2>2 DEF Indexed
    <3>2. FindLast(s.log, at - 1) = IF at - 1 \in DOMAIN s.log THEN at - 1 ELSE 0
      BY <1>3, <1>4, <2>2, FindLastIndexed
    <3>3. CASE at = 1
      BY <1>8, <3>1, <3>2, <3>3 DEF Chained, Linked
    <3>4. CASE at # 1
      <4>1. at - 1 \in DOMAIN s.log /\ at - 1 \in DOMAIN c.log /\ at - 1 # 0
        BY <1>1, <1>3, <2>2, <3>4 DEF at
      <4>2. s.log[at - 1] = L[at - 1]
        <5>1. Len(s.log) \in Nat /\ at - 1 \in 1..Len(s.log)
          BY <1>3, <4>1
        <5>. QED BY <1>4, <5>1 DEF Begins
      <4>3. Begins(c.log, L) /\ Len(c.log) \in Nat /\ at - 1 \in 1..Len(c.log)
        BY <1>1, <4>1 DEF L
      <4>4. c.log[at - 1] = L[at - 1]
        BY <4>3 DEF Begins
      <4>5. c.log[at].prev = EntryHash(s.log[at - 1])
        BY <1>8, <3>1, <3>2, <4>1 DEF Chained
      <4>. QED BY <3>4, <4>2, <4>4, <4>5 DEF Linked
    <3>. QED BY <3>3, <3>4
  <2>4. /\ called.at = at /\ called.log = c.log /\ called.prev = c.prev
        /\ called.kind = "append"
    BY DEF AppendCalls
  <2>. HIDE DEF called
  <2>5. /\ waiting.log = s.log /\ waiting.term = s.term /\ waiting.role = s.role
        /\ waiting.done = s.done /\ waiting.calls = s.calls \cup {called}
    BY DEF Engine
  <2>. HIDE DEF waiting
  <2>6. CallFits(l, n, called, waiting, L)
    BY <1>5, <1>8, <2>2, <2>3, <2>4, <2>5 DEF CallFits, L, at
  <2>7. ASSUME NEW d \in s.calls PROVE CallFits(l, n, d, waiting, L)
    <3>1. CallFits(l, n, d, s, L)
      BY DEF EngineFits, L
    <3>. QED BY <2>5, <3>1 DEF CallFits
  <2>8. EngineFits(l, n, waiting, L, T)
    BY <2>5, <2>6, <2>7 DEF EngineFits, L, T
  <2>. QED BY <2>1, <2>8, AsideLed DEF L, T
<1>9. CASE at <= Len(c.log) /\ ~Chained(s.log, c.log[at])
  <2>1. Set(n, s) /\ msgs' = ms \cup {Appended(n, c.from, s, FALSE, last)}
    BY <1>9 DEF GoOn, last
  <2>2. \A m \in msgs' : m \in msgs \/ MessageFits(l, m, L, T)
    BY <1>7, <2>1
  <2>. QED BY <2>1, <2>2, AsideLed DEF L, T
<1>10. CASE ~(at <= Len(c.log))
  <2>1. /\ Set(n, IF c.commit > s.commit THEN CommitTo(s, k) ELSE s)
        /\ msgs' = ms \cup {Appended(n, c.from, s, TRUE, last)}
    BY <1>10 DEF GoOn, last
  <2>2. \A m \in msgs' : m \in msgs \/ MessageFits(l, m, L, T)
    BY <1>7, <2>1
  <2>3. k \in Nat /\ k <= Len(s.log)
    BY <1>1, <1>3, <1>6
  <2>. HIDE DEF k
  <2>4. EngineFits(l, n, s, L, T) /\ EngineFits(l, n, CommitTo(s, k), L, T)
    BY <1>3, <2>3, CommitToFits DEF L, T
  <2>. QED BY <2>1, <2>2, <2>4, AsideLed DEF L, T
<1>. QED BY <1>8, <1>9, <1>10

\* Any stretch of code that leaves the engine as the message's term made it, but
\* for fields the invariant does not look at.
LEMMA HeardLed ==
    ASSUME TypeOK, TypeOK', NEW l \in Node, Led(l), NEW n \in Node, NEW m \in msgs,
           NEW r, Set(n, r), Alike(HeardTerm(node[n], m.term), r),
           \A x \in msgs' : x \in msgs \/ MessageFits(l, x, node[l].log, node[l].term)
    PROVE  Led(l)'
<1> DEFINE s == HeardTerm(node[n], m.term)
<1>1. /\ s.log = node[n].log
      /\ n = l => s = node[l]
      /\ EngineFits(l, n, s, node[l].log, node[l].term)
    BY HeardTermFits
<1>. HIDE DEF s
<1>2. Alike(s, r)
    BY DEF s
<1>3. EngineFits(l, n, r, node[l].log, node[l].term)
    BY <1>1, <1>2, AlikeFits
<1>4. ASSUME n = l, r.role = "follower" PROVE Untried(r)
  <2>1. Alike(node[l], r)
    BY <1>1, <1>2, <1>4
  <2>. QED BY <1>4, <2>1 DEF Led, Untried, Alike, Elect, Lead
<1>. QED BY <1>1, <1>2, <1>3, <1>4, AsideLed DEF Alike

LEMMA AppendsFit ==
    ASSUME NEW l \in Node, NEW s \in Engine
    PROVE  \A m \in Appends(l, s) : MessageFits(l, m, s.log, s.term)
<1>1. s.log \in Seq(Entry) /\ s.term \in Nat
    BY DEF Engine
<1>2. Begins(s.log, s.log)
    BY <1>1, BeginsItself
<1>. QED BY <1>1, <1>2 DEF Appends, MessageFits, Peers

\* Only l is ever anything but a follower.
LEMMA OthersFollow ==
    ASSUME NEW l \in Node, Led(l), NEW n \in Node, node[n].role # "follower"
    PROVE  n = l
  BY DEF Led, EngineFits

LEMMA StartElectionLed ==
    ASSUME TypeOK, TypeOK', NEW l \in Node, Electors \subseteq {l}, Led(l),
           NEW n \in Node, StartElection(n)
    PROVE  Led(l)'
<1> DEFINE s == node[l]
           calls == IF Wired THEN s.calls \cup {Elect} ELSE s.calls
           r == [s EXCEPT !.term = s.term + 1, !.role = "candidate", !.voted = n,
                          !.votes = {n}, !.timer = FALSE, !.calls = calls]
<1>1. n = l
    BY DEF StartElection
<1>2. Set(n, r)
    BY <1>1 DEF StartElection
<1>3. s \in Engine
    BY DEF TypeOK
<1>4. s.term \in Nat /\ s.log \in Seq(Entry)
    BY <1>3 DEF Engine
<1>5. ASSUME NEW m \in msgs', m \notin msgs
      PROVE  m.type = "vote?" /\ m.term = s.term + 1
  <2>1. PICK p \in Peers(n) :
            m = [type |-> "vote?", from |-> n, to |-> p, term |-> node[n].term + 1,
                 last |-> LastIndex(node[n].log), lastTerm |-> LastTerm(node[n].log)]
    BY <1>5 DEF StartElection
  <2>. QED BY <1>1, <2>1
<1>6. \A m \in msgs' : m \in msgs \/ MessageFits(l, m, s.log, s.term + 1)
    BY <1>4, <1>5 DEF MessageFits
<1>7. \A c \in calls : c \in s.calls \/ c = Elect
    OBVIOUS
<1>. HIDE DEF calls
<1>8. /\ r.log = s.log /\ r.term = s.term + 1 /\ r.done = s.done
      /\ r.role = "candidate" /\ r.calls = calls
    BY <1>3 DEF Engine
<1>. HIDE DEF r
<1>9. EngineFits(l, n, s, s.log, s.term) /\ Indexed(s.log)
    BY <1>1 DEF Led
<1>10. \A c \in r.calls : CallFits(l, n, c, r, s.log)
    BY <1>1, <1>7, <1>8, <1>9 DEF EngineFits, CallFits, Elect
<1>11. EngineFits(l, n, r, s.log, s.term + 1)
    BY <1>1, <1>4, <1>8, <1>9, <1>10 DEF EngineFits
<1>12. Begins(s.log, s.log)
    BY <1>4, BeginsItself
<1>13. s.term <= s.term + 1
    BY <1>4
<1>. HIDE DEF s
<1>14. r.log = (IF n = l THEN r.log ELSE node[l].log) /\ r.term = (IF n = l THEN r.term ELSE node[l].term)
    BY <1>1
<1>. QED BY <1>2, <1>6, <1>8, <1>9, <1>11, <1>12, <1>13, <1>14, SetLed DEF s

\* Ends of waits, stops and starts: nothing the invariant looks at.
LEMMA SwitchLed ==
    ASSUME TypeOK, TypeOK', NEW l \in Node, Led(l), NEW n \in Node,
           FinishElection(n) \/ FinishLead(n) \/ Stop(n) \/ Start(n)
    PROVE  Led(l)'
<1> DEFINE s == node[n]
<1>0. s \in Engine
    BY DEF TypeOK
<1>1. PICK r : Set(n, r) /\ Alike(s, r)
  <2>1. CASE FinishElection(n)
    <3> DEFINE r == [s EXCEPT !.timer = s.up, !.calls = @ \ {Elect}]
    <3>1. Set(n, r)
      BY <2>1 DEF FinishElection
    <3>2. Alike(s, r)
      BY <1>0 DEF Alike, Engine
    <3>. QED BY <3>1, <3>2
  <2>2. CASE FinishLead(n)
    <3> DEFINE r == [s EXCEPT !.timer = FALSE, !.beat = TRUE, !.calls = @ \ {Lead}]
    <3>1. Set(n, r)
      BY <2>2 DEF FinishLead
    <3>2. Alike(s, r)
      BY <1>0 DEF Alike, Engine
    <3>. QED BY <3>1, <3>2
  <2>3. CASE Stop(n)
    <3> DEFINE r == [s EXCEPT !.up = FALSE, !.timer = FALSE, !.beat = FALSE]
    <3>1. Set(n, r)
      BY <2>3 DEF Stop
    <3>2. Alike(s, r)
      BY <1>0 DEF Alike, Engine
    <3>. QED BY <3>1, <3>2
  <2>4. CASE Start(n)
    <3> DEFINE r == [s EXCEPT !.up = TRUE, !.timer = TRUE]
    <3>1. Set(n, r)
      BY <2>4 DEF Start
    <3>2. Alike(s, r)
      BY <1>0 DEF Alike, Engine
    <3>. QED BY <3>1, <3>2
  <2>. QED BY <2>1, <2>2, <2>3, <2>4
<1>2. msgs' = msgs
    BY DEF FinishElection, FinishLead, Stop, Start, Fault
<1>. QED BY <1>1, <1>2, AlikeLed

LEMMA HeartbeatLed ==
    ASSUME TypeOK, TypeOK', NEW l \in Node, Led(l), NEW n \in Node, Heartbeat(n)
    PROVE  Led(l)'
<1>1. Set(n, node[n]) /\ Alike(node[n], node[n])
    BY DEF Heartbeat, TypeOK, Set, Alike
<1>2. node[n] \in Engine
    BY DEF TypeOK
<1>3. ASSUME NEW m \in msgs', m \notin msgs
      PROVE  MessageFits(l, m, node[l].log, node[l].term)
  <2>1. m \in Appends(n, node[n])
    BY <1>3 DEF Heartbeat
  <2>2. node[n].role = "leader"
    BY <2>1 DEF Appends
  <2>3. n = l
    BY <2>2, OthersFollow
  <2>. QED BY <1>2, <2>1, <2>3, AppendsFit
<1>. QED BY <1>1, <1>3, AlikeLed

LEMMA LoseLed ==
    ASSUME TypeOK, TypeOK', NEW l \in Node, Led(l), NEW m \in msgs, Lose(m)
    PROVE  Led(l)'
<1>1. Set(l, node[l]) /\ Alike(node[l], node[l])
    BY DEF Lose, TypeOK, Set, Alike
<1>2. msgs' \subseteq msgs
    BY DEF Lose
<1>. QED BY <1>1, <1>2, AlikeLed

LEMMA CrashLed ==
    ASSUME TypeOK, TypeOK', NEW l \in Node, l \notin Mortal, Led(l), NEW n \in Node,
           Crash(n)
    PROVE  Led(l)'
<1>1. n # l /\ Set(n, Fresh) /\ msgs' = msgs
    BY DEF Crash, Fault
<1>2. node[l] \in Engine
    BY DEF TypeOK
<1>3. node[l].log \in Seq(Entry) /\ node[l].term \in Nat
    BY <1>2 DEF Engine
<1>4. /\ Fresh.term = 0 /\ Fresh.log = <<>> /\ Fresh.done = <<>> /\ Fresh.calls = {}
      /\ Fresh.role = "follower"
    BY DEF Fresh
<1>5. EngineFits(l, n, Fresh, node[l].log, node[l].term)
    BY <1>3, <1>4 DEF EngineFits, Begins, HashChain
<1>. QED BY <1>1, <1>5, AsideLed

LEMMA HandleRequestVoteLed ==
    ASSUME TypeOK, TypeOK', NEW l \in Node, Led(l), NEW m \in msgs, NEW n \in Node,
           HandleRequestVote(n, m)
    PROVE  Led(l)'
<1> DEFINE s == HeardTerm(node[n], m.term)
           granted == /\ m.term >= s.term
                      /\ s.voted \in {NoNode, m.from}
                      /\ UpToDate(s, m.last, m.lastTerm)
           g == [s EXCEPT !.voted = m.from, !.timer = TRUE]
           reply == [type |-> "vote!", from |-> n, to |-> m.from,
                     term |-> s.term, granted |-> granted]
<1>1. /\ Set(n, IF granted THEN g ELSE s)
      /\ msgs' = Left(m) \cup {reply}
    BY DEF HandleRequestVote
<1>2. s \in Engine /\ EngineFits(l, n, s, node[l].log, node[l].term)
    BY HeardTermFits
<1>. HIDE DEF granted
<1>3. reply.type = "vote!" /\ reply.term = s.term
    OBVIOUS
<1>. HIDE DEF s, reply
<1>4. Alike(s, g) /\ Alike(s, s)
    BY <1>2 DEF Alike, Engine
<1>5. MessageFits(l, reply, node[l].log, node[l].term)
    BY <1>2, <1>3 DEF MessageFits, EngineFits
<1>6. \A x \in msgs' : x \in msgs \/ MessageFits(l, x, node[l].log, node[l].term)
    BY <1>1, <1>5 DEF Left
<1>. HIDE DEF g
<1>7. Alike(s, IF granted THEN g ELSE s)
    BY <1>4
<1>. QED BY <1>1, <1>6, <1>7, HeardLed DEF s

\* A step of l, which is no follower by then, that adds at most the call of a
\* proposal.
LEMMA ProposingLed ==
    ASSUME TypeOK, TypeOK', NEW l \in Node, Led(l), NEW r, Set(l, r), msgs' \subseteq msgs,
           r.log = node[l].log, r.term = node[l].term, r.done = node[l].done,
           r.role # "follower", NEW d, d.kind = "propose",
           \A c \in r.calls : c \in node[l].calls \/ c = d
    PROVE  Led(l)'
<1>1. EngineFits(l, l, node[l], node[l].log, node[l].term)
    BY DEF Led
<1>2. ASSUME NEW c \in r.calls PROVE CallFits(l, l, c, r, node[l].log)
  <2>1. CASE c \in node[l].calls
    BY <1>1, <2>1 DEF EngineFits, CallFits
  <2>2. CASE c = d
    BY <2>2 DEF CallFits
  <2>. QED BY <2>1, <2>2
<1>3. EngineFits(l, l, r, node[l].log, node[l].term)
    BY <1>1, <1>2 DEF EngineFits
<1>. QED BY <1>3, AsideLed

LEMMA HandleVoteResponseLed ==
    ASSUME TypeOK, TypeOK', NEW l \in Node, Led(l), NEW m \in msgs, NEW n \in Node,
           HandleVoteResponse(n, m)
    PROVE  Led(l)'
<1> DEFINE s == HeardTerm(node[n], m.term)
           counts == s.role = "candidate" /\ m.term = s.term /\ m.granted
           got == [s EXCEPT !.votes = @ \cup {m.from}]
           wins == counts /\ Cardinality(got.votes) >= Majority
           w == BecomeLeader(got)
<1>1. /\ Set(n, IF wins THEN w ELSE IF counts THEN got ELSE s)
      /\ msgs' \subseteq msgs
    BY DEF HandleVoteResponse, Left
<1>2. /\ s \in Engine /\ s.log = node[n].log
      /\ EngineFits(l, n, s, node[l].log, node[l].term)
      /\ n = l => s = node[l]
    BY HeardTermFits
<1>. HIDE DEF s
<1>3. Alike(s, got) /\ Alike(s, s)
    BY <1>2 DEF Alike, Engine
<1>4. CASE ~wins
  <2>1. Set(n, IF counts THEN got ELSE s)
    BY <1>1, <1>4
  <2>2. Alike(s, IF counts THEN got ELSE s)
    BY <1>3
  <2>. HIDE DEF got, counts
  <2>. QED BY <1>1, <2>1, <2>2, HeardLed DEF s
<1>5. CASE wins
  <2>1. Set(n, w) /\ s.role = "candidate"
    BY <1>1, <1>5
  <2>2. n = l /\ s = node[l]
    BY <1>2, <2>1 DEF EngineFits
  <2> DEFINE d == ProposeCall(got, Noop, TRUE)
  <2>3. /\ got.log = s.log /\ got.term = s.term /\ got.done = s.done
        /\ got.calls = s.calls /\ got \in Engine
    <3>1. m.from \in Node
      BY MessageFacts
    <3>. QED BY <1>2, <3>1 DEF Engine
  <2>4. d.kind = "propose"
    BY DEF ProposeCall
  <2>. HIDE DEF got
  <2>5. /\ w.log = got.log /\ w.term = got.term /\ w.done = got.done
        /\ w.role = "leader" /\ w.calls = got.calls \cup {d}
    BY <2>3 DEF BecomeLeader, Engine
  <2>. HIDE DEF w, d
  <2>. QED BY <1>1, <2>1, <2>2, <2>3, <2>4, <2>5, ProposingLed
<1>. QED BY <1>4, <1>5

LEMMA ProposeLed ==
    ASSUME TypeOK, TypeOK', NEW l \in Node, Led(l), NEW n \in Node, NEW cmd,
           Propose(n, cmd)
    PROVE  Led(l)'
<1> DEFINE s == node[n]
           d == ProposeCall(s, cmd, FALSE)
           r == [s EXCEPT !.calls = @ \cup {d}]
<1>1. Set(n, r) /\ msgs' = msgs /\ s.role = "leader"
    BY DEF Propose
<1>2. n = l
    BY <1>1, OthersFollow
<1>3. s \in Engine
    BY DEF TypeOK
<1>4. d.kind = "propose"
    BY DEF ProposeCall
<1>. HIDE DEF d
<1>5. /\ r.log = s.log /\ r.term = s.term /\ r.done = s.done
      /\ r.role = "leader" /\ r.calls = s.calls \cup {d}
    BY <1>1, <1>3 DEF Engine
<1>. HIDE DEF r
<1>. QED BY <1>1, <1>2, <1>4, <1>5, ProposingLed

LEMMA PushProposalLed ==
    ASSUME TypeOK, TypeOK', NEW l \in Node, Led(l), NEW n \in Node,
           NEW c \in node[n].calls, PushProposal(n, c)
    PROVE  Led(l)'
<1> DEFINE s == node[l]
           e == [index |-> Len(s.log) + 1, term |-> s.term, cmd |-> c.cmd, prev |-> c.prev]
           L == Append(s.log, e)
           calls == (s.calls \ {c}) \cup (IF c.leading THEN {Lead} ELSE {})
           r == [s EXCEPT !.log = L, !.calls = calls]
<1>1. n = l
    BY DEF PushProposal, Led, EngineFits, CallFits
<1>2. /\ Set(l, r) /\ msgs' = msgs \cup Appends(l, r) /\ c \in s.calls
      /\ c.kind = "propose"
    BY <1>1 DEF PushProposal
<1>3. s \in Engine /\ r \in Engine
  <2>1. node' = [node EXCEPT ![l] = r] /\ node \in [Node -> Engine]
    BY <1>2 DEF Set, TypeOK
  <2>2. node'[l] = r
    BY <2>1
  <2>. QED BY <2>1, <2>2 DEF TypeOK
<1>4. s.log \in Seq(Entry) /\ s.term \in Nat /\ L = r.log
    BY <1>3 DEF Engine
<1>5. s.role # "follower" /\ Indexed(s.log)
    BY <1>2 DEF Led, Untried
<1>6. \A d \in calls : d \in s.calls \/ d.kind = "lead"
    BY DEF Lead
<1>. HIDE DEF calls
<1>7. r.role = s.role /\ r.term = s.term /\ r.done = s.done /\ r.calls = calls
    BY <1>3 DEF Engine
<1>8. e.index = Len(s.log) + 1
    OBVIOUS
<1>. HIDE DEF e
<1>9. L \in Seq(Entry)
    BY <1>3, <1>4 DEF Engine
<1>10. /\ Len(L) = Len(s.log) + 1 /\ L[Len(s.log) + 1] = e
       /\ \A i \in 1..Len(s.log) : L[i] = s.log[i]
    BY <1>4
<1>. HIDE DEF L, r
<1>11. Begins(s.log, L) /\ Begins(L, L) /\ Indexed(L)
  <2>1. Len(s.log) \in Nat /\ DOMAIN L = 1..Len(L) /\ DOMAIN s.log = 1..Len(s.log)
    BY <1>4, <1>9
  <2>2. Begins(s.log, L)
    BY <1>10, <2>1 DEF Begins
  <2>3. Indexed(L)
    BY <1>5, <1>8, <1>10, <2>1 DEF Indexed
  <2>. QED BY <1>9, <2>2, <2>3, BeginsItself
<1>12. EngineFits(l, l, s, L, s.term)
  <2>1. EngineFits(l, l, s, s.log, s.term) /\ s.term <= s.term
    BY <1>4 DEF Led
  <2>. QED BY <1>3, <1>4, <1>9, <1>11, <2>1, EngineFitsOn
<1>13. ASSUME NEW d \in r.calls PROVE CallFits(l, l, d, r, L)
    BY <1>6, <1>7, <1>12 DEF EngineFits, CallFits
<1>14. EngineFits(l, l, r, L, s.term)
    BY <1>4, <1>7, <1>11, <1>12, <1>13 DEF EngineFits
<1>15. \A m \in msgs' : m \in msgs \/ MessageFits(l, m, L, s.term)
    BY <1>2, <1>3, <1>4, <1>7, AppendsFit
<1>. HIDE DEF s
<1>16. r.log = L /\ r.term = s.term /\ r.role # "follower" /\ s.term <= s.term
    BY <1>4, <1>5, <1>7
<1>. QED BY <1>2, <1>11, <1>14, <1>15, <1>16, SetLed DEF s

LEMMA AppendEntryLed ==
    ASSUME TypeOK, TypeOK', NEW l \in Node, Led(l), NEW n \in Node,
           NEW c \in node[n].calls, AppendEntry(n, c)
    PROVE  Led(l)'
<1> DEFINE s == node[n]
           L == node[l].log
           log == Put(s.log, c.log[c.at])
           put == [s EXCEPT !.log = log, !.calls = @ \ {c}]
<1>1. GoOn(n, put, c, msgs) /\ c.kind = "append"
    BY DEF AppendEntry
<1>2. s \in Engine /\ node[l] \in Engine
    BY DEF TypeOK
<1>3. s.log \in Seq(Entry) /\ s.calls \in SUBSET Call /\ L \in Seq(Entry)
    BY <1>2 DEF Engine
<1>4. c \in AppendCalls
    BY <1>1, <1>3 DEF Call, AppendCalls, Elect, Lead
<1>5. c.log \in Seq(Entry) /\ c.at \in DOMAIN c.log /\ c.at \in Nat
    BY <1>1, <1>4 DEF AppendCalls, TypeOK
<1>6. EngineFits(l, n, s, L, node[l].term) /\ Indexed(L)
    BY DEF Led
<1>7. /\ n # l /\ Begins(c.log, L) /\ c.prev < c.at /\ c.at <= Len(s.log) + 1
      /\ Linked(c.log, c.at)
    BY <1>1, <1>6 DEF EngineFits, CallFits
<1>8. Begins(s.log, L) /\ HashChain(s.log)
    BY <1>6, <1>7 DEF EngineFits
<1>9. /\ log \in Seq(Entry) /\ Begins(log, L) /\ HashChain(log)
      /\ Len(s.log) <= Len(log) /\ c.at <= Len(log)
    BY <1>3, <1>5, <1>6, <1>7, <1>8, PutBegins
<1>. HIDE DEF log
<1>10. put \in Engine
    BY <1>2, <1>9 DEF Engine
<1>11. /\ put.log = log /\ put.term = s.term /\ put.role = s.role /\ put.done = s.done
       /\ put.calls = s.calls \ {c}
    BY <1>2 DEF Engine
<1>. HIDE DEF put
<1>12. ASSUME NEW d \in put.calls PROVE CallFits(l, n, d, put, L)
  <2>1. CallFits(l, n, d, s, L)
    BY <1>6, <1>11 DEF EngineFits
  <2>2. d.kind = "append" => d.at \in Nat
    BY <1>3, <1>11 DEF Call, Elect, Lead
  <2>3. Len(s.log) \in Nat /\ Len(log) \in Nat
    BY <1>3, <1>9
  <2>. QED BY <1>9, <1>11, <2>1, <2>2, <2>3 DEF CallFits
<1>13. EngineFits(l, n, put, L, node[l].term)
    BY <1>6, <1>9, <1>11, <1>12 DEF EngineFits
<1>14. NextAt(c) <= Len(put.log) + 1
  <2>1. Indexed(c.log)
    BY <1>3, <1>5, <1>6, <1>7, BeginsIndexed
  <2>2. c.at # 0
    BY <1>5
  <2>3. NextAt(c) = c.at + 1
    BY <1>4, <1>7, <2>1, <2>2, NextIndexed
  <2>. QED BY <1>5, <1>9, <1>11, <2>3
<1>. QED BY <1>1, <1>4, <1>7, <1>10, <1>13, <1>14, GoOnLed

LEMMA HandleAppendEntriesLed ==
    ASSUME TypeOK, TypeOK', NEW l \in Node, Led(l), NEW m \in msgs, NEW n \in Node,
           m.type = "append", m.to = n, HandleAppendEntries(n, m)
    PROVE  Led(l)'
<1> DEFINE L == node[l].log
           T == node[l].term
           heard == HeardTerm(node[n], m.term)
           timed == [heard EXCEPT !.timer = TRUE]
           s == SplitBrain(timed, m)
           f == BecomeFollower(s, m.term)
           matches == /\ Find(f.log, m.prev) \in DOMAIN f.log
                      /\ TermAt(f.log, m.prev) = m.prevTerm
           c == AppendCall(m)
<1>1. n # l /\ Begins(m.log, L) /\ m.term <= T
    BY DEF Led, MessageFits
<1>2. m \in Message
    BY DEF TypeOK
<1>3. /\ m.from \in Node /\ m.term \in Nat /\ m.prev \in Nat /\ m.commit \in Nat
      /\ m.log \in Seq(Entry)
    BY MessageFacts
<1>4. heard \in Engine /\ EngineFits(l, n, heard, L, T)
    BY HeardTermFits
<1>. HIDE DEF heard
<1>5. timed \in Engine /\ Alike(heard, timed)
    BY <1>4 DEF Engine, Alike
<1>. HIDE DEF timed, T, L
<1>6. EngineFits(l, n, timed, L, T)
    BY <1>4, <1>5, AlikeFits
<1>7. s = timed
    BY <1>1, <1>6 DEF SplitBrain, EngineFits
<1>8. s \in Engine /\ EngineFits(l, n, s, L, T)
    BY <1>5, <1>6, <1>7
<1>. HIDE DEF s, f
<1>9. /\ EngineFits(l, n, f, L, T) /\ f \in Engine /\ f.log = s.log
  <2>1. n # l /\ s \in Engine /\ m.term \in Nat /\ EngineFits(l, n, s, L, T)
    BY <1>1, <1>3, <1>8
  <2>2. m.term <= T
    BY <1>1
  <2>. QED BY ONLY <2>1, <2>2, BecomeFollowerFits DEF f
<1>10. \A e \in {s, f} : \A ok, i : MessageFits(l, Appended(n, m.from, e, ok, i), L, T)
    BY <1>8, <1>9 DEF MessageFits, Appended, EngineFits
<1>11. Left(m) \subseteq msgs
    BY DEF Left
<1>12. CASE m.term < s.term
  <2>1. Set(n, s) /\ msgs' = Left(m) \cup {Appended(n, m.from, s, FALSE, 0)}
    BY <1>12 DEF HandleAppendEntries, s, timed, heard
  <2>2. \A x \in msgs' : x \in msgs \/ MessageFits(l, x, L, T)
    BY <1>10, <1>11, <2>1
  <2>. QED BY <1>1, <1>8, <2>1, <2>2, AsideLed DEF L, T
<1>13. CASE ~(m.term < s.term) /\ m.prev > 0 /\ ~matches
  <2>1. /\ Set(n, f)
        /\ msgs' = Left(m) \cup {Appended(n, m.from, f, FALSE, LastIndex(f.log))}
    BY <1>13 DEF HandleAppendEntries, f, s, timed, heard
  <2>2. \A x \in msgs' : x \in msgs \/ MessageFits(l, x, L, T)
    BY <1>10, <1>11, <2>1
  <2>. QED BY <1>1, <1>9, <2>1, <2>2, AsideLed DEF L, T
<1>14. CASE ~(m.term < s.term) /\ ~(m.prev > 0 /\ ~matches)
  <2>1. GoOn(n, f, c, Left(m))
    BY <1>14 DEF HandleAppendEntries, f, s, timed, heard
  <2>2. c \in AppendCalls /\ c.at = 0 /\ c.prev = m.prev /\ c.log = m.log
    BY <1>3 DEF AppendCall, AppendCalls
  <2>3. node[l] \in Engine
    BY DEF TypeOK
  <2>4. L \in Seq(Entry) /\ Indexed(L) /\ f.log \in Seq(Entry)
    BY <1>9, <2>3 DEF L, Led, Engine
  <2>5. Indexed(c.log) /\ Indexed(f.log)
    BY <1>1, <1>3, <1>9, <2>2, <2>4, BeginsIndexed DEF EngineFits
  <2>. HIDE DEF c
  <2>6. NextAt(c) <= m.prev + 1 /\ NextAt(c) \in Nat
    BY <2>2, <2>5, NextIndexed
  <2>7. m.prev <= Len(f.log)
    <3>1. CASE m.prev = 0
      BY <2>4, <3>1
    <3>2. CASE m.prev # 0
      <4>1. matches
        BY <1>3, <1>14, <3>2
      <4>2. m.prev \in DOMAIN f.log
        BY <1>3, <2>4, <2>5, <4>1, FoundIndexed
      <4>. QED BY <2>4, <4>2
    <3>. QED BY <3>1, <3>2
  <2>8. NextAt(c) <= Len(f.log) + 1
    BY <1>3, <2>4, <2>6, <2>7
  <2>. QED BY <1>1, <1>9, <1>11, <2>1, <2>2, <2>8, GoOnLed DEF L, T
<1>. HIDE DEF matches
<1>. QED BY <1>12, <1>13, <1>14

LEMMA HandleAppendResponseLed ==
    ASSUME TypeOK, TypeOK', NEW l \in Node, Led(l), NEW m \in msgs, NEW n \in Node,
           m.type = "appended", HandleAppendResponse(n, m)
    PROVE  Led(l)'
<1> DEFINE L == node[l].log
           T == node[l].term
           s == HeardTerm(node[n], m.term)
           back == [s EXCEPT !.next[m.from] = IF @ = 0 THEN 0 ELSE @ - 1]
           taken == [s EXCEPT !.match[m.from] = m.match, !.next[m.from] = m.match]
           some == Committable(taken)
<1>1. m.from \in Node /\ m.match \in Nat
    BY MessageFacts
<1>2. /\ s \in Engine /\ s.log = node[n].log /\ EngineFits(l, n, s, L, T)
      /\ n = l => s = node[l]
    BY HeardTermFits
<1>3. msgs' \subseteq msgs
    BY DEF HandleAppendResponse, Left
<1>4. /\ s.role # "leader" => Set(n, s)
      /\ s.role = "leader" /\ ~m.ok => Set(n, back)
      /\ s.role = "leader" /\ m.ok /\ some = {} => Set(n, taken)
      /\ s.role = "leader" /\ m.ok /\ some # {} =>
            \E k \in some : (\A i \in some : i <= k) /\ Set(n, CommitTo(taken, k))
    BY DEF HandleAppendResponse
<1>. HIDE DEF s, L, T
<1>5. Alike(s, s) /\ Alike(s, back) /\ Alike(s, taken) /\ taken \in Engine
    BY <1>1, <1>2 DEF Alike, Engine
<1>. HIDE DEF back, taken, some
<1>6. ASSUME NEW r \in {s, back, taken}, Set(n, r) PROVE Led(l)'
    BY <1>3, <1>5, <1>6, HeardLed DEF s
<1>7. CASE s.role = "leader" /\ m.ok /\ some # {}
  <2>1. PICK k \in some : Set(n, CommitTo(taken, k))
    BY <1>4, <1>7
  <2>2. EngineFits(l, n, taken, L, T) /\ taken.role = "leader"
    BY <1>2, <1>5, <1>7, AlikeFits DEF Alike
  <2>3. n = l
    BY <2>2 DEF EngineFits
  <2>4. node[l] \in Engine
    BY DEF TypeOK
  <2>5. L \in Seq(Entry) /\ Indexed(L) /\ taken.log \in Seq(Entry) /\ taken.commit \in Nat
    BY <1>5, <2>4 DEF L, Led, Engine
  <2>6. LastIndex(taken.log) = Len(taken.log)
    BY <2>2, <2>5, BeginsIndexed, LastIndexed DEF EngineFits
  <2>7. k \in Nat /\ k <= Len(taken.log)
    BY <2>5, <2>6 DEF some, Committable
  <2> DEFINE r == CommitTo(taken, k)
  <2>. HIDE DEF r
  <2>8. /\ EngineFits(l, n, r, L, T)
        /\ r.log = taken.log /\ r.term = taken.term /\ r.role = taken.role
    <3>1. taken \in Engine /\ EngineFits(l, n, taken, L, T) /\ k \in Nat
      BY <1>5, <2>2, <2>7
    <3>2. L \in Seq(Entry) /\ Indexed(L) /\ k <= Len(taken.log)
      BY <2>5, <2>7
    <3>. QED BY ONLY <3>1, <3>2, CommitToFits DEF r
  <2>9. r.log = L /\ r.term = T /\ r.role = "leader"
    BY <1>2, <1>5, <2>2, <2>3, <2>8 DEF Alike, L, T
  <2>10. Set(n, r)
    BY <2>1 DEF r
  <2>. QED BY <1>3, <2>3, <2>8, <2>9, <2>10, AsideLed DEF L, T
<1>. QED BY <1>4, <1>6, <1>7

LEMMA InitLed == ASSUME NEW l \in Node, Init PROVE Led(l)
<1>1. /\ Fresh.term = 0 /\ Fresh.log = <<>> /\ Fresh.done = <<>> /\ Fresh.calls = {}
      /\ Fresh.role = "follower"
    BY DEF Fresh
<1>2. msgs = {} /\ \A n \in Node : node[n] = Fresh
    BY DEF Init
<1>. QED BY <1>1, <1>2
        DEF Led, Indexed, Untried, EngineFits, Begins, HashChain

LEMMA NextLed ==
    ASSUME TypeOK, NEW l \in Node, Electors \subseteq {l}, l \notin Mortal, Led(l), Next
    PROVE  Led(l)'
<1>1. TypeOK'
    BY NextKeeps
<1>2. ASSUME NEW n \in Node,
             \/ StartElection(n) \/ FinishElection(n) \/ FinishLead(n) \/ Heartbeat(n)
             \/ Stop(n) \/ Start(n) \/ Crash(n)
      PROVE  Led(l)'
    BY <1>1, <1>2, StartElectionLed, SwitchLed, HeartbeatLed, CrashLed
<1>3. ASSUME NEW n \in Node, NEW cmd \in Cmd, Propose(n, cmd)
      PROVE  Led(l)'
    BY <1>1, <1>3, ProposeLed
<1>4. ASSUME NEW n \in Node, NEW c \in node[n].calls,
             PushProposal(n, c) \/ AppendEntry(n, c)
      PROVE  Led(l)'
    BY <1>1, <1>4, PushProposalLed, AppendEntryLed
<1>5. ASSUME NEW m \in msgs, Deliver(m) PROVE Led(l)'
  <2>1. m.to \in Node
    BY MessageFacts
  <2>. QED BY <1>1, <1>5, <2>1, HandleRequestVoteLed, HandleVoteResponseLed,
              HandleAppendEntriesLed, HandleAppendResponseLed DEF Deliver
<1>6. ASSUME NEW m \in msgs, Lose(m) PROVE Led(l)'
    BY <1>1, <1>6, LoseLed
<1>. QED BY <1>2, <1>3, <1>4, <1>5, <1>6 DEF Next

LEMMA StutterLed ==
    ASSUME NEW l \in Node, Led(l), UNCHANGED vars
    PROVE  Led(l)'
  BY DEF vars, Led, Untried, Indexed, EngineFits, MessageFits, CallFits, Begins,
         HashChain, Linked

LEMMA AlwaysLed ==
    ASSUME NEW l \in Node, Electors \subseteq {l}, l \notin Mortal
    PROVE  Spec => []Led(l)
<1>1. Init => Led(l)
    BY InitLed
<1>2. TypeOK /\ Led(l) /\ [Next]_vars => Led(l)'
    BY NextLed, StutterLed
<1>. QED BY <1>1, <1>2, TypeCorrect, PTL DEF Spec

\* Where l alone may start an election and its process does not die, every log is
\* what l's log begins with, in any cluster, whatever is lost, delivered twice or
\* late, and whoever is stopped, started again or dies: so two logs that share an
\* entry agree up to it ...
THEOREM LogsMatch ==
    ASSUME NEW l \in Node, Electors \subseteq {l}, l \notin Mortal
    PROVE  Spec => []LogMatching
<1>1. TypeOK /\ Led(l) => LogMatching
  <2>1. SUFFICES ASSUME TypeOK, Led(l), NEW n \in Node, NEW p \in Node,
                        NEW i \in DOMAIN node[n].log \cap DOMAIN node[p].log
                 PROVE  SubSeq(node[n].log, 1, i) = SubSeq(node[p].log, 1, i)
    BY DEF LogMatching
  <2> DEFINE a == node[n].log
             b == node[p].log
             L == node[l].log
  <2>2. node[n] \in Engine /\ node[p] \in Engine
    BY <2>1 DEF TypeOK
  <2>3. a \in Seq(Entry) /\ b \in Seq(Entry) /\ i \in DOMAIN a /\ i \in DOMAIN b
    BY <2>1, <2>2 DEF Engine
  <2>4. Begins(a, L) /\ Begins(b, L)
    BY <2>1 DEF Led, EngineFits
  <2>. HIDE DEF a, b, L
  <2>5. Len(a) \in Nat /\ Len(b) \in Nat /\ i \in 1..Len(a) /\ i \in 1..Len(b)
    BY <2>3
  <2>6. \A j \in 1..i : a[j] = b[j]
    BY <2>4, <2>5 DEF Begins
  <2>7. SubSeq(a, 1, i) = SubSeq(b, 1, i)
    BY <2>3, <2>5, <2>6
  <2>. QED BY <2>7 DEF a, b
<1>. QED BY <1>1, AlwaysLed, TypeCorrect, PTL

\* ... every node applies the same command at the same index ...
THEOREM SameApplied ==
    ASSUME NEW l \in Node, Electors \subseteq {l}, l \notin Mortal
    PROVE  Spec => []StateMachineSafety
<1>1. Led(l) => StateMachineSafety
  <2> SUFFICES ASSUME Led(l), NEW n \in Node, NEW p \in Node,
                      NEW i \in DOMAIN node[n].done \cap DOMAIN node[p].done
               PROVE  node[n].done[i] = node[p].done[i]
      BY DEF StateMachineSafety
  <2>1. /\ \A j \in DOMAIN node[n].done : node[n].done[j] = {node[l].log[j].cmd}
        /\ \A j \in DOMAIN node[p].done : node[p].done[j] = {node[l].log[j].cmd}
      BY DEF Led, EngineFits
  <2>. QED BY <2>1
<1>. QED BY <1>1, AlwaysLed, PTL

\* ... and whoever follows holds an unbroken hash chain, though the leader's own
\* may be broken by proposals that overlap.
THEOREM ReceivedChained ==
    ASSUME NEW l \in Node, Electors \subseteq {l}, l \notin Mortal
    PROVE  Spec => []FollowersChained
<1>1. TypeOK /\ Led(l) => FollowersChained
  <2>1. SUFFICES ASSUME TypeOK, Led(l), NEW n \in Node, node[n].role = "follower"
                 PROVE  HashChain(node[n].log)
    BY DEF FollowersChained
  <2>2. CASE n # l
    BY <2>1, <2>2 DEF Led, EngineFits
  <2>3. CASE n = l
    <3>1. node[n].log = <<>>
      BY <2>1, <2>3 DEF Led, Untried
    <3>. QED BY <3>1 DEF HashChain
  <2>. QED BY <2>2, <2>3
<1>. QED BY <1>1, AlwaysLed, TypeCorrect, PTL

-----------------------------------------------------------------------------
(* Where no process dies, no log gets shorter, and an entry that l has     *)
(* counted copies of is in the logs of a majority, as is all that an       *)
(* engine, a call or a message takes for committed.                        *)

OnMajority(k) ==
    k = 0 \/ Cardinality({p \in Node : Len(node[p].log) >= k}) >= Majority

Copied(l) ==
    /\ \A n \in Node :
          /\ OnMajority(node[n].commit)
          /\ \A c \in node[n].calls : c.kind = "append" => OnMajority(c.commit)
    /\ \A m \in msgs :
          /\ m.type = "append" => OnMajority(m.commit)
          /\ m.type = "appended" => /\ m.from # l
                                    /\ m.ok => m.match <= Len(node[m.from].log)
    /\ \A p \in Node : node[l].match[p] <= Len(node[p].log)
    /\ node[l].match[l] = 0

\* Fewer entries are on no fewer nodes.
LEMMA OnMajorityBelow ==
    ASSUME TypeOK, NEW k \in Nat, NEW j \in Nat, OnMajority(k), j <= k
    PROVE  OnMajority(j)
<1> DEFINE A(x) == {p \in Node : Len(node[p].log) >= x}
<1>1. \A p \in Node : Len(node[p].log) \in Nat
    BY DEF TypeOK, Engine
<1>2. IsFiniteSet(A(j)) /\ A(k) \subseteq A(j)
    BY <1>1, RaftAssumption, FS_Subset
<1>3. Cardinality(A(k)) <= Cardinality(A(j))
    BY <1>2, FS_Subset
<1>4. Cardinality(A(k)) \in Nat /\ Cardinality(A(j)) \in Nat /\ Cardinality(Node) \in Nat
    BY <1>2, RaftAssumption, FS_Subset, FS_CardinalityType
<1>5. Majority \in Nat
    BY <1>4 DEF Majority
<1>6. k # 0 => Cardinality(A(k)) >= Majority
    BY DEF OnMajority
<1>7. j # 0 => k # 0
    OBVIOUS
<1>8. j # 0 => Cardinality(A(j)) >= Majority
    BY <1>3, <1>4, <1>5, <1>6, <1>7
<1>. QED BY <1>8 DEF OnMajority

\* Where logs have only grown, what a majority had it still has.
LEMMA OnMajorityStays ==
    ASSUME TypeOK, TypeOK', \A p \in Node : Len(node[p].log) <= Len(node'[p].log),
           NEW k \in Nat, OnMajority(k)
    PROVE  OnMajority(k)'
<1> DEFINE A == {p \in Node : Len(node[p].log) >= k}
           B == {p \in Node : Len(node'[p].log) >= k}
<1>1. \A p \in Node : Len(node[p].log) \in Nat /\ Len(node'[p].log) \in Nat
    BY DEF TypeOK, Engine
<1>2. IsFiniteSet(B) /\ A \subseteq B
    BY <1>1, RaftAssumption, FS_Subset
<1>3. Cardinality(A) <= Cardinality(B)
    BY <1>2, FS_Subset
<1>4. Cardinality(A) \in Nat /\ Cardinality(B) \in Nat /\ Cardinality(Node) \in Nat
    BY <1>2, RaftAssumption, FS_Subset, FS_CardinalityType
<1>5. Majority \in Nat
    BY <1>4 DEF Majority
<1>6. k # 0 => Cardinality(A) >= Majority
    BY DEF OnMajority
<1>7. k # 0 => Cardinality(B) >= Majority
    BY <1>3, <1>4, <1>5, <1>6
<1>. QED BY <1>7 DEF OnMajority, Majority

\* What one engine, set to s, and the messages sent have to satisfy.
SentFits(l, n, s, m) ==
    /\ m.type = "append" => OnMajority(m.commit)
    /\ m.type = "appended" => m.from = n /\ n # l /\ (m.ok => m.match <= Len(s.log))

LEMMA SetCopied ==
    ASSUME TypeOK, TypeOK', NEW l \in Node, Copied(l), NEW n \in Node, NEW s, Set(n, s),
           Len(node[n].log) <= Len(s.log), OnMajority(s.commit),
           \A c \in s.calls :
              c \in node[n].calls \/ (c.kind = "append" => OnMajority(c.commit)),
           n = l => /\ \A p \in Node : s.match[p] <= Len(node[p].log)
                    /\ s.match[l] = 0,
           \A m \in msgs' : m \in msgs \/ SentFits(l, n, s, m)
    PROVE  Copied(l)'
<1>1. node' = [node EXCEPT ![n] = s] /\ node \in [Node -> Engine] /\ node' \in [Node -> Engine]
    BY DEF Set, TypeOK
<1>2. node'[n] = s /\ \A x \in Node : x # n => node'[x] = node[x]
    BY <1>1
<1>3. \A x \in Node : /\ Len(node[x].log) \in Nat /\ Len(node'[x].log) \in Nat
                      /\ node[x].calls \subseteq Call /\ node'[x].calls \subseteq Call
                      /\ node[x].commit \in Nat /\ node'[x].commit \in Nat
                      /\ node'[x].match \in [Node -> Nat]
  <2>1. \A e \in Engine : /\ Len(e.log) \in Nat /\ e.calls \subseteq Call
                         /\ e.commit \in Nat /\ e.match \in [Node -> Nat]
    BY DEF Engine
  <2>. QED BY <1>1, <2>1
<1>4. \A x \in Node : Len(node[x].log) <= Len(node'[x].log)
    BY <1>2, <1>3
<1>5. \A k \in Nat : OnMajority(k) => OnMajority(k)'
    BY <1>4, OnMajorityStays
<1>6. ASSUME NEW x \in Node, NEW k \in Nat, k = node'[x].commit PROVE OnMajority(k)'
  <2>1. OnMajority(k)
    BY <1>2, <1>6 DEF Copied
  <2>. QED BY <1>5, <2>1
<1>7. ASSUME NEW x \in Node, NEW c \in node'[x].calls, c.kind = "append"
      PROVE  OnMajority(c.commit)'
  <2>1. OnMajority(c.commit)
    BY <1>2, <1>7 DEF Copied
  <2>2. c.commit \in Nat
    BY <1>3, <1>7 DEF Call, Elect, Lead
  <2>. QED BY <1>5, <2>1, <2>2
<1>8. ASSUME NEW m \in msgs', m.type = "append" PROVE OnMajority(m.commit)'
  <2>1. OnMajority(m.commit)
    BY <1>8 DEF Copied, SentFits
  <2>2. m.commit \in Nat
    BY <1>8 DEF TypeOK, Message
  <2>. QED BY <1>5, <2>1, <2>2
<1>9. ASSUME NEW m \in msgs', m.type = "appended"
      PROVE  m.from # l /\ (m.ok => m.match <= Len(node'[m.from].log))
  <2>1. m.from \in Node /\ m.match \in Nat
    BY <1>9 DEF TypeOK, Message
  <2>2. CASE m \in msgs
    <3>1. m.from # l /\ (m.ok => m.match <= Len(node[m.from].log))
      BY <1>9, <2>2 DEF Copied
    <3>2. Len(node[m.from].log) <= Len(node'[m.from].log)
      BY <1>4, <2>1
    <3>3. Len(node[m.from].log) \in Nat /\ Len(node'[m.from].log) \in Nat
      BY <1>3, <2>1
    <3>. QED BY <2>1, <3>1, <3>2, <3>3
  <2>3. CASE SentFits(l, n, s, m)
    BY <1>2, <1>9, <2>3 DEF SentFits
  <2>. QED BY <2>2, <2>3
<1>10. \A p \in Node : node'[l].match[p] <= Len(node[p].log)
    BY <1>2 DEF Copied
<1>11. ASSUME NEW p \in Node PROVE node'[l].match[p] <= Len(node'[p].log)
  <2>1. /\ node'[l].match[p] \in Nat /\ Len(node[p].log) \in Nat
        /\ Len(node'[p].log) \in Nat
    BY <1>3
  <2>. QED BY <1>4, <1>10, <2>1
<1>12. node'[l].match[l] = 0
    BY <1>2 DEF Copied
<1>13. \A x \in Node : OnMajority(node[x].commit)'
    BY <1>3, <1>6 DEF OnMajority
<1>. QED BY <1>7, <1>8, <1>9, <1>11, <1>12, <1>13 DEF Copied

\* s differs from s1 in nothing that Copied looks at, but for calls that end.
Level(s1, s) ==
    /\ s.log = s1.log /\ s.commit = s1.commit /\ s.match = s1.match
    /\ \A c \in s.calls : c \in s1.calls \/ c.kind # "append"

LEMMA LevelCopied ==
    ASSUME TypeOK, TypeOK', NEW l \in Node, Copied(l), NEW n \in Node, NEW s, Set(n, s),
           Level(node[n], s), \A m \in msgs' : m \in msgs \/ SentFits(l, n, s, m)
    PROVE  Copied(l)'
<1>1. node[n] \in Engine
    BY DEF TypeOK
<1>2. Len(node[n].log) \in Nat
    BY <1>1 DEF Engine
<1>3. Len(node[n].log) <= Len(s.log) /\ OnMajority(s.commit)
    BY <1>2 DEF Level, Copied
<1>4. \A c \in s.calls :
        c \in node[n].calls \/ (c.kind = "append" => OnMajority(c.commit))
    BY DEF Level
<1>5. n = l => (\A p \in Node : s.match[p] <= Len(node[p].log)) /\ s.match[l] = 0
    BY DEF Level, Copied
<1>. QED BY <1>3, <1>4, <1>5, SetCopied

LEMMA HeardTermLevel ==
    ASSUME TypeOK, NEW n \in Node, NEW t
    PROVE  Level(node[n], HeardTerm(node[n], t))
<1>1. node[n] \in Engine
    BY DEF TypeOK
<1>. QED BY <1>1 DEF Level, HeardTerm, BecomeFollower, Engine

LEMMA LevelTrans ==
    ASSUME NEW s1, NEW s2, NEW s3, Level(s1, s2), Level(s2, s3)
    PROVE  Level(s1, s3)
  BY DEF Level

\* Any stretch of code that leaves the engine level with what the message made it.
LEMMA HeardCopied ==
    ASSUME TypeOK, TypeOK', NEW l \in Node, Copied(l), NEW n \in Node, NEW t,
           NEW r, Set(n, r), Level(HeardTerm(node[n], t), r),
           \A x \in msgs' : x \in msgs \/ SentFits(l, n, r, x)
    PROVE  Copied(l)'
<1>1. Level(node[n], r)
    BY HeardTermLevel, LevelTrans
<1>. QED BY <1>1, LevelCopied

LEMMA AppendsCopied ==
    ASSUME NEW l, NEW n, NEW e, NEW s, OnMajority(s.commit)
    PROVE  \A m \in Appends(n, s) : SentFits(l, n, e, m)
  BY DEF Appends, SentFits

\* Elections, answers to them, ends of waits, stops and starts.
LEMMA QuietCopied ==
    ASSUME TypeOK, TypeOK', NEW l \in Node, Copied(l), NEW n \in Node,
           \/ StartElection(n) \/ FinishElection(n) \/ FinishLead(n)
           \/ Stop(n) \/ Start(n)
    PROVE  Copied(l)'
<1> DEFINE s == node[n]
<1>0. s \in Engine
    BY DEF TypeOK
<1>1. PICK r : Set(n, r) /\ Level(s, r)
  <2>1. CASE StartElection(n)
    <3> DEFINE calls == IF Wired THEN s.calls \cup {Elect} ELSE s.calls
               r == [s EXCEPT !.term = @ + 1, !.role = "candidate", !.voted = n,
                              !.votes = {n}, !.timer = FALSE, !.calls = calls]
    <3>1. Set(n, r)
      BY <2>1 DEF StartElection
    <3>2. \A c \in calls : c \in s.calls \/ c.kind # "append"
      BY DEF Elect
    <3>. HIDE DEF calls
    <3>3. Level(s, r)
      BY <1>0, <3>2 DEF Level, Engine
    <3>. QED BY <3>1, <3>3
  <2>2. CASE FinishElection(n)
    <3> DEFINE r == [s EXCEPT !.timer = s.up, !.calls = @ \ {Elect}]
    <3>1. Set(n, r)
      BY <2>2 DEF FinishElection
    <3>2. Level(s, r)
      BY <1>0 DEF Level, Engine
    <3>. QED BY <3>1, <3>2
  <2>3. CASE FinishLead(n)
    <3> DEFINE r == [s EXCEPT !.timer = FALSE, !.beat = TRUE, !.calls = @ \ {Lead}]
    <3>1. Set(n, r)
      BY <2>3 DEF FinishLead
    <3>2. Level(s, r)
      BY <1>0 DEF Level, Engine
    <3>. QED BY <3>1, <3>2
  <2>4. CASE Stop(n)
    <3> DEFINE r == [s EXCEPT !.up = FALSE, !.timer = FALSE, !.beat = FALSE]
    <3>1. Set(n, r)
      BY <2>4 DEF Stop
    <3>2. Level(s, r)
      BY <1>0 DEF Level, Engine
    <3>. QED BY <3>1, <3>2
  <2>5. CASE Start(n)
    <3> DEFINE r == [s EXCEPT !.up = TRUE, !.timer = TRUE]
    <3>1. Set(n, r)
      BY <2>5 DEF Start
    <3>2. Level(s, r)
      BY <1>0 DEF Level, Engine
    <3>. QED BY <3>1, <3>2
  <2>. QED BY <2>1, <2>2, <2>3, <2>4, <2>5
<1>2. \A m \in msgs' : m \in msgs \/ m.type = "vote?"
    BY DEF StartElection, FinishElection, FinishLead, Stop, Start, Fault
<1>. QED BY <1>1, <1>2, LevelCopied DEF SentFits

LEMMA HeartbeatCopied ==
    ASSUME TypeOK, TypeOK', NEW l \in Node, Copied(l), NEW n \in Node, Heartbeat(n)
    PROVE  Copied(l)'
<1>1. Set(n, node[n]) /\ Level(node[n], node[n])
    BY DEF Heartbeat, TypeOK, Set, Level
<1>2. OnMajority(node[n].commit)
    BY DEF Copied
<1>3. \A m \in msgs' : m \in msgs \/ SentFits(l, n, node[n], m)
    BY <1>2, AppendsCopied DEF Heartbeat
<1>. QED BY <1>1, <1>3, LevelCopied

LEMMA LoseCopied ==
    ASSUME TypeOK, TypeOK', NEW l \in Node, Copied(l), NEW m \in msgs, Lose(m)
    PROVE  Copied(l)'
<1>1. Set(l, node[l]) /\ Level(node[l], node[l])
    BY DEF Lose, TypeOK, Set, Level
<1>2. msgs' \subseteq msgs
    BY DEF Lose
<1>. QED BY <1>1, <1>2, LevelCopied

LEMMA HandleRequestVoteCopied ==
    ASSUME TypeOK, TypeOK', NEW l \in Node, Copied(l), NEW m \in msgs, NEW n \in Node,
           HandleRequestVote(n, m)
    PROVE  Copied(l)'
<1> DEFINE s == HeardTerm(node[n], m.term)
           g == [s EXCEPT !.voted = m.from, !.timer = TRUE]
<1>1. PICK r \in {g, s} : Set(n, r)
    BY DEF HandleRequestVote
<1>2. \A x \in msgs' : x \in msgs \/ x.type = "vote!"
    BY DEF HandleRequestVote, Left
<1>3. s \in Engine
    BY MessageFacts, Parts, HeardTermHealthy DEF Healthy
<1>. HIDE DEF s
<1>4. Level(s, g) /\ Level(s, s)
    BY <1>3 DEF Level, Engine
<1>. HIDE DEF g
<1>5. Level(s, r)
    BY <1>1, <1>4
<1>. QED BY <1>1, <1>2, <1>5, HeardCopied DEF s, SentFits

LEMMA HandleVoteResponseCopied ==
    ASSUME TypeOK, TypeOK', NEW l \in Node, Copied(l), NEW m \in msgs, NEW n \in Node,
           HandleVoteResponse(n, m)
    PROVE  Copied(l)'
<1> DEFINE s == HeardTerm(node[n], m.term)
           got == [s EXCEPT !.votes = @ \cup {m.from}]
           w == BecomeLeader(got)
<1>1. PICK r \in {w, got, s} : Set(n, r)
    BY DEF HandleVoteResponse
<1>2. msgs' \subseteq msgs
    BY DEF HandleVoteResponse, Left
<1>3. s \in Engine /\ m.from \in Node
    BY MessageFacts, Parts, HeardTermHealthy DEF Healthy
<1>4. Level(node[n], s)
    BY HeardTermLevel
<1>. HIDE DEF s
<1>5. Level(s, got) /\ Level(s, s) /\ got \in Engine
    BY <1>3 DEF Level, Engine
<1>. HIDE DEF got
<1>6. CASE r = w
  <2> DEFINE d == ProposeCall(got, Noop, TRUE)
  <2>1. d.kind = "propose"
    BY DEF ProposeCall
  <2>2. /\ w.log = got.log /\ w.commit = got.commit
        /\ w.match = [p \in Node |-> 0] /\ w.calls = got.calls \cup {d}
    BY <1>5 DEF BecomeLeader, Engine
  <2>. HIDE DEF w, d
  <2>3. node[n] \in Engine
    BY DEF TypeOK
  <2>4. \A p \in Node : Len(node[p].log) \in Nat
    BY DEF TypeOK, Engine
  <2>5. Level(node[n], got)
    BY <1>4, <1>5, LevelTrans
  <2>6. Len(node[n].log) <= Len(w.log) /\ OnMajority(w.commit)
    BY <2>2, <2>4, <2>5 DEF Level, Copied
  <2>7. \A c \in w.calls :
          c \in node[n].calls \/ (c.kind = "append" => OnMajority(c.commit))
    BY <2>1, <2>2, <2>5 DEF Level
  <2>8. (\A p \in Node : w.match[p] <= Len(node[p].log)) /\ w.match[l] = 0
    BY <2>2, <2>4
  <2>. QED BY <1>1, <1>2, <1>6, <2>6, <2>7, <2>8, SetCopied
<1>7. CASE r \in {got, s}
  <2>1. Level(s, r)
    BY <1>5, <1>7
  <2>. QED BY <1>1, <1>2, <2>1, HeardCopied DEF s
<1>. QED BY <1>1, <1>6, <1>7

LEMMA ProposeCopied ==
    ASSUME TypeOK, TypeOK', NEW l \in Node, Copied(l), NEW n \in Node, NEW cmd,
           Propose(n, cmd)
    PROVE  Copied(l)'
<1> DEFINE s == node[n]
           d == ProposeCall(s, cmd, FALSE)
           r == [s EXCEPT !.calls = @ \cup {d}]
<1>1. Set(n, r) /\ msgs' = msgs
    BY DEF Propose
<1>2. s \in Engine
    BY DEF TypeOK
<1>3. d.kind = "propose"
    BY DEF ProposeCall
<1>. HIDE DEF d
<1>4. Level(s, r)
    BY <1>2, <1>3 DEF Level, Engine
<1>. QED BY <1>1, <1>4, LevelCopied

LEMMA PushProposalCopied ==
    ASSUME TypeOK, TypeOK', NEW l \in Node, Copied(l), NEW n \in Node,
           NEW c \in node[n].calls, PushProposal(n, c)
    PROVE  Copied(l)'
<1> DEFINE s == node[n]
           e == [index |-> Len(s.log) + 1, term |-> s.term, cmd |-> c.cmd, prev |-> c.prev]
           calls == (s.calls \ {c}) \cup (IF c.leading THEN {Lead} ELSE {})
           r == [s EXCEPT !.log = Append(s.log, e), !.calls = calls]
<1>1. Set(n, r) /\ msgs' = msgs \cup Appends(n, r)
    BY DEF PushProposal
<1>2. s \in Engine /\ r \in Engine
  <2>1. node' = [node EXCEPT ![n] = r] /\ node \in [Node -> Engine]
    BY <1>1 DEF Set, TypeOK
  <2>2. node'[n] = r
    BY <2>1
  <2>. QED BY <2>1, <2>2 DEF TypeOK
<1>3. \A d \in calls : d \in s.calls \/ d.kind # "append"
    BY DEF Lead
<1>. HIDE DEF e, calls
<1>4. /\ r.log = Append(s.log, e) /\ r.commit = s.commit /\ r.match = s.match
      /\ r.calls = calls
    BY <1>2 DEF Engine
<1>5. s.log \in Seq(Entry) /\ r.log \in Seq(Entry)
    BY <1>2 DEF Engine
<1>. HIDE DEF r
<1>6. Len(s.log) <= Len(r.log)
    BY <1>4, <1>5
<1>7. OnMajority(r.commit)
    BY <1>4 DEF Copied
<1>8. \A m \in msgs' : m \in msgs \/ SentFits(l, n, r, m)
    BY <1>1, <1>7, AppendsCopied
<1>9. \A d \in r.calls :
        d \in node[n].calls \/ (d.kind = "append" => OnMajority(d.commit))
    BY <1>3, <1>4
<1>10. n = l => (\A p \in Node : r.match[p] <= Len(node[p].log)) /\ r.match[l] = 0
    BY <1>4 DEF Copied
<1>. QED BY <1>1, <1>6, <1>7, <1>8, <1>9, <1>10, SetCopied

\* The loop of _handleAppendEntries at a follower, whose log may just have grown.
LEMMA GoOnCopied ==
    ASSUME TypeOK, TypeOK', NEW l \in Node, Copied(l), NEW n \in Node, n # l,
           NEW s \in Engine, Indexed(s.log), Len(node[n].log) <= Len(s.log),
           OnMajority(s.commit),
           \A d \in s.calls : d \in node[n].calls \/ d.kind # "append",
           NEW c \in AppendCalls, OnMajority(c.commit),
           NEW ms, ms \subseteq msgs, GoOn(n, s, c, ms)
    PROVE  Copied(l)'
<1> DEFINE at == NextAt(c)
           last == LastIndex(s.log)
           k == IF c.commit <= last THEN c.commit ELSE last
           called == [c EXCEPT !.at = at]
           waiting == [s EXCEPT !.calls = @ \cup {called}]
           done == [i \in 1..k |-> IF i <= Len(s.done) THEN s.done[i]
                                   ELSE ApplyAt(s.log, i)]
<1>1. c.commit \in Nat /\ s.log \in Seq(Entry) /\ s.commit \in Nat
    BY DEF AppendCalls, Engine
<1>2. last = Len(s.log) /\ last \in Nat
    BY <1>1, LastIndexed
<1>. HIDE DEF last
<1>3. CASE at <= Len(c.log) /\ Chained(s.log, c.log[at])
  <2>1. Set(n, waiting) /\ msgs' = ms
    BY <1>3 DEF GoOn, last
  <2>. HIDE DEF at
  <2>2. called.commit = c.commit
    BY DEF AppendCalls
  <2>. HIDE DEF called
  <2>3. /\ waiting.log = s.log /\ waiting.commit = s.commit
        /\ waiting.calls = s.calls \cup {called}
    BY DEF Engine
  <2>. HIDE DEF waiting
  <2>4. \A d \in waiting.calls :
          d \in node[n].calls \/ (d.kind = "append" => OnMajority(d.commit))
    BY <2>2, <2>3
  <2>. QED BY <2>1, <2>3, <2>4, SetCopied
<1>4. CASE at <= Len(c.log) /\ ~Chained(s.log, c.log[at])
  <2>1. Set(n, s) /\ msgs' = ms \cup {Appended(n, c.from, s, FALSE, last)}
    BY <1>4 DEF GoOn, last
  <2>2. \A m \in msgs' : m \in msgs \/ SentFits(l, n, s, m)
    BY <2>1 DEF SentFits, Appended
  <2>. QED BY <2>1, <2>2, SetCopied
<1>5. CASE ~(at <= Len(c.log))
  <2> DEFINE r == IF c.commit > s.commit THEN CommitTo(s, k) ELSE s
  <2>1. /\ Set(n, r)
        /\ msgs' = ms \cup {Appended(n, c.from, s, TRUE, last)}
    BY <1>5 DEF GoOn, last
  <2>2. k \in Nat /\ OnMajority(k)
    BY <1>1, <1>2, OnMajorityBelow
  <2>. HIDE DEF k, done
  <2>3. CommitTo(s, k) \in {s, [s EXCEPT !.commit = k, !.done = done]}
    BY DEF CommitTo, done
  <2>4. /\ r.log = s.log /\ r.calls = s.calls
        /\ r.commit \in {s.commit, k}
    BY <2>3 DEF Engine
  <2>. HIDE DEF r
  <2>5. \A m \in msgs' : m \in msgs \/ SentFits(l, n, r, m)
    BY <1>2, <2>1, <2>4 DEF SentFits, Appended
  <2>6. OnMajority(r.commit)
    BY <2>2, <2>4
  <2>. QED BY <2>1, <2>4, <2>5, <2>6, SetCopied
<1>. QED BY <1>3, <1>4, <1>5

LEMMA AppendEntryCopied ==
    ASSUME TypeOK, TypeOK', NEW l \in Node, Led(l), Copied(l), NEW n \in Node,
           NEW c \in node[n].calls, AppendEntry(n, c)
    PROVE  Copied(l)'
<1> DEFINE s == node[n]
           L == node[l].log
           log == Put(s.log, c.log[c.at])
           put == [s EXCEPT !.log = log, !.calls = @ \ {c}]
<1>1. GoOn(n, put, c, msgs) /\ c.kind = "append"
    BY DEF AppendEntry
<1>2. s \in Engine /\ node[l] \in Engine
    BY DEF TypeOK
<1>3. s.log \in Seq(Entry) /\ s.calls \in SUBSET Call /\ L \in Seq(Entry)
    BY <1>2 DEF Engine
<1>4. c \in AppendCalls
    BY <1>1, <1>3 DEF Call, AppendCalls, Elect, Lead
<1>5. c.log \in Seq(Entry) /\ c.at \in DOMAIN c.log
    BY <1>1, <1>4 DEF AppendCalls, TypeOK
<1>6. /\ EngineFits(l, n, s, L, node[l].term) /\ Indexed(L)
      /\ OnMajority(s.commit) /\ OnMajority(c.commit)
    BY <1>1 DEF Led, Copied
<1>7. /\ n # l /\ Begins(c.log, L) /\ c.at <= Len(s.log) + 1
      /\ Linked(c.log, c.at)
    BY <1>1, <1>6 DEF EngineFits, CallFits
<1>8. Begins(s.log, L) /\ HashChain(s.log)
    BY <1>6, <1>7 DEF EngineFits
<1>9. log \in Seq(Entry) /\ Begins(log, L) /\ Len(s.log) <= Len(log)
    BY <1>3, <1>5, <1>6, <1>7, <1>8, PutBegins
<1>10. Indexed(log)
    BY <1>3, <1>6, <1>9, BeginsIndexed
<1>. HIDE DEF log
<1>11. put \in Engine
    BY <1>2, <1>9 DEF Engine
<1>12. put.log = log /\ put.commit = s.commit /\ put.calls \subseteq s.calls
    BY <1>2 DEF Engine
<1>. HIDE DEF put
<1>. QED BY <1>1, <1>4, <1>6, <1>7, <1>9, <1>10, <1>11, <1>12, GoOnCopied

LEMMA BecomeFollowerLevel ==
    ASSUME NEW s \in Engine, NEW t \in Nat
    PROVE  BecomeFollower(s, t) \in Engine /\ Level(s, BecomeFollower(s, t))
  BY DEF BecomeFollower, Engine, Level

LEMMA HandleAppendEntriesCopied ==
    ASSUME TypeOK, TypeOK', NEW l \in Node, Led(l), Copied(l), NEW m \in msgs,
           NEW n \in Node, m.type = "append", m.to = n, HandleAppendEntries(n, m)
    PROVE  Copied(l)'
<1> DEFINE heard == HeardTerm(node[n], m.term)
           timed == [heard EXCEPT !.timer = TRUE]
           s == SplitBrain(timed, m)
           f == BecomeFollower(s, m.term)
           c == AppendCall(m)
<1>1. n # l /\ OnMajority(m.commit)
    BY DEF Led, MessageFits, Copied
<1>2. /\ m.from \in Node /\ m.term \in Nat /\ m.prev \in Nat /\ m.commit \in Nat
      /\ m.log \in Seq(Entry)
    BY MessageFacts
<1>3. heard \in Engine /\ Level(node[n], heard)
    BY <1>2, Parts, HeardTermHealthy, HeardTermLevel DEF Healthy
<1>. HIDE DEF heard
<1>4. timed \in Engine /\ Level(heard, timed)
    BY <1>3 DEF Engine, Level
<1>. HIDE DEF timed
<1>5. s \in Engine /\ Level(timed, s)
  <2>1. timed.term + 1 \in Nat /\ Level(timed, timed)
    BY <1>4 DEF Engine, Level
  <2>. QED BY <1>4, <2>1, BecomeFollowerLevel DEF SplitBrain
<1>. HIDE DEF s
<1>6. f \in Engine /\ Level(s, f)
    BY <1>2, <1>5, BecomeFollowerLevel
<1>. HIDE DEF f
<1>7. Level(node[n], s) /\ Level(node[n], f)
    BY <1>3, <1>4, <1>5, <1>6, LevelTrans
<1>8. Left(m) \subseteq msgs
    BY DEF Left
<1>9. \A e, i : SentFits(l, n, e, Appended(n, m.from, e, FALSE, i))
    BY <1>1 DEF SentFits, Appended
<1>10. \/ Set(n, s) /\ msgs' = Left(m) \cup {Appended(n, m.from, s, FALSE, 0)}
       \/ /\ Set(n, f)
          /\ msgs' = Left(m) \cup {Appended(n, m.from, f, FALSE, LastIndex(f.log))}
       \/ GoOn(n, f, c, Left(m))
    BY DEF HandleAppendEntries, f, s, timed, heard
<1>11. CASE Set(n, s) /\ msgs' = Left(m) \cup {Appended(n, m.from, s, FALSE, 0)}
    BY <1>7, <1>8, <1>9, <1>11, LevelCopied
<1>12. CASE /\ Set(n, f)
            /\ msgs' = Left(m) \cup {Appended(n, m.from, f, FALSE, LastIndex(f.log))}
    BY <1>7, <1>8, <1>9, <1>12, LevelCopied
<1>13. CASE GoOn(n, f, c, Left(m))
  <2>1. c \in AppendCalls /\ c.commit = m.commit
    BY <1>2 DEF AppendCall, AppendCalls
  <2>. HIDE DEF c
  <2>2. node[l] \in Engine /\ node[n] \in Engine
    BY DEF TypeOK
  <2>3. node[l].log \in Seq(Entry) /\ node[n].log \in Seq(Entry)
    BY <2>2 DEF Engine
  <2>4. Begins(node[n].log, node[l].log) /\ Indexed(node[l].log)
    BY DEF Led, EngineFits
  <2>5. Indexed(f.log) /\ Len(node[n].log) <= Len(f.log)
    BY <1>7, <2>3, <2>4, BeginsIndexed DEF Level
  <2>6. OnMajority(f.commit)
    BY <1>7 DEF Level, Copied
  <2>7. \A d \in f.calls : d \in node[n].calls \/ d.kind # "append"
    BY <1>7 DEF Level
  <2>. QED BY <1>1, <1>6, <1>8, <1>13, <2>1, <2>5, <2>6, <2>7, GoOnCopied
<1>. QED BY <1>10, <1>11, <1>12, <1>13

\* What l counts as committable is in l's log and in those that answered for it.
LEMMA CommittableCopied ==
    ASSUME TypeOK, NEW l \in Node, NEW s \in Engine, s.log = node[l].log,
           Indexed(s.log), s.match[l] = 0,
           \A p \in Node : s.match[p] <= Len(node[p].log),
           NEW k \in Committable(s)
    PROVE  k \in Nat /\ OnMajority(k)
<1> DEFINE A == {p \in Node : s.match[p] >= k}
           B == {p \in Node : Len(node[p].log) >= k}
<1>1. /\ s.log \in Seq(Entry) /\ s.commit \in Nat /\ s.match \in [Node -> Nat]
      /\ \A p \in Node : Len(node[p].log) \in Nat
  <2>1. \A e \in Engine : e.log \in Seq(Entry)
    BY DEF Engine
  <2>2. \A p \in Node : Len(node[p].log) \in Nat
    BY <2>1 DEF TypeOK
  <2>. QED BY <2>2 DEF Engine
<1>2. LastIndex(s.log) = Len(s.log)
    BY <1>1, LastIndexed
<1>3. k \in Nat \ {0} /\ k <= Len(node[l].log)
    BY <1>1, <1>2 DEF Committable
<1>4. l \notin A /\ l \in B /\ A \subseteq B
    BY <1>1, <1>3
<1>5. IsFiniteSet(A) /\ IsFiniteSet(B)
    BY RaftAssumption, FS_Subset
<1>6. Cardinality(A \cup {l}) = Cardinality(A) + 1
    BY <1>4, <1>5, FS_AddElement
<1>7. Cardinality(A \cup {l}) <= Cardinality(B)
    BY <1>4, <1>5, FS_Subset
<1>8. 1 + Cardinality(A) >= Majority
    BY DEF Committable
<1>9. Cardinality(A) \in Nat /\ Cardinality(B) \in Nat /\ Cardinality(Node) \in Nat
    BY <1>5, RaftAssumption, FS_CardinalityType
<1>10. Majority \in Nat
    BY <1>9 DEF Majority
<1>. HIDE DEF A
<1>11. Cardinality(B) >= Majority
    BY <1>6, <1>7, <1>8, <1>9, <1>10
<1>. QED BY <1>3, <1>11 DEF OnMajority

LEMMA HandleAppendResponseCopied ==
    ASSUME TypeOK, TypeOK', NEW l \in Node, Led(l), Copied(l), NEW m \in msgs,
           NEW n \in Node, m.type = "appended", HandleAppendResponse(n, m)
    PROVE  Copied(l)'
<1> DEFINE s == HeardTerm(node[n], m.term)
           back == [s EXCEPT !.next[m.from] = IF @ = 0 THEN 0 ELSE @ - 1]
           taken == [s EXCEPT !.match[m.from] = m.match, !.next[m.from] = m.match]
           some == Committable(taken)
<1>1. m.from \in Node /\ m.match \in Nat
    BY MessageFacts
<1>2. s \in Engine /\ Level(node[n], s) /\ (s.role = "leader" => s = node[n])
    BY MessageFacts, Parts, HeardTermHealthy, HeardTermLevel DEF Healthy
<1>3. msgs' \subseteq msgs
    BY DEF HandleAppendResponse, Left
<1>4. /\ s.role # "leader" => Set(n, s)
      /\ s.role = "leader" /\ ~m.ok => Set(n, back)
      /\ s.role = "leader" /\ m.ok /\ some = {} => Set(n, taken)
      /\ s.role = "leader" /\ m.ok /\ some # {} => \E k \in some : Set(n, CommitTo(taken, k))
    BY DEF HandleAppendResponse
<1>. HIDE DEF s
<1>5. CASE s.role # "leader" \/ ~m.ok
  <2>1. Level(s, back) /\ Level(s, s)
    BY <1>1, <1>2 DEF Level, Engine
  <2>. HIDE DEF back
  <2>2. PICK r \in {back, s} : Set(n, r)
    BY <1>4, <1>5
  <2>3. Level(s, r)
    BY <2>1, <2>2
  <2>. QED BY <1>3, <2>2, <2>3, HeardCopied DEF s
<1>6. CASE s.role = "leader" /\ m.ok
  <2>1. n = l /\ s = node[l]
    BY <1>2, <1>6, OthersFollow
  <2>2. /\ taken \in Engine /\ taken.log = s.log /\ taken.commit = s.commit
        /\ taken.calls = s.calls /\ taken.match = [s.match EXCEPT ![m.from] = m.match]
    BY <1>1, <1>2 DEF Engine
  <2>. HIDE DEF taken, some, back
  <2>3. \A p \in Node : taken.match[p] <= Len(node[p].log)
    <3>1. m.match <= Len(node[m.from].log)
      BY <1>6 DEF Copied
    <3>2. \A p \in Node : s.match[p] <= Len(node[p].log)
      BY <2>1 DEF Copied
    <3>3. s.match \in [Node -> Nat]
      BY <1>2 DEF Engine
    <3>. QED BY <2>2, <3>1, <3>2, <3>3
  <2>4. taken.match[l] = 0
    <3>1. m.from # l /\ s.match[l] = 0
      BY <2>1 DEF Copied
    <3>2. s.match \in [Node -> Nat]
      BY <1>2 DEF Engine
    <3>. QED BY <2>2, <3>1, <3>2
  <2>5. PICK r : /\ Set(n, r) /\ r.log = s.log /\ r.calls = s.calls
                 /\ r.match = taken.match /\ OnMajority(r.commit)
    <3>1. CASE some = {}
      <4>1. OnMajority(taken.commit)
        BY <2>1, <2>2 DEF Copied
      <4>. QED BY <1>4, <1>6, <2>2, <3>1, <4>1
    <3>2. CASE some # {}
      <4>1. PICK k \in some : Set(n, CommitTo(taken, k))
        BY <1>4, <1>6, <3>2
      <4>2. Indexed(taken.log) /\ taken.log = node[l].log
        BY <2>1, <2>2 DEF Led
      <4>3. k \in Nat /\ OnMajority(k)
        BY <2>2, <2>3, <2>4, <4>2, CommittableCopied DEF some
      <4> DEFINE r == CommitTo(taken, k)
                 done == [i \in 1..k |-> IF i <= Len(taken.done) THEN taken.done[i]
                                         ELSE ApplyAt(taken.log, i)]
      <4>4. r \in {taken, [taken EXCEPT !.commit = k, !.done = done]}
        BY DEF CommitTo
      <4>. HIDE DEF r, done
      <4>5. /\ r.log = taken.log /\ r.calls = taken.calls /\ r.match = taken.match
            /\ r.commit \in {taken.commit, k}
        BY <2>2, <4>4 DEF Engine
      <4>6. OnMajority(taken.commit)
        BY <2>1, <2>2 DEF Copied
      <4>7. OnMajority(r.commit)
        BY <4>3, <4>5, <4>6
      <4>8. Set(n, r)
        BY <4>1 DEF r
      <4>. QED BY <2>2, <4>5, <4>7, <4>8
    <3>. QED BY <3>1, <3>2
  <2>6. node[n] \in Engine
    BY DEF TypeOK
  <2>7. Len(node[n].log) <= Len(r.log)
    BY <2>1, <2>5, <2>6 DEF Engine
  <2>8. \A c \in r.calls :
          c \in node[n].calls \/ (c.kind = "append" => OnMajority(c.commit))
    BY <2>1, <2>5
  <2>. QED BY <1>3, <2>3, <2>4, <2>5, <2>7, <2>8, SetCopied
<1>. QED BY <1>5, <1>6

LEMMA NextCopied ==
    ASSUME TypeOK, NEW l \in Node, Led(l), Copied(l), Mortal = {}, Next
    PROVE  Copied(l)'
<1>1. TypeOK'
    BY NextKeeps
<1>2. ASSUME NEW n \in Node,
             \/ StartElection(n) \/ FinishElection(n) \/ FinishLead(n) \/ Heartbeat(n)
             \/ Stop(n) \/ Start(n)
      PROVE  Copied(l)'
    BY <1>1, <1>2, QuietCopied, HeartbeatCopied
<1>3. ASSUME NEW n \in Node, NEW cmd \in Cmd, Propose(n, cmd)
      PROVE  Copied(l)'
    BY <1>1, <1>3, ProposeCopied
<1>4. ASSUME NEW n \in Node, NEW c \in node[n].calls,
             PushProposal(n, c) \/ AppendEntry(n, c)
      PROVE  Copied(l)'
    BY <1>1, <1>4, PushProposalCopied, AppendEntryCopied
<1>5. ASSUME NEW m \in msgs, Deliver(m) PROVE Copied(l)'
  <2>1. m.to \in Node
    BY MessageFacts
  <2>. QED BY <1>1, <1>5, <2>1, HandleRequestVoteCopied, HandleVoteResponseCopied,
              HandleAppendEntriesCopied, HandleAppendResponseCopied DEF Deliver
<1>6. ASSUME NEW m \in msgs, Lose(m) PROVE Copied(l)'
    BY <1>1, <1>6, LoseCopied
<1>. QED BY <1>2, <1>3, <1>4, <1>5, <1>6 DEF Next, Crash

LEMMA InitCopied == ASSUME NEW l \in Node, Init PROVE Copied(l)
<1>1. /\ Fresh.log = <<>> /\ Fresh.commit = 0 /\ Fresh.calls = {}
      /\ Fresh.match = [p \in Node |-> 0]
    BY DEF Fresh
<1>2. msgs = {} /\ \A n \in Node : node[n] = Fresh
    BY DEF Init
<1>. QED BY <1>1, <1>2 DEF Copied, OnMajority

\* Where, besides, no process dies, whatever any node has applied is in the logs of
\* a majority, although match indices are taken from answers that may be late or
\* delivered twice, and a commit index from messages older than the log they meet.
THEOREM AppliedOnMajority ==
    ASSUME NEW l \in Node, Electors \subseteq {l}, Mortal = {}
    PROVE  Spec => []CommittedOnMajority
<1>1. Init => Copied(l)
    BY InitCopied
<1>2. TypeOK /\ Led(l) /\ Copied(l) /\ [Next]_vars => Copied(l)'
    BY NextCopied DEF vars, Copied, OnMajority, Majority
<1>3. TypeOK /\ Led(l) /\ Copied(l) => CommittedOnMajority
  <2>1. SUFFICES ASSUME TypeOK, Led(l), Copied(l), NEW n \in Node,
                        NEW i \in DOMAIN node[n].done
                 PROVE  Cardinality({p \in Node :
                            /\ i \in DOMAIN node[p].log
                            /\ {node[p].log[i].cmd} = node[n].done[i]}) >= Majority
    BY DEF CommittedOnMajority
  <2> DEFINE L == node[l].log
             k == node[n].commit
             A == {p \in Node : Len(node[p].log) >= k}
             B == {p \in Node : /\ i \in DOMAIN node[p].log
                                /\ {node[p].log[i].cmd} = node[n].done[i]}
  <2>2. \A e \in Engine : /\ e.log \in Seq(Entry) /\ Len(e.log) \in Nat
                          /\ e.done \in Seq(SUBSET Command) /\ e.commit \in Nat
    BY DEF Engine
  <2>3. /\ node[n].done \in Seq(SUBSET Command) /\ k \in Nat /\ Len(node[n].done) = k
        /\ \A p \in Node : node[p].log \in Seq(Entry) /\ Len(node[p].log) \in Nat
    BY <2>1, <2>2 DEF TypeOK
  <2>4. i \in 1..k
    BY <2>3
  <2>5. node[n].done[i] = {L[i].cmd}
    BY <2>1 DEF Led, EngineFits
  <2>6. ASSUME NEW p \in A PROVE p \in B
    <3>1. i \in 1..Len(node[p].log)
      BY <2>3, <2>4
    <3>2. Begins(node[p].log, L)
      BY <2>1 DEF Led, EngineFits
    <3>3. node[p].log[i] = L[i]
      BY <3>1, <3>2 DEF Begins
    <3>4. i \in DOMAIN node[p].log
      BY <2>3, <3>1
    <3>. QED BY <2>5, <3>3, <3>4
  <2>7. IsFiniteSet(A) /\ IsFiniteSet(B)
    BY RaftAssumption, FS_Subset
  <2>8. Cardinality(A) <= Cardinality(B)
    BY <2>6, <2>7, FS_Subset
  <2>9. Cardinality(A) \in Nat /\ Cardinality(B) \in Nat /\ Cardinality(Node) \in Nat
    BY <2>7, RaftAssumption, FS_CardinalityType
  <2>10. Majority \in Nat
    BY <2>9 DEF Majority
  <2>11. Cardinality(A) >= Majority
    BY <2>1, <2>4 DEF Copied, OnMajority
  <2>. HIDE DEF A
  <2>12. Cardinality(B) >= Majority
    BY <2>8, <2>9, <2>10, <2>11
  <2>. QED BY <2>12
<1>4. Spec => []Led(l)
    BY AlwaysLed
<1>. QED BY <1>1, <1>2, <1>3, <1>4, TypeCorrect, PTL DEF Spec
=============================================================================
