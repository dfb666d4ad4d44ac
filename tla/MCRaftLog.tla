----------------------------- MODULE MCRaftLog -----------------------------
(***************************************************************************)
(* Two instances of Raft for TLC, about the log.  A behaviour runs one of  *)
(* them, `scene`.  What RaftProofs proves of Raft holds of both, and so of  *)
(* this module's specification.                                            *)
(***************************************************************************)
EXTENDS Naturals, Sequences, TLAPS

CONSTANTS n1, n2, n3, c1, NoNode, Noop

ASSUME LogAssumption == NoNode \notin {n1, n2, n3} /\ Noop # c1

VARIABLES scene, node, msgs, asked, faults, ballots

vars == <<scene, node, msgs, asked, faults, ballots>>

\* Two nodes, one elected once: heartbeats, messages lost and duplicated, a stop.
Pair == INSTANCE RaftProofs WITH
    Node <- {n1, n2}, Cmd <- {c1}, Wired <- TRUE, Lossy <- TRUE, Duplicates <- TRUE,
    Electors <- {n1}, Unsteady <- {n1, n2}, Mortal <- {},
    MaxTerm <- 1, MaxFlight <- 2, MaxCalls <- 2, MaxFaults <- 1

\* Three nodes, one elected once, a proposal that may overlap the no-op, messages
\* lost, the leader stopped and started.
Triple == INSTANCE RaftProofs WITH
    Node <- {n1, n2, n3}, Cmd <- {c1}, Wired <- TRUE, Lossy <- TRUE, Duplicates <- FALSE,
    Electors <- {n1}, Unsteady <- {n1}, Mortal <- {},
    MaxTerm <- 1, MaxFlight <- 0, MaxCalls <- 3, MaxFaults <- 1

Init == \/ scene = "pair" /\ Pair!Init
        \/ scene = "triple" /\ Triple!Init

Next == /\ scene' = scene
        /\ \/ scene = "pair" /\ Pair!Next
           \/ scene = "triple" /\ Triple!Next

Spec == Init /\ [][Next]_vars

-----------------------------------------------------------------------------
\* The instances' properties of the same names: logs that have an entry of the
\* same term at an index agree up to it (Raft.LogMatching).
LogMatching == IF scene = "pair" THEN Pair!LogMatching ELSE Triple!LogMatching

\* What any node has applied is in the logs of a majority (Raft.CommittedOnMajority).
CommittedOnMajority ==
    IF scene = "pair" THEN Pair!CommittedOnMajority ELSE Triple!CommittedOnMajority

\* The logs that were received are hash chains (Raft.FollowersChained).
FollowersChained == IF scene = "pair" THEN Pair!FollowersChained ELSE Triple!FollowersChained

\* Every node applies the same command at the same index (Raft.StateMachineSafety).
StateMachineSafety ==
    IF scene = "pair" THEN Pair!StateMachineSafety ELSE Triple!StateMachineSafety

-----------------------------------------------------------------------------
InPair == scene = "pair"

LEMMA PairFits == Pair!RaftAssumption /\ n1 \in {n1, n2}
<1> DEFINE q == <<n1, n2>>
<1>1. q \in Seq({n1, n2}) /\ Len(q) = 2 /\ q[1] = n1 /\ q[2] = n2
    OBVIOUS
<1>. HIDE DEF q
<1>2. Pair!IsFiniteSet({n1, n2})
    BY <1>1 DEF Pair!IsFiniteSet
<1>. QED BY <1>2, LogAssumption DEF Pair!RaftAssumption

LEMMA TripleFits == Triple!RaftAssumption /\ n1 \in {n1, n2, n3}
<1> DEFINE q == <<n1, n2, n3>>
<1>1. q \in Seq({n1, n2, n3}) /\ Len(q) = 3 /\ q[1] = n1 /\ q[2] = n2 /\ q[3] = n3
    OBVIOUS
<1>. HIDE DEF q
<1>2. Triple!IsFiniteSet({n1, n2, n3})
    BY <1>1 DEF Triple!IsFiniteSet
<1>. QED BY <1>2, LogAssumption DEF Triple!RaftAssumption

\* A behaviour is one of Raft, in one instance or the other.
LEMMA OneRuns ==
    Spec => ([]InPair /\ Pair!Spec) \/ ([](~InPair) /\ Triple!Spec)
<1>1. Init => (InPair /\ Pair!Init) \/ (~InPair /\ Triple!Init)
    BY DEF Init, InPair
<1>2. InPair /\ [Next]_vars => InPair' /\ [Pair!Next]_Pair!vars
    BY DEF Next, vars, Pair!vars, InPair
<1>3. ~InPair /\ [Next]_vars => ~InPair' /\ [Triple!Next]_Triple!vars
    BY DEF Next, vars, Triple!vars, InPair
<1>. QED BY <1>1, <1>2, <1>3, PTL DEF Spec, Pair!Spec, Triple!Spec

\* Logs that share an entry agree up to it.
THEOREM LogsMatch == Spec => []LogMatching
<1>1. Pair!Spec => []Pair!LogMatching
    BY PairFits, Pair!LogsMatch DEF Pair!RaftAssumption
<1>2. Triple!Spec => []Triple!LogMatching
    BY TripleFits, Triple!LogsMatch DEF Triple!RaftAssumption
<1>3. /\ InPair /\ Pair!LogMatching => LogMatching
      /\ ~InPair /\ Triple!LogMatching => LogMatching
    BY DEF LogMatching, InPair
<1>. QED BY <1>1, <1>2, <1>3, OneRuns, PTL

\* What has been applied is in the logs of a majority.
THEOREM AppliedOnMajority == Spec => []CommittedOnMajority
<1>1. Pair!Spec => []Pair!CommittedOnMajority
    BY PairFits, Pair!AppliedOnMajority DEF Pair!RaftAssumption
<1>2. Triple!Spec => []Triple!CommittedOnMajority
    BY TripleFits, Triple!AppliedOnMajority DEF Triple!RaftAssumption
<1>3. /\ InPair /\ Pair!CommittedOnMajority => CommittedOnMajority
      /\ ~InPair /\ Triple!CommittedOnMajority => CommittedOnMajority
    BY DEF CommittedOnMajority, InPair
<1>. QED BY <1>1, <1>2, <1>3, OneRuns, PTL

\* The logs that were received are hash chains.
THEOREM ReceivedChained == Spec => []FollowersChained
<1>1. Pair!Spec => []Pair!FollowersChained
    BY PairFits, Pair!ReceivedChained DEF Pair!RaftAssumption
<1>2. Triple!Spec => []Triple!FollowersChained
    BY TripleFits, Triple!ReceivedChained DEF Triple!RaftAssumption
<1>3. /\ InPair /\ Pair!FollowersChained => FollowersChained
      /\ ~InPair /\ Triple!FollowersChained => FollowersChained
    BY DEF FollowersChained, InPair
<1>. QED BY <1>1, <1>2, <1>3, OneRuns, PTL

\* Every node applies the same command at the same index.
THEOREM SameApplied == Spec => []StateMachineSafety
<1>1. Pair!Spec => []Pair!StateMachineSafety
    BY PairFits, Pair!SameApplied DEF Pair!RaftAssumption
<1>2. Triple!Spec => []Triple!StateMachineSafety
    BY TripleFits, Triple!SameApplied DEF Triple!RaftAssumption
<1>3. /\ InPair /\ Pair!StateMachineSafety => StateMachineSafety
      /\ ~InPair /\ Triple!StateMachineSafety => StateMachineSafety
    BY DEF StateMachineSafety, InPair
<1>. QED BY <1>1, <1>2, <1>3, OneRuns, PTL
=============================================================================
