---------------------------- MODULE MCEventually ----------------------------
(***************************************************************************)
(* Instances of Discovery and Raft for TLC, under fairness.  A behaviour   *)
(* runs one of them, `scene`; the variables of the other module keep their *)
(* values.                                                                 *)
(***************************************************************************)
EXTENDS Naturals

CONSTANTS n1, n2, n3, a1, a2, Absent, Off, c1, NoNode, Noop

VARIABLES scene,
          at, frozen, table, call, probes, leaving, gossipLeft, healthLeft, swept, gone,
          node, msgs, asked, faults, ballots

discoveryVars ==
    <<at, frozen, table, call, probes, leaving, gossipLeft, healthLeft, swept, gone>>
raftVars == <<node, msgs, asked, faults, ballots>>
vars == <<scene, discoveryVars, raftVars>>

\* Two nodes, one of which crashes and starts again, one of which is suspended.
Reunion == INSTANCE Discovery WITH
    Node <- {n1, n2}, Addr <- {a1, a2},
    Homes <- [n \in {n1, n2} |-> IF n = n1 THEN {a1} ELSE {a2}],
    Subnet <- [n \in {n1, n2} |-> {a1, a2}], Announced <- [n \in {n1, n2} |-> {}],
    P2P <- {}, DeadAge <- 3, RepMax <- 2, RepNew <- 1, RepHearsay <- 1,
    SeenBonus <- 1, DeadPenalty <- 1, HealthPerTick <- 2, SweepTTL <- 2, LongTTL <- 2,
    Lossy <- FALSE, MayCrash <- {n1}, MayLeave <- {}, MayFreeze <- {n2}

Nodes == {n1, n2, n3}

\* Three nodes, one election, no message lost, a proposal only while the leader
\* waits for nothing (MaxCalls = 1).
Cluster == INSTANCE Raft WITH
    Node <- Nodes, Cmd <- {c1}, Wired <- TRUE, Lossy <- FALSE, Duplicates <- FALSE,
    Electors <- {n1}, Unsteady <- {}, Mortal <- {},
    MaxTerm <- 1, MaxFlight <- 1, MaxCalls <- 1, MaxFaults <- 0

Init ==
    /\ scene \in {"reunion", "cluster"}
    /\ Cluster!Init /\ Reunion!Init

Next ==
    /\ scene' = scene
    /\ \/ scene = "reunion" /\ Reunion!Next /\ UNCHANGED raftVars
       \/ scene = "cluster" /\ Cluster!Next /\ UNCHANGED discoveryVars

\* The fairness of the two modules.
Fairness ==
    /\ WF_discoveryVars(scene = "reunion" /\ Reunion!Tick)
    /\ \A n \in {n1, n2} :
        /\ WF_discoveryVars(scene = "reunion" /\ Reunion!Works(n))
        /\ WF_discoveryVars(scene = "reunion" /\ \E m \in {n1, n2}, a \in {a1, a2} :
                                                    Reunion!Sweep(n, m, a))
        /\ \A p \in {n1, n2} \ {n} :
              SF_discoveryVars(scene = "reunion" /\ Reunion!GossipWith(n, p))
    \* Only n1 stands for election, leads and proposes; the others append.
    /\ \A n \in {n1} :
        /\ WF_raftVars(scene = "cluster" /\ Cluster!StartElection(n))
        /\ WF_raftVars(scene = "cluster" /\ Cluster!FinishElection(n))
        /\ WF_raftVars(scene = "cluster" /\ Cluster!FinishLead(n))
        /\ WF_raftVars(scene = "cluster" /\ Cluster!Heartbeat(n))
        /\ WF_raftVars(scene = "cluster" /\ \E c \in node[n].calls : Cluster!PushProposal(n, c))
    /\ \A n \in Nodes \ {n1} :
        /\ WF_raftVars(scene = "cluster" /\ \E c \in node[n].calls : Cluster!AppendEntry(n, c))
    /\ \A n \in Nodes :
        /\ WF_raftVars(scene = "cluster" /\ \E m \in msgs : m.to = n /\ Cluster!Deliver(m))

Spec == Init /\ [][Next]_vars /\ Fairness

-----------------------------------------------------------------------------
Together == scene = "reunion" /\ \A n \in {n1, n2} : Reunion!Awake(n)

\* Discovery: once every node stays awake, each ends up counting every other as
\* alive, whatever happened before ("5 dk sonra yeniden duyur - resurrection kapisi").
Reunited ==
    <>[]Together => /\ []<>(n1 \in Reunion!AliveIn(table[n2]))
                    /\ []<>(n2 \in Reunion!AliveIn(table[n1]))

\* Discovery: a node that is gone for good stops counting as alive everywhere.
DeadForgotten ==
    \A p \in {n1, n2} :
        <>[](scene = "reunion" /\ ~Reunion!Awake(p)) =>
            <>[](\A n \in {n1, n2} : p \notin Reunion!AliveIn(table[n]))

\* Raft: a leader is elected whose no-op everybody applies, and what a leader has
\* taken on is applied everywhere ("komut cogunlukla commit edilir").
AppliedAtLast ==
    /\ scene = "cluster" ~> \A n \in Nodes : Cluster!Applied(n, Noop)
    /\ c1 \in asked ~> \A n \in Nodes : Cluster!Applied(n, c1)
=============================================================================
