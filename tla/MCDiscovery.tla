---------------------------- MODULE MCDiscovery ----------------------------
(***************************************************************************)
(* Instances of Discovery for TLC: every node has an endpoint of its own.  *)
(***************************************************************************)
EXTENDS Discovery

CONSTANTS n1, n2, n3, a1, a2, a3

Apart    == [n \in Node |-> IF n = n1 THEN {a1} ELSE IF n = n2 THEN {a2} ELSE {a3}]
All      == [n \in Node |-> Addr]
Chain    == [n \in Node |-> IF n = n1 THEN {a2} ELSE IF n = n2 THEN {a3} ELSE {}]
Nowhere  == [n \in Node |-> {}]

\* The fairness the chain needs: time passes, the sweep comes round, and of the
\* random choices of the gossip rounds only that n1 asks n2 again and again.
ChainSpec ==
    /\ Spec
    /\ WF_vars(Tick \/ \E n \in Node : Works(n))
    /\ WF_vars(\E n, m \in Node, a \in Addr : Sweep(n, m, a))
    /\ SF_vars(GossipWith(n1, n2))

\* n3 is in nobody's sweep but n2's, and n2 in n1's (Chain): n1 gets to know n3
\* from n2 alone, and keeps counting it as alive ("A -> B -> C, A eventually C'yi
\* ogrenir").
HearsAtLast == <>[](\A n \in Node : Awake(n)) => []<>(n3 \in AliveIn(table[n1]))
=============================================================================
