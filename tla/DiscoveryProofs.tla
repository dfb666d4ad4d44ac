-------------------------- MODULE DiscoveryProofs --------------------------
(***************************************************************************)
(* Proofs about Discovery, for any sets of nodes and endpoints and any     *)
(* reputations and thresholds.  TypeCorrect and NodesNeverListThemselves   *)
(* need no further assumption; SightingsAreTrue assumes that no endpoint   *)
(* passes from one node to another (NoHandover): the run Discovery_ghost   *)
(* shows what happens otherwise.                                           *)
(***************************************************************************)
EXTENDS Discovery, TLAPS

----------------------------------------------------------------------------
(* What the operations of the peer table return *)

\* An upsert leaves a well-formed record.
LEMMA UpdatedType ==
    ASSUME NEW old \in Record \cup {Absent}, NEW addr \in Addr, NEW age \in 0..DeadAge,
           NEW rep \in 0..RepMax \cup {Absent}
    PROVE  Updated(old, addr, age, rep) \in Record
  <1> USE PeerTableAssumption
  <1>1. CASE old = Absent
    BY <1>1 DEF Updated, Record
  <1>2. CASE old # Absent
    <2>1. old \in Record BY <1>2
    <2>2. Smaller(age, old.age) \in 0..DeadAge BY <2>1 DEF Smaller, Record
    <2>3. [old EXCEPT !.age = Smaller(age, old.age)] \in Record BY <2>1, <2>2 DEF Record
    <2> QED BY <1>2, <2>1, <2>2, <2>3 DEF Updated, Record
  <1> QED BY <1>1, <1>2

\* Every operation of the table returns a table.
LEMMA TableOps ==
    ASSUME NEW T \in Table, NEW p \in Node
    PROVE  /\ \A a \in Addr : Upsert(T, p, a, 0, Absent) \in Table /\ Added(T, p, a) \in Table
           /\ MarkSeen(T, p) \in Table
           /\ MarkDead(T, p) \in Table
           /\ Remove(T, p) \in Table
           /\ Aged(T) \in Table
           /\ \A m \in Node, a \in Addr : HandshakeTable(T, m, p, a) \in Table
  <1> USE PeerTableAssumption
  <1>0. 0 \in 0..DeadAge OBVIOUS
  <1>1. \A q \in Node : T[q] \in Record \cup {Absent} BY DEF Table
  <1>2. ASSUME NEW a \in Addr PROVE Upsert(T, p, a, 0, Absent) \in Table
    <2>1. Updated(T[p], a, 0, Absent) \in Record BY <1>0, <1>1, UpdatedType
    <2> QED BY <2>1 DEF Upsert, Table
  <1>3. MarkSeen(T, p) \in Table
    <2>1. CASE T[p] = Absent BY <2>1 DEF MarkSeen
    <2>2. CASE T[p] # Absent
      <3>1. T[p] \in Record BY <1>1, <2>2
      <3>2. Smaller(RepMax, T[p].rep + SeenBonus) \in 0..RepMax BY <3>1 DEF Smaller, Record
      <3>3. [T[p] EXCEPT !.age = 0, !.rep = Smaller(RepMax, T[p].rep + SeenBonus)] \in Record
        BY <1>0, <3>1, <3>2 DEF Record
      <3> QED BY <2>2, <3>3 DEF MarkSeen, Table
    <2> QED BY <2>1, <2>2
  <1>4. MarkDead(T, p) \in Table
    <2>1. CASE T[p] = Absent BY <2>1 DEF MarkDead
    <2>2. CASE T[p] # Absent
      <3>1. T[p] \in Record BY <1>1, <2>2
      <3>2. [T[p] EXCEPT !.rep = IF T[p].rep > DeadPenalty THEN T[p].rep - DeadPenalty ELSE 0]
                \in Record
        BY <3>1 DEF Record
      <3> QED BY <2>2, <3>2 DEF MarkDead, Table
    <2> QED BY <2>1, <2>2
  <1>5. Remove(T, p) \in Table BY DEF Remove, Table
  <1>6. Aged(T) \in Table
    <2>1. ASSUME NEW q \in Node, T[q] # Absent
          PROVE [T[q] EXCEPT !.age = Older(T[q].age)] \in Record
      <3>1. T[q] \in Record BY <1>1, <2>1
      <3> QED BY <3>1 DEF Record, Older, Smaller
    <2> QED BY <2>1 DEF Aged, Table
  <1> QED BY <1>2, <1>3, <1>4, <1>5, <1>6 DEF Added, HandshakeTable

\* What a node tells others, and what others make of it, is well formed.
LEMMA HearsayType ==
    ASSUME NEW T \in Table, NEW n \in Node, NEW m \in Node
    PROVE  /\ Sightings(T, m, n) \in Heard
           /\ \A c \in Call : c.reply # Absent => Learned(T, n, c) \in Table
  <1> USE PeerTableAssumption
  <1>1. Sightings(T, m, n) \in Heard
    <2>1. ASSUME NEW p \in Node, p \in AliveIn(T)
          PROVE [addr |-> T[p].addr, age |-> T[p].age] \in [addr : Addr, age : 0..DeadAge]
      BY <2>1 DEF AliveIn, Listed, Table, Record
    <2> QED BY <2>1 DEF Sightings, Heard
  <1>2. ASSUME NEW c \in Call, c.reply # Absent PROVE Learned(T, n, c) \in Table
    <2> DEFINE S == MarkSeen(T, c.peer)
    <2>1. c.peer \in Node /\ c.reply \in Heard BY <1>2 DEF Call
    <2>2. S \in Table BY <2>1, TableOps
    <2>3. ASSUME NEW p \in Node, c.reply[p] # Absent
          PROVE Updated(S[p], c.reply[p].addr, c.reply[p].age, RepHearsay) \in Record
      <3>1. S[p] \in Record \cup {Absent} BY <2>2 DEF Table
      <3>2. c.reply[p] \in [addr : Addr, age : 0..DeadAge] BY <2>1, <2>3 DEF Heard
      <3> QED BY <3>1, <3>2, UpdatedType
    <2> HIDE DEF S
    <2>4. Merge(S, n, c.reply, RepHearsay) \in Table BY <2>2, <2>3 DEF Merge, Table
    <2> QED BY <2>4 DEF Learned, S
  <1> QED BY <1>1, <1>2

----------------------------------------------------------------------------
(* Types *)

\* Every variable keeps its type in every step.
THEOREM TypeCorrect == Spec => []TypeOK
  <1> USE PeerTableAssumption, DiscoveryAssumption
  <1>1. Init => TypeOK
    <2>1. NoPeers \in Table BY DEF NoPeers, Table
    <2>2. 0 \in 0..LongTTL /\ 0 \in 0..HealthPerTick /\ DeadAge \in 0..DeadAge OBVIOUS
    <2> QED BY <2>1, <2>2 DEF Init, TypeOK
  <1>2. TypeOK /\ [Next]_vars => TypeOK'
    <2> SUFFICES ASSUME TypeOK, [Next]_vars PROVE TypeOK'
      OBVIOUS
    <2> USE DEF TypeOK, world, local, timers
    <2>0. 0 \in 0..DeadAge OBVIOUS
    <2>1. ASSUME NEW n \in Node, GossipRound(n) PROVE TypeOK'
      <3>1. CASE NobodyToAsk(n) BY <3>1 DEF NobodyToAsk
      <3>2. ASSUME NEW p \in Node, GossipWith(n, p) PROVE TypeOK'
        <4>1. table[n][p].addr \in Addr
          BY <3>2 DEF GossipWith, AliveIn, Listed, Table, Record
        <4>2. at[n] \in Addr BY <3>2 DEF GossipWith, Awake
        <4>3. [peer |-> p, addr |-> table[n][p].addr, from |-> at[n], reply |-> Absent] \in Call
          BY <4>1, <4>2 DEF Call
        <4> QED BY <3>2, <4>3 DEF GossipWith
      <3> QED BY <2>1, <3>1, <3>2 DEF GossipRound
    <2>2. ASSUME NEW n \in Node, HealthRound(n) PROVE TypeOK'
      <3> DEFINE asked == {[id |-> p, addr |-> table[n][p].addr, rep |-> table[n][p].rep,
              round |-> healthLeft[n]] : p \in {q \in AliveIn(table[n]) : table[n][q].age > 0}}
      <3>1. asked \subseteq Probed
        BY <2>2 DEF HealthRound, AliveIn, Listed, Table, Record, Probed
      <3> HIDE DEF asked
      <3>2. probes' = [probes EXCEPT ![n] = @ \cup asked] BY <2>2 DEF HealthRound, asked
      <3> QED BY <2>2, <3>1, <3>2 DEF HealthRound
    <2>3. ASSUME NEW n \in Node, HandshakeFails(n) PROVE TypeOK'
      BY <2>3 DEF HandshakeFails
    <2>4. ASSUME NEW n \in Node, HandshakeDone(n) PROVE TypeOK'
      <3>1. Learned(table[n], n, call[n]) \in Table
        BY <2>4, HearsayType DEF HandshakeDone
      <3> QED BY <2>4, <3>1 DEF HandshakeDone
    <2>5. ASSUME NEW n \in Node, Down(n) PROVE TypeOK'
      <3>1. NoPeers \in Table BY DEF NoPeers, Table
      <3> QED BY <2>5, <3>1 DEF Down
    <2>6. ASSUME NEW n \in Node, NEW m \in Node, Handled(n, m) PROVE TypeOK'
      <3> DEFINE T == HandshakeTable(table[m], m, n, call[n].from)
      <3>1. call[n] \in Call BY <2>6 DEF Handled
      <3>2. T \in Table BY <3>1, TableOps DEF Call
      <3>3. Sightings(T, m, n) \in Heard BY <3>2, HearsayType
      <3> HIDE DEF T
      <3>4. [call[n] EXCEPT !.reply = Sightings(T, m, n)] \in Call BY <3>1, <3>3 DEF Call
      <3>5. /\ table' = [table EXCEPT ![m] = T]
            /\ call' = [call EXCEPT ![n] =
                 IF at[n] = Off THEN Absent ELSE [@ EXCEPT !.reply = Sightings(T, m, n)]]
        BY <2>6 DEF Handled, T
      <3>6. table' \in [Node -> Table] BY <3>2, <3>5
      <3>7. call' \in [Node -> Call \cup {Absent}] BY <3>4, <3>5
      <3> QED BY <2>6, <3>6, <3>7 DEF Handled
    <2>7. ASSUME NEW n \in Node, NEW e \in probes[n], Probe(n, e) PROVE TypeOK'
      <3>1. e.id \in Node BY DEF Probed
      <3>2. \A who \in SUBSET Node : AfterProbe(table[n], e, who) \in Table
        BY <3>1, TableOps DEF AfterProbe
      <3>3. \E T \in Table : table' = [table EXCEPT ![n] = T]
        <4>1. \A m \in Node : {m} \in SUBSET Node /\ {} \in SUBSET Node OBVIOUS
        <4>2. \E who \in SUBSET Node : table' = [table EXCEPT ![n] = AfterProbe(@, e, who)]
          BY <2>7, <4>1 DEF Probe
        <4> QED BY <3>2, <4>2
      <3>4. table' \in [Node -> Table] BY <3>3
      <3>5. probes' \in [Node -> SUBSET Probed]
        <4>1. probes' = [probes EXCEPT ![n] = probes[n] \ {e}] BY <2>7 DEF Probe
        <4> QED BY <4>1
      <3> QED BY <2>7, <3>4, <3>5 DEF Probe
    <2>8. ASSUME NEW n \in Node, NEW a \in Addr, Goodbye(n, a) PROVE TypeOK'
      <3>1. table' \in [Node -> Table] /\ swept' \in [Node -> [Addr -> 0..LongTTL]]
        <4>1. CASE UNCHANGED <<table, swept>> BY <4>1
        <4>2. ASSUME NEW m \in Node, HandleGoodbye(m, n)
              PROVE table' \in [Node -> Table] /\ swept' \in [Node -> [Addr -> 0..LongTTL]]
          <5>1. Remove(table[m], n) \in Table BY TableOps
          <5>2. n \in AliveIn(table[m]) => table[m][n].addr \in Addr
            BY DEF AliveIn, Listed, Table, Record
          <5> QED BY <4>2, <5>1, <5>2 DEF HandleGoodbye
        <4> QED BY <2>8, <4>1, <4>2 DEF Goodbye
      <3>2. leaving' \in [Node -> (SUBSET Addr) \cup {Absent}]
        <4>1. leaving[n] \ {a} \in SUBSET Addr BY <2>8 DEF Goodbye
        <4> QED BY <2>8, <4>1 DEF Goodbye
      <3> QED BY <2>8, <3>1, <3>2 DEF Goodbye
    <2>9. ASSUME NEW n \in Node, NEW a \in Addr, Start(n, a) PROVE TypeOK'
      BY <2>0, <2>9 DEF Start
    <2>10. ASSUME NEW n \in Node, NEW a \in Addr, AddPeer(n, a) PROVE TypeOK'
      <3>1. \A m \in Node : Added(table[n], m, a) \in Table BY TableOps
      <3>2. table' \in [Node -> Table]
        <4>1. table' = table \/ \E m \in Node : table' = [table EXCEPT ![n] = Added(table[n], m, a)]
          BY <2>10 DEF AddPeer
        <4> QED BY <3>1, <4>1
      <3>3. swept' \in [Node -> [Addr -> 0..LongTTL]]
        <4>1. [swept[n] EXCEPT ![a] = LongTTL] \in [Addr -> 0..LongTTL] OBVIOUS
        <4>2. swept' = [swept EXCEPT ![n] = [swept[n] EXCEPT ![a] = LongTTL]] BY <2>10 DEF AddPeer
        <4> QED BY <4>1, <4>2
      <3> QED BY <2>10, <3>2, <3>3 DEF AddPeer
    <2>11. ASSUME NEW n \in Node, BeginLeave(n) PROVE TypeOK'
      <3> DEFINE told == {table[n][p].addr : p \in AliveIn(table[n])}
      <3>1. told \in SUBSET Addr BY DEF AliveIn, Listed, Table, Record
      <3>2. leaving' = [leaving EXCEPT ![n] = told] BY <2>11 DEF BeginLeave
      <3> HIDE DEF told
      <3> QED BY <2>11, <3>1, <3>2 DEF BeginLeave
    <2>12. ASSUME NEW n \in Node, Freeze(n) PROVE TypeOK'
      BY <2>12 DEF Freeze
    <2>13. ASSUME NEW n \in Node, Thaw(n) PROVE TypeOK'
      BY <2>0, <2>13 DEF Thaw
    <2>14. ASSUME NEW n \in Node, P2pLost(n) PROVE TypeOK'
      <3> DEFINE T == [p \in Node |-> IF p \in AliveIn(table[n]) /\ table[n][p].addr \in P2P
                                      THEN Absent ELSE table[n][p]]
      <3>1. T \in Table BY DEF Table
      <3>2. table' = [table EXCEPT ![n] = T] BY <2>14 DEF P2pLost
      <3> HIDE DEF T
      <3>3. table' \in [Node -> Table] BY <3>1, <3>2
      <3>4. UNCHANGED <<at, frozen, gone, gossipLeft, healthLeft, call, probes, leaving, swept>>
        BY <2>14 DEF P2pLost
      <3> QED BY <3>3, <3>4
    <2>15. ASSUME NEW n \in Node, NEW m \in Node, NEW a \in Addr, Sweep(n, m, a) PROVE TypeOK'
      <3>1. Added(table[n], m, a) \in Table BY TableOps
      <3>2. table' \in [Node -> Table] BY <2>15, <3>1 DEF Sweep
      <3>3. swept' \in [Node -> [Addr -> 0..LongTTL]] BY <2>15 DEF Sweep
      <3> QED BY <2>15, <3>2, <3>3 DEF Sweep
    <2>16. CASE Tick
      <3>1. \A n \in Node : Aged(table[n]) \in Table BY TableOps
      <3>2. \A n \in Node : Older(gone[n]) \in 0..DeadAge BY DEF Older, Smaller
      <3> QED BY <2>0, <2>16, <3>1, <3>2 DEF Tick
    <2>17. CASE UNCHANGED vars
      BY <2>17 DEF vars
    <2>18. ASSUME NEW n \in Node, Works(n) PROVE TypeOK'
      BY <2>1, <2>2, <2>3, <2>4, <2>5, <2>6, <2>7, <2>8, <2>18 DEF Works, Stop
    <2>19. CASE Next
      BY <2>5, <2>9, <2>10, <2>11, <2>12, <2>13, <2>14, <2>15, <2>16, <2>18, <2>19 DEF Next, Crash
    <2> QED BY <2>17, <2>19
  <1> QED BY <1>1, <1>2, PTL DEF Spec

----------------------------------------------------------------------------
(* Sightings *)

\* The endpoints of different nodes stay different: no address is handed over.
NoHandover == \A n, p \in Node : n # p => Homes[n] \cap Homes[p] = {}

\* A table is true to the world: every record has an endpoint of its node, and
\* is no younger than the node's absence.
Truthful(T) == \A p \in Node : T[p] # Absent => T[p].addr \in Homes[p] /\ T[p].age >= gone[p]

TruthfulCall(c) ==
    /\ c.addr \in Homes[c.peer]
    /\ c.reply # Absent =>
        /\ gone[c.peer] = 0
        /\ \A p \in Node : c.reply[p] # Absent =>
              c.reply[p].addr \in Homes[p] /\ c.reply[p].age >= gone[p]

\* The inductive invariant: tables, replies under way and snapshots are true, a
\* node lives at an endpoint of its own, and a node that is awake, or has just
\* sent a request, has not been gone for a tick.
Truth ==
    /\ \A n \in Node : Truthful(table[n])
    /\ \A n \in Node : call[n] # Absent =>
          TruthfulCall(call[n]) /\ call[n].from \in Homes[n] /\ gone[n] = 0
    /\ \A n \in Node : \A e \in probes[n] : e.addr \in Homes[e.id]
    /\ \A n \in Node : at[n] # Off => at[n] \in Homes[n]
    /\ \A n \in Node : Awake(n) => gone[n] = 0

\* Whoever answers at a node's endpoint is that node.
LEMMA AnswererIsOwner ==
    ASSUME NoHandover, TypeOK, Truth, NEW p \in Node, NEW a \in Homes[p],
           NEW m \in Node, Answers(m, a)
    PROVE  m = p /\ Awake(m) /\ gone[p] = 0 /\ at[m] = a
  <1> USE DiscoveryAssumption
  <1>1. at[m] = a /\ a # Off /\ a \in Homes[m] BY DEF Answers, Truth
  <1>2. m = p BY <1>1 DEF NoHandover
  <1> QED BY <1>1, <1>2 DEF Truth, Awake, Answers

\* A true table stays true when a node is recorded as seen, offered with an
\* endpoint of its own, while it is awake; and through every removal.
LEMMA TrueOps ==
    ASSUME TypeOK, NEW T \in Table, Truthful(T), NEW p \in Node
    PROVE  /\ \A a \in Homes[p] : gone[p] = 0 =>
                 Truthful(Upsert(T, p, a, 0, Absent)) /\ Truthful(Added(T, p, a))
           /\ gone[p] = 0 => Truthful(MarkSeen(T, p))
           /\ Truthful(MarkDead(T, p))
           /\ Truthful(Remove(T, p))
  <1> USE PeerTableAssumption DEF TypeOK, Truthful
  <1>1. \A q \in Node : T[q] # Absent =>
            T[q].age \in 0..DeadAge /\ T[q].age >= gone[q] /\ T[q].addr \in Homes[q]
    BY DEF Table, Record
  <1>2. ASSUME NEW a \in Homes[p], gone[p] = 0 PROVE Truthful(Upsert(T, p, a, 0, Absent))
    <2>1. Updated(T[p], a, 0, Absent).addr \in Homes[p]
      BY <1>1, <1>2 DEF Updated, Table, Record
    <2>2. Updated(T[p], a, 0, Absent).age >= 0
      BY <1>1, <1>2 DEF Updated, Smaller, Table, Record
    <2> QED BY <1>2, <2>1, <2>2 DEF Upsert, Table
  <1>3. ASSUME gone[p] = 0 PROVE Truthful(MarkSeen(T, p))
    BY <1>1, <1>3 DEF MarkSeen, Table, Record
  <1>4. Truthful(MarkDead(T, p)) BY <1>1 DEF MarkDead, Table, Record
  <1>5. Truthful(Remove(T, p)) BY DEF Remove, Table
  <1> QED BY <1>2, <1>3, <1>4, <1>5 DEF Added

\* Merging true hearsay into a true table leaves it true.
LEMMA TrueMerge ==
    ASSUME TypeOK, NEW T \in Table, Truthful(T), NEW n \in Node,
           NEW c \in Call, TruthfulCall(c), c.reply # Absent
    PROVE  Truthful(Learned(T, n, c))
  <1> USE PeerTableAssumption
  <1> DEFINE S == MarkSeen(T, c.peer)
  <1>1. c.peer \in Node /\ c.reply \in Heard BY DEF Call
  <1>2. S \in Table /\ Truthful(S) BY <1>1, TableOps, TrueOps DEF TruthfulCall
  <1> HIDE DEF S
  <1>3. ASSUME NEW p \in Node, c.reply[p] # Absent
        PROVE LET r == Updated(S[p], c.reply[p].addr, c.reply[p].age, RepHearsay)
              IN  r.addr \in Homes[p] /\ r.age >= gone[p]
    <2>1. c.reply[p] \in [addr : Addr, age : 0..DeadAge] BY <1>1, <1>3 DEF Heard
    <2>2. c.reply[p].addr \in Homes[p] /\ c.reply[p].age >= gone[p] BY <1>3 DEF TruthfulCall
    <2>3. gone[p] \in 0..DeadAge BY DEF TypeOK
    <2>4. CASE S[p] = Absent BY <2>2, <2>4 DEF Updated
    <2>5. CASE S[p] # Absent
      <3>1. S[p] \in Record BY <1>2, <2>5 DEF Table
      <3>2. S[p].addr \in Homes[p] /\ S[p].age >= gone[p] BY <1>2, <2>5 DEF Truthful
      <3>3. Smaller(c.reply[p].age, S[p].age) >= gone[p] BY <2>2, <3>2 DEF Smaller
      <3> QED BY <2>2, <2>5, <3>1, <3>2, <3>3 DEF Updated, Record
    <2> QED BY <2>4, <2>5
  <1>4. Truthful(Merge(S, n, c.reply, RepHearsay))
    BY <1>2, <1>3 DEF Merge, Truthful
  <1> QED BY <1>4 DEF Learned, S

\* Truth is inductive.
LEMMA TruthPreserved ==
    ASSUME NoHandover, TypeOK, TypeOK', Truth, [Next]_vars
    PROVE  Truth'
  <1> USE PeerTableAssumption, DiscoveryAssumption DEF world, local, timers
  <1>0. \A n \in Node : table[n] \in Table /\ Truthful(table[n]) /\ gone[n] \in 0..DeadAge
    BY DEF TypeOK, Truth
  \* Steps that leave the world, the requests and the snapshots alone.
  <1>1. ASSUME UNCHANGED <<world, call, probes>>, \A n \in Node : Truthful(table'[n])
        PROVE  Truth'
    BY <1>1 DEF Truth, Truthful, TruthfulCall, Awake
  \* ... and steps that leave the tables alone too.
  <1>2. ASSUME UNCHANGED <<world, call, probes, table>> PROVE Truth'
    BY <1>2 DEF Truth, Truthful, TruthfulCall, Awake
  <1>3. ASSUME NEW n \in Node, GossipRound(n) PROVE Truth'
    <2>1. CASE NobodyToAsk(n) BY <1>2, <2>1 DEF NobodyToAsk
    <2>2. ASSUME NEW p \in Node, GossipWith(n, p) PROVE Truth'
      <3> DEFINE c == [peer |-> p, addr |-> table[n][p].addr, from |-> at[n], reply |-> Absent]
      <3>1. c.addr \in Homes[c.peer]
        BY <1>0, <2>2 DEF GossipWith, AliveIn, Listed, Truthful
      <3>2. c.from \in Homes[n] /\ gone[n] = 0 BY <2>2 DEF GossipWith, Awake, Truth
      <3>3. c.reply = Absent OBVIOUS
      <3> HIDE DEF c
      <3>4. call' = [call EXCEPT ![n] = c] /\ UNCHANGED <<world, table, probes>>
        BY <2>2 DEF GossipWith, c
      <3>5. \A q \in Node : call'[q] = IF q = n THEN c ELSE call[q] BY <3>4 DEF TypeOK
      <3> QED BY <3>1, <3>2, <3>3, <3>4, <3>5 DEF Truth, Truthful, TruthfulCall, Awake
    <2> QED BY <1>3, <2>1, <2>2 DEF GossipRound
  <1>4. ASSUME NEW n \in Node, HealthRound(n) PROVE Truth'
    <2>1. \A p \in AliveIn(table[n]) : table[n][p].addr \in Homes[p]
      BY <1>0 DEF AliveIn, Listed, Truthful
    <2>2. \A e \in probes'[n] : e.addr \in Homes[e.id]
      BY <1>4, <2>1 DEF HealthRound, Truth, TypeOK
    <2>3. \A q \in Node : q # n => probes'[q] = probes[q] BY <1>4 DEF HealthRound, TypeOK
    <2>4. UNCHANGED <<world, table, call>> BY <1>4 DEF HealthRound
    <2> QED BY <2>2, <2>3, <2>4 DEF Truth, Truthful, TruthfulCall, Awake
  <1>5. ASSUME NEW n \in Node, HandshakeFails(n) PROVE Truth'
    <2>1. \A q \in Node : call'[q] = IF q = n THEN Absent ELSE call[q]
      BY <1>5 DEF HandshakeFails, TypeOK
    <2>2. UNCHANGED <<world, table, probes>> BY <1>5 DEF HandshakeFails
    <2> QED BY <2>1, <2>2 DEF Truth, Truthful, TruthfulCall, Awake
  <1>6. ASSUME NEW n \in Node, HandshakeDone(n) PROVE Truth'
    <2>1. call[n] \in Call /\ TruthfulCall(call[n]) /\ call[n].reply # Absent
      BY <1>6 DEF HandshakeDone, TypeOK, Truth
    <2>2. Truthful(Learned(table[n], n, call[n])) BY <1>0, <2>1, TrueMerge
    <2>3. \A q \in Node : table'[q] = IF q = n THEN Learned(table[n], n, call[n]) ELSE table[q]
      BY <1>6 DEF HandshakeDone, TypeOK
    <2>4. \A q \in Node : Truthful(table'[q]) BY <1>0, <2>2, <2>3
    <2>5. \A q \in Node : call'[q] = IF q = n THEN Absent ELSE call[q]
      BY <1>6 DEF HandshakeDone, TypeOK
    <2>6. UNCHANGED <<world, probes>> BY <1>6 DEF HandshakeDone
    <2> QED BY <2>4, <2>5, <2>6 DEF Truth, Truthful, TruthfulCall, Awake
  <1>7. ASSUME NEW n \in Node, Down(n) PROVE Truth'
    <2>1. \A q \in Node : table'[q] = IF q = n THEN NoPeers ELSE table[q]
      BY <1>7 DEF Down, TypeOK
    <2>2. \A q \in Node : call'[q] = call[q] \/ call'[q] = Absent BY <1>7 DEF Down, TypeOK
    <2>3. \A q \in Node : probes'[q] \subseteq probes[q] BY <1>7 DEF Down, TypeOK
    <2>4. \A q \in Node : at'[q] = at[q] \/ at'[q] = Off BY <1>7 DEF Down, TypeOK
    <2>5. \A q \in Node : Awake(q)' => Awake(q) BY <1>7 DEF Down, TypeOK, Awake
    <2>6. gone' = gone BY <1>7 DEF Down
    <2>7. \A q \in Node : Truthful(table[q])' BY <1>0, <2>1, <2>6 DEF Truthful, NoPeers
    <2> QED BY <2>2, <2>3, <2>4, <2>5, <2>6, <2>7 DEF Truth, TruthfulCall
  <1>8. ASSUME NEW n \in Node, NEW m \in Node, Handled(n, m) PROVE Truth'
    <2> DEFINE T == HandshakeTable(table[m], m, n, call[n].from)
    <2>1. call[n] \in Call /\ TruthfulCall(call[n]) /\ call[n].from \in Homes[n] /\ gone[n] = 0
      BY <1>8 DEF Handled, TypeOK, Truth
    <2>2. m = call[n].peer /\ gone[m] = 0
      BY <1>8, <2>1, AnswererIsOwner DEF Handled, Call, TruthfulCall
    <2>3. T \in Table BY <1>0, <2>1, TableOps DEF Call
    <2>4. Truthful(T) BY <1>0, <2>1, TrueOps DEF HandshakeTable
    <2> HIDE DEF T
    <2>5. \A p \in Node : Sightings(T, m, n)[p] # Absent =>
            Sightings(T, m, n)[p].addr \in Homes[p] /\ Sightings(T, m, n)[p].age >= gone[p]
      BY <2>4 DEF Sightings, AliveIn, Listed, Truthful
    <2> DEFINE c == [call[n] EXCEPT !.reply = Sightings(T, m, n)]
    <2>6. TruthfulCall(c) /\ c.from \in Homes[n]
      BY <2>1, <2>2, <2>5 DEF TruthfulCall, Call
    <2>7. /\ table' = [table EXCEPT ![m] = T]
          /\ call' = [call EXCEPT ![n] = IF at[n] = Off THEN Absent ELSE c]
          /\ UNCHANGED <<world, probes>>
      BY <1>8 DEF Handled, T
    <2> HIDE DEF c
    <2>8. \A q \in Node : table'[q] = IF q = m THEN T ELSE table[q] BY <2>7 DEF TypeOK
    <2>9. \A q \in Node : call'[q] = IF q = n THEN IF at[n] = Off THEN Absent ELSE c ELSE call[q]
      BY <2>7 DEF TypeOK
    <2>10. \A q \in Node : Truthful(table'[q]) BY <1>0, <2>4, <2>8
    <2> QED BY <2>1, <2>6, <2>7, <2>9, <2>10 DEF Truth, Truthful, TruthfulCall, Awake
  <1>9. ASSUME NEW n \in Node, NEW e \in probes[n], Probe(n, e) PROVE Truth'
    <2>1. e.id \in Node /\ e.addr \in Homes[e.id] BY DEF TypeOK, Probed, Truth
    <2>2. PICK who \in SUBSET Node :
            /\ table' = [table EXCEPT ![n] = AfterProbe(table[n], e, who)]
            /\ e.id \in who => gone[e.id] = 0
      <3>1. CASE \E m \in Node : Answers(m, e.addr)
                  /\ table' = [table EXCEPT ![n] = AfterProbe(table[n], e, {m})]
        <4>1. PICK m \in Node : Answers(m, e.addr)
                  /\ table' = [table EXCEPT ![n] = AfterProbe(table[n], e, {m})]
          BY <3>1
        <4>2. e.id \in {m} => gone[e.id] = 0 BY <2>1, <4>1, AnswererIsOwner
        <4>3. {m} \in SUBSET Node OBVIOUS
        <4> QED BY <4>1, <4>2, <4>3
      <3>2. CASE table' = [table EXCEPT ![n] = AfterProbe(table[n], e, {})]
        <4>1. {} \in SUBSET Node /\ e.id \notin {} OBVIOUS
        <4> QED BY <3>2, <4>1
      <3> QED BY <1>9, <3>1, <3>2 DEF Probe
    <2>3. Truthful(AfterProbe(table[n], e, who)) BY <1>0, <2>1, <2>2, TrueOps DEF AfterProbe
    <2>4. \A q \in Node : Truthful(table'[q]) BY <1>0, <2>2, <2>3 DEF TypeOK
    <2>5. \A q \in Node : probes'[q] \subseteq probes[q] BY <1>9 DEF Probe, TypeOK
    <2>6. UNCHANGED <<world, call>> BY <1>9 DEF Probe
    <2> QED BY <2>4, <2>5, <2>6 DEF Truth, Truthful, TruthfulCall, Awake
  <1>10. ASSUME NEW n \in Node, NEW a \in Addr, Goodbye(n, a) PROVE Truth'
    <2>1. table' = table \/ \E m \in Node : table' = [table EXCEPT ![m] = Remove(table[m], n)]
      BY <1>10 DEF Goodbye, HandleGoodbye
    <2>2. \A m \in Node : Truthful(Remove(table[m], n)) BY <1>0, TrueOps
    <2>3. \A q \in Node : table'[q] = table[q] \/ \E m \in Node : table'[q] = Remove(table[m], n)
      BY <2>1 DEF TypeOK
    <2>4. \A q \in Node : Truthful(table'[q]) BY <1>0, <2>2, <2>3
    <2> QED BY <1>1, <1>10, <2>4 DEF Goodbye
  <1>11. ASSUME NEW n \in Node, NEW a \in Addr, Start(n, a) PROVE Truth'
    <2>1. \A q \in Node : gone'[q] = (IF q = n THEN 0 ELSE gone[q])
                         /\ at'[q] = (IF q = n THEN a ELSE at[q])
      BY <1>11 DEF Start, TypeOK
    <2>2. \A q \in Node : gone'[q] <= gone[q] BY <1>0, <2>1
    <2>3. UNCHANGED <<table, call, probes, frozen>> /\ a \in Homes[n] BY <1>11 DEF Start
    <2>4. \A q \in Node : Truthful(table[q])'
      BY <1>0, <2>1, <2>3 DEF Truthful, Table, Record
    <2>5. \A q \in Node : call[q] # Absent => TruthfulCall(call[q])'
      <3>1. ASSUME NEW q \in Node, call[q] # Absent PROVE TruthfulCall(call[q])'
        <4>1. call[q] \in Call /\ TruthfulCall(call[q]) BY <3>1 DEF TypeOK, Truth
        <4>2. call[q].reply # Absent => \A p \in Node : call[q].reply[p] # Absent =>
                  call[q].reply[p].age \in 0..DeadAge
          BY <4>1 DEF Call, Heard
        <4> QED BY <1>0, <2>1, <2>3, <4>1, <4>2 DEF TruthfulCall, Call
      <3> QED BY <3>1
    <2> QED BY <2>1, <2>3, <2>4, <2>5 DEF Truth, Awake
  <1>12. ASSUME NEW n \in Node, NEW a \in Addr, AddPeer(n, a) PROVE Truth'
    <2>1. \A m \in Node : Answers(m, a) => Truthful(Added(table[n], m, a))
      <3>1. ASSUME NEW m \in Node, Answers(m, a) PROVE Truthful(Added(table[n], m, a))
        <4>1. a \in Homes[m] /\ gone[m] = 0 BY <3>1 DEF Answers, Truth, Awake
        <4> QED BY <1>0, <4>1, TrueOps
      <3> QED BY <3>1
    <2>2. table' = table \/ \E m \in Node : Answers(m, a)
              /\ table' = [table EXCEPT ![n] = Added(table[n], m, a)]
      BY <1>12 DEF AddPeer
    <2>3. \A q \in Node : table'[q] = table[q]
              \/ \E m \in Node : Answers(m, a) /\ table'[q] = Added(table[n], m, a)
      BY <2>2 DEF TypeOK
    <2>4. \A q \in Node : Truthful(table'[q]) BY <1>0, <2>1, <2>3
    <2> QED BY <1>1, <1>12, <2>4 DEF AddPeer
  <1>13. ASSUME NEW n \in Node, BeginLeave(n) PROVE Truth'
    BY <1>2, <1>13 DEF BeginLeave
  <1>14. ASSUME NEW n \in Node, Freeze(n) PROVE Truth'
    BY <1>14 DEF Freeze, Truth, Truthful, TruthfulCall, Awake, TypeOK
  <1>15. ASSUME NEW n \in Node, Thaw(n) PROVE Truth'
    <2>1. \A q \in Node : gone'[q] = (IF q = n THEN 0 ELSE gone[q]) BY <1>15 DEF Thaw, TypeOK
    <2>2. UNCHANGED <<table, call, probes, at>> BY <1>15 DEF Thaw
    <2>3. \A q \in Node : Awake(q)' => q = n \/ Awake(q) BY <1>15 DEF Thaw, TypeOK, Awake
    <2>4. \A q \in Node : Truthful(table[q])'
      BY <1>0, <2>1, <2>2 DEF Truthful, Table, Record
    <2>5. \A q \in Node : call[q] # Absent => TruthfulCall(call[q])'
      <3>1. ASSUME NEW q \in Node, call[q] # Absent PROVE TruthfulCall(call[q])'
        <4>1. call[q] \in Call /\ TruthfulCall(call[q]) BY <3>1 DEF TypeOK, Truth
        <4>2. call[q].reply # Absent => \A p \in Node : call[q].reply[p] # Absent =>
                  call[q].reply[p].age \in 0..DeadAge
          BY <4>1 DEF Call, Heard
        <4> QED BY <1>0, <2>1, <2>2, <4>1, <4>2 DEF TruthfulCall, Call
      <3> QED BY <3>1
    <2> QED BY <2>1, <2>2, <2>3, <2>4, <2>5 DEF Truth
  <1>16. ASSUME NEW n \in Node, P2pLost(n) PROVE Truth'
    <2> DEFINE T == [p \in Node |-> IF p \in AliveIn(table[n]) /\ table[n][p].addr \in P2P
                                    THEN Absent ELSE table[n][p]]
    <2>1. Truthful(T) BY <1>0 DEF Truthful
    <2>2. table' = [table EXCEPT ![n] = T] BY <1>16 DEF P2pLost
    <2> HIDE DEF T
    <2>3. \A q \in Node : Truthful(table'[q]) BY <1>0, <2>1, <2>2 DEF TypeOK
    <2> QED BY <1>1, <1>16, <2>3 DEF P2pLost
  <1>17. ASSUME NEW n \in Node, NEW m \in Node, NEW a \in Addr, Sweep(n, m, a) PROVE Truth'
    <2>1. a \in Homes[m] /\ gone[m] = 0 BY <1>17 DEF Sweep, Answers, Truth, Awake
    <2>2. Truthful(Added(table[n], m, a)) BY <1>0, <2>1, TrueOps
    <2>3. \A q \in Node : Truthful(table'[q]) BY <1>0, <1>17, <2>2 DEF Sweep, TypeOK
    <2> QED BY <1>1, <1>17, <2>3 DEF Sweep
  <1>18. CASE Tick
    <2>1. \A n \in Node : call[n] = Absent /\ probes[n] = {} BY <1>18 DEF Tick, Quiet
    <2>2. \A n \in Node : gone'[n] = IF Awake(n) THEN 0 ELSE Older(gone[n])
      BY <1>18 DEF Tick
    <2>3. UNCHANGED <<at, frozen, call, probes>> BY <1>18 DEF Tick
    <2>4. ASSUME NEW n \in Node, NEW p \in Node, table'[n][p] # Absent
          PROVE table'[n][p].addr \in Homes[p] /\ table'[n][p].age >= gone'[p]
      <3>1. table'[n] = Aged(table[n]) BY <1>18 DEF Tick
      <3>2. table[n][p] # Absent /\ table'[n][p] = [table[n][p] EXCEPT !.age = Older(table[n][p].age)]
        BY <2>4, <3>1 DEF Aged
      <3>3. table[n][p] \in Record BY <1>0, <3>2 DEF Table
      <3>4. table[n][p].addr \in Homes[p] /\ table[n][p].age >= gone[p]
        BY <1>0, <3>2 DEF Truthful
      <3>5. table[n][p].age \in 0..DeadAge /\ gone[p] \in 0..DeadAge BY <1>0, <3>3 DEF Record
      <3>6. Older(table[n][p].age) >= Older(gone[p]) /\ Older(table[n][p].age) >= 0
        BY <3>4, <3>5 DEF Older, Smaller
      <3> QED BY <2>2, <3>2, <3>3, <3>4, <3>6 DEF Record
    <2>5. \A n \in Node : Truthful(table[n])' BY <2>4 DEF Truthful
    <2> QED BY <2>1, <2>2, <2>3, <2>5 DEF Truth, Awake
  <1>19. CASE UNCHANGED vars
    BY <1>2, <1>19 DEF vars
  <1>20. ASSUME NEW n \in Node, Works(n) PROVE Truth'
    BY <1>3, <1>4, <1>5, <1>6, <1>7, <1>8, <1>9, <1>10, <1>20 DEF Works, Stop
  <1>21. CASE Next
    BY <1>7, <1>11, <1>12, <1>13, <1>14, <1>15, <1>16, <1>17, <1>18, <1>20, <1>21 DEF Next, Crash
  <1> QED BY <1>19, <1>21

\* No node lists itself, and none asks itself; what it is told about itself it
\* drops (the merge's selfNodeId), so this needs nothing of the answers.
SelfFree ==
    /\ NeverSelf
    /\ \A n \in Node : call[n] # Absent => call[n].peer # n

THEOREM NodesNeverListThemselves == Spec => []NeverSelf
  <1>1. Init => SelfFree
    BY DEF Init, SelfFree, NeverSelf, NoPeers
  <1>2. TypeOK /\ SelfFree /\ [Next]_vars => SelfFree'
    <2> SUFFICES ASSUME TypeOK, SelfFree, [Next]_vars PROVE SelfFree'
      OBVIOUS
    <2> USE DEF SelfFree, NeverSelf, world, local, timers
    \* What a table operation does not add, it does not have.
    <2>1. ASSUME NEW T, NEW n \in Node, T[n] = Absent, T \in Table
          PROVE  /\ \A p \in Node : MarkSeen(T, p)[n] = Absent /\ MarkDead(T, p)[n] = Absent
                                    /\ Remove(T, p)[n] = Absent
                 /\ \A p \in Node \ {n}, a \in Addr :
                        Upsert(T, p, a, 0, Absent)[n] = Absent /\ Added(T, p, a)[n] = Absent
                 /\ Aged(T)[n] = Absent
      BY <2>1 DEF MarkSeen, MarkDead, Remove, Upsert, Added, Aged, Table
    <2>2. \A n \in Node : table[n] \in Table /\ table[n][n] = Absent BY DEF TypeOK
    \* Steps that change at most one table, and no request.
    <2>3. ASSUME NEW n \in Node, NEW T \in Table, T[n] = Absent,
                 table' = [table EXCEPT ![n] = T],
                 \A q \in Node : call'[q] = call[q] \/ call'[q] = Absent
                                \/ (call'[q] # Absent /\ call[q] # Absent /\ call'[q].peer = call[q].peer)
          PROVE SelfFree'
      BY <2>2, <2>3 DEF TypeOK
    <2>4. ASSUME NEW n \in Node, GossipRound(n) PROVE SelfFree'
      <3>1. CASE NobodyToAsk(n) BY <2>2, <3>1 DEF NobodyToAsk
      <3>2. ASSUME NEW p \in Node, GossipWith(n, p) PROVE SelfFree'
        <4>1. p # n BY <2>2, <3>2 DEF GossipWith, AliveIn, Listed
        <4>2. \A q \in Node : q # n => call'[q] = call[q] BY <3>2 DEF GossipWith, TypeOK
        <4>3. call'[n].peer = p BY <3>2 DEF GossipWith, TypeOK
        <4> QED BY <2>2, <3>2, <4>1, <4>2, <4>3 DEF GossipWith
      <3> QED BY <2>4, <3>1, <3>2 DEF GossipRound
    <2>5. ASSUME UNCHANGED table,
                 \A q \in Node : call'[q] = call[q] \/ call'[q] = Absent
          PROVE SelfFree'
      BY <2>2, <2>5
    <2>6. ASSUME NEW n \in Node, HealthRound(n) \/ HandshakeFails(n) \/ BeginLeave(n) \/ Freeze(n) \/ Thaw(n)
          PROVE SelfFree'
      BY <2>5, <2>6 DEF HealthRound, HandshakeFails, BeginLeave, Freeze, Thaw, TypeOK
    <2>7. ASSUME NEW n \in Node, NEW a \in Addr, Start(n, a) PROVE SelfFree'
      BY <2>5, <2>7 DEF Start
    <2>8. ASSUME NEW n \in Node, HandshakeDone(n) PROVE SelfFree'
      <3>1. call[n] \in Call /\ call[n].reply # Absent BY <2>8 DEF HandshakeDone, TypeOK
      <3>2. MarkSeen(table[n], call[n].peer)[n] = Absent BY <2>1, <2>2, <3>1 DEF Call
      <3>3. Learned(table[n], n, call[n])[n] = Absent BY <3>2 DEF Learned, Merge
      <3>4. Learned(table[n], n, call[n]) \in Table BY <2>2, <3>1, HearsayType
      <3>5. \A q \in Node : call'[q] = call[q] \/ call'[q] = Absent BY <2>8 DEF HandshakeDone, TypeOK
      <3> QED BY <2>3, <2>8, <3>3, <3>4, <3>5 DEF HandshakeDone
    <2>9. ASSUME NEW n \in Node, Down(n) PROVE SelfFree'
      <3>1. NoPeers \in Table /\ NoPeers[n] = Absent BY DEF NoPeers, Table
      <3>2. \A q \in Node : call'[q] = call[q] \/ call'[q] = Absent BY <2>9 DEF Down, TypeOK
      <3> QED BY <2>3, <2>9, <3>1, <3>2 DEF Down
    <2>10. ASSUME NEW n \in Node, NEW m \in Node, Handled(n, m) PROVE SelfFree'
      <3> DEFINE T == HandshakeTable(table[m], m, n, call[n].from)
      <3>1. call[n] \in Call BY <2>10 DEF Handled, TypeOK
      <3>2. T \in Table BY <2>2, <3>1, TableOps DEF Call
      <3>3. T[m] = Absent BY <2>1, <2>2, <3>1 DEF HandshakeTable, Call
      <3>4. \A q \in Node : \/ call'[q] = call[q] \/ call'[q] = Absent
                            \/ call'[q] # Absent /\ call[q] # Absent /\ call'[q].peer = call[q].peer
        <4>1. \A q \in Node : q # n => call'[q] = call[q] BY <2>10 DEF Handled, TypeOK
        <4>2. \/ call'[n] = Absent
              \/ call'[n] # Absent /\ call'[n].peer = call[n].peer
          <5>1. call'[n] = Absent \/ call'[n] = [call[n] EXCEPT !.reply = Sightings(T, m, n)]
            BY <2>10 DEF Handled, TypeOK
          <5> QED BY <3>1, <5>1 DEF Call
        <4> QED BY <2>10, <4>1, <4>2 DEF Handled
      <3>5. table' = [table EXCEPT ![m] = T] BY <2>10 DEF Handled
      <3> HIDE DEF T
      <3> QED BY <2>3, <3>2, <3>3, <3>4, <3>5
    <2>11. ASSUME NEW n \in Node, NEW e \in probes[n], Probe(n, e) PROVE SelfFree'
      <3>1. e.id \in Node BY DEF TypeOK, Probed
      <3>2. \A who : AfterProbe(table[n], e, who) \in Table /\ AfterProbe(table[n], e, who)[n] = Absent
        BY <2>1, <2>2, <3>1, TableOps DEF AfterProbe
      <3>3. \E who : table' = [table EXCEPT ![n] = AfterProbe(table[n], e, who)]
        BY <2>11 DEF Probe
      <3>4. UNCHANGED call BY <2>11 DEF Probe
      <3> QED BY <2>3, <3>2, <3>3, <3>4
    <2>12. ASSUME NEW n \in Node, NEW a \in Addr, Goodbye(n, a) PROVE SelfFree'
      <3>1. UNCHANGED call BY <2>12 DEF Goodbye
      <3>2. CASE UNCHANGED table BY <2>5, <3>1, <3>2
      <3>3. ASSUME NEW m \in Node, HandleGoodbye(m, n) PROVE SelfFree'
        <4>1. Remove(table[m], n) \in Table /\ Remove(table[m], n)[m] = Absent
          BY <2>1, <2>2, TableOps
        <4> QED BY <2>3, <3>1, <3>3, <4>1 DEF HandleGoodbye
      <3> QED BY <2>12, <3>2, <3>3 DEF Goodbye
    <2>13. ASSUME NEW n \in Node, NEW a \in Addr, AddPeer(n, a) PROVE SelfFree'
      <3>1. UNCHANGED call BY <2>13 DEF AddPeer
      <3>2. CASE UNCHANGED table BY <2>5, <3>1, <3>2
      <3>3. ASSUME NEW m \in Node \ {n}, table' = [table EXCEPT ![n] = Added(table[n], m, a)]
            PROVE SelfFree'
        <4>1. Added(table[n], m, a) \in Table BY <2>2, TableOps
        <4>2. Added(table[n], m, a)[n] = Absent BY <2>1, <2>2
        <4> QED BY <2>3, <3>1, <3>3, <4>1, <4>2
      <3> QED BY <2>13, <3>2, <3>3 DEF AddPeer
    <2>14. ASSUME NEW n \in Node, P2pLost(n) PROVE SelfFree'
      <3> DEFINE T == [p \in Node |-> IF p \in AliveIn(table[n]) /\ table[n][p].addr \in P2P
                                      THEN Absent ELSE table[n][p]]
      <3>1. T \in Table /\ T[n] = Absent BY <2>2 DEF Table
      <3>2. table' = [table EXCEPT ![n] = T] /\ UNCHANGED call BY <2>14 DEF P2pLost
      <3> HIDE DEF T
      <3> QED BY <2>3, <3>1, <3>2
    <2>15. ASSUME NEW n \in Node, NEW m \in Node, NEW a \in Addr, Sweep(n, m, a) PROVE SelfFree'
      <3>1. Added(table[n], m, a) \in Table BY <2>2, TableOps
      <3>2. Added(table[n], m, a)[n] = Absent BY <2>1, <2>2, <2>15 DEF Sweep
      <3> QED BY <2>3, <2>15, <3>1, <3>2 DEF Sweep
    <2>16. CASE Tick
      <3>1. \A n \in Node : table'[n] = Aged(table[n]) BY <2>16 DEF Tick
      <3>2. UNCHANGED call BY <2>16 DEF Tick
      <3> QED BY <2>1, <2>2, <3>1, <3>2
    <2>17. CASE UNCHANGED vars
      BY <2>5, <2>17 DEF vars
    <2>18. ASSUME NEW n \in Node, Works(n) PROVE SelfFree'
      BY <2>4, <2>6, <2>8, <2>9, <2>10, <2>11, <2>12, <2>18 DEF Works, Stop
    <2>19. CASE Next
      BY <2>6, <2>7, <2>9, <2>13, <2>14, <2>15, <2>16, <2>18, <2>19 DEF Next, Crash
    <2> QED BY <2>17, <2>19
  <1>3. SelfFree => NeverSelf
    BY DEF SelfFree
  <1> QED BY <1>1, <1>2, <1>3, TypeCorrect, PTL DEF Spec

\* A node that is gone cannot be kept alive by the others talking about it.
THEOREM SightingsAreTrue ==
    ASSUME NoHandover PROVE Spec => []NoFalseSighting
  <1>1. Init => Truth
    BY DEF Init, Truth, Truthful, NoPeers, Awake
  <1>2. TypeOK /\ TypeOK' /\ Truth /\ [Next]_vars => Truth'
    BY TruthPreserved
  <1>3. Truth => NoFalseSighting
    BY DEF Truth, Truthful, NoFalseSighting
  <1> QED BY <1>1, <1>2, <1>3, TypeCorrect, PTL DEF Spec
=============================================================================
